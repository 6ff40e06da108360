---------------------------- MODULE Topological -----------------------------
(***************************************************************************)
(* snow/consensus/snowman Topological: the tree of processing blocks above *)
(* the last accepted block, with a snowball.Tree at every block that has   *)
(* children, deciding which child is canonical.                            *)
(*                                                                         *)
(* The loops over the tree are written as sets: a block is an element of   *)
(* Choices, Parent and Ancestors give the blocks below it.                 *)
(*                                                                         *)
(* accepted and rejected record the calls of Block.Accept and Reject.      *)
(***************************************************************************)
EXTENDS BlockTree

CONSTANT Nil  \* the snowball instance of a block without children

VARIABLES
    blocks,            \* ts.blocks: [sb, shouldFalter, children] by block
    lastAccepted,      \* ts.lastAcceptedID
    preference,        \* ts.preference
    preferredIDs,      \* ts.preferredIDs
    preferredHeights,  \* ts.preferredHeights: height -> block
    accepted,          \* blocks whose Accept was called
    rejected           \* blocks whose Reject was called

vars == <<blocks, lastAccepted, preference, preferredIDs, preferredHeights,
          accepted, rejected>>

newBlock == [sb |-> Nil, shouldFalter |-> FALSE, children |-> {}]

Processing(b) == b # lastAccepted /\ b \in DOMAIN blocks

(* Initialize *)
Init ==
    /\ blocks = [b \in {Genesis} |-> newBlock]
    /\ lastAccepted = Genesis
    /\ preference = Genesis
    /\ preferredIDs = {}
    /\ preferredHeights = [h \in {} |-> Genesis]
    /\ accepted = {Genesis}
    /\ rejected = {}

-----------------------------------------------------------------------------
(* sb and children are nil until the first child. *)
AddToSb(n, c) == IF n.sb = Nil THEN NewTree(c) ELSE TreeAdd(n.sb, c)

(* Faulty: a later child is only added to the instance. *)
AddChildToSbOnly(n, c) ==
    [n EXCEPT !.sb = AddToSb(n, c), !.children = IF @ = {} THEN {c} ELSE @]

AddChild(n, c) == [n EXCEPT !.sb = AddToSb(n, c), !.children = @ \cup {c}]

(* A duplicate or a block without its parent is refused with an error. *)
Add(b) ==
    /\ ~Processing(b)
    /\ b # Genesis
    /\ Parent[b] \in DOMAIN blocks
    /\ blocks' = [a \in DOMAIN blocks \cup {b} |->
                     IF a = b THEN newBlock
                     ELSE IF a = Parent[b] THEN AddChild(blocks[a], b)
                     ELSE blocks[a]]
    /\ IF preference = Parent[b]
       THEN /\ preference' = b
            /\ preferredIDs' = preferredIDs \cup {b}
            /\ preferredHeights' = [h \in DOMAIN preferredHeights \cup {Height[b]} |->
                                       IF h = Height[b] THEN b ELSE preferredHeights[h]]
       ELSE UNCHANGED <<preference, preferredIDs, preferredHeights>>
    /\ UNCHANGED <<lastAccepted, accepted, rejected>>

-----------------------------------------------------------------------------
(* vote, with the blocks of the vote stack as the set polled; the loop     *)
(* runs from the last accepted block upwards.                              *)

(* Faulty: a falter is not passed on to the blocks above. *)
FaltersAlone(polled, p) == blocks[p].shouldFalter

(* The confidence below p is stale: p or a block of the stack below it     *)
(* was left out of an earlier poll (shouldTransitivelyFalter).             *)
Falters(polled, p) == \E q \in polled \cap Upto(p) : blocks[q].shouldFalter

SbAfter(votes, polled, p) ==
    TreeRecordPoll(IF Falters(polled, p) THEN TreeRecordUnsuccessfulPoll(blocks[p].sb)
                   ELSE blocks[p].sb,
                   VotesAt(DOMAIN blocks, lastAccepted, votes, p))

(* sb is a function: the instance of each polled block after the poll. *)

Leads(sb, p, b) == TreePreference(sb[p]) \in Upto(b)

(* acceptPreferredChild is called on p: its instance is final and, by the  *)
(* time of its turn, p is the last accepted block.                         *)
Accepting(sb) ==
    {p \in DOMAIN sb :
        /\ TreeFinalized(sb[p])
        /\ \A q \in DOMAIN sb \cap Ancestors[p] : TreeFinalized(sb[q]) /\ Leads(sb, q, p)}

(* Faulty: one poll accepts one block. *)
NewlyAcceptedTop(sb) ==
    {TreePreference(sb[p]) :
        p \in {p \in Accepting(sb) : \A q \in Accepting(sb) : Height[q] <= Height[p]}}

NewlyAccepted(sb) == {TreePreference(sb[p]) : p \in Accepting(sb)}

(* Faulty: the descendants of a rejected block are forgotten. *)
NewlyRejectedChildren(sb) ==
    {b \in DOMAIN blocks : \E p \in Accepting(sb) :
        b \in blocks[p].children /\ ~Leads(sb, p, b)}

(* The siblings of an accepted block, and rejectTransitively. *)
NewlyRejected(sb) ==
    {b \in DOMAIN blocks : \E p \in Accepting(sb) : p \in Ancestors[b] /\ ~Leads(sb, p, b)}

(* The loop stops at a block that an acceptance has rejected. *)
Voted(sb) == DOMAIN sb \ NewlyRejected(sb)

LastAcceptedAfter(sb) ==
    IF Accepting(sb) = {} THEN lastAccepted
    ELSE CHOOSE b \in NewlyAccepted(sb) : \A a \in NewlyAccepted(sb) : Height[a] <= Height[b]

(* The parents of the accepted blocks and the rejected blocks leave the    *)
(* tree.                                                                   *)
Removed(sb) == Accepting(sb) \cup NewlyRejected(sb)

(* Faulty: a falter that was carried out stays pending. *)
FaltersAfterSticky(voted, b) ==
    IF voted = {} THEN b = lastAccepted \/ blocks[b].shouldFalter
    ELSE blocks[b].shouldFalter \/ (b \notin voted /\ \E p \in voted : b \in blocks[p].children)

(* The children that did not get the poll are marked, or the root if no    *)
(* block got it.                                                           *)
FaltersAfter(voted, b) ==
    IF voted = {} THEN b = lastAccepted \/ blocks[b].shouldFalter
    ELSE IF b \in voted THEN FALSE
    ELSE blocks[b].shouldFalter \/ \E p \in voted : b \in blocks[p].children

(* ts.blocks after the poll. *)
BlocksAfter(sb) ==
    [b \in DOMAIN blocks \ Removed(sb) |->
        [blocks[b] EXCEPT !.sb = IF b \in Voted(sb) THEN sb[b] ELSE @,
                          !.shouldFalter = FaltersAfter(Voted(sb), b)]]

(* onPreferredBranch: every block below p that had the poll leads to p. *)
OnPreferredBranch(sb) ==
    {p \in Voted(sb) : \A q \in Voted(sb) \cap Ancestors[p] : Leads(sb, q, p)}

(* The block after the last preferred one that had the poll. *)
NewPreferred(sb) ==
    IF DOMAIN sb = {} THEN preference
    ELSE TreePreference(sb[CHOOSE p \in OnPreferredBranch(sb) :
                              \A q \in OnPreferredBranch(sb) : Height[q] <= Height[p]])

-----------------------------------------------------------------------------
(* The rest of RecordPoll: keep the preferred branch if it still contains  *)
(* the block returned by vote; otherwise walk from it down to the last     *)
(* accepted block and up along the instances' preferences.                 *)

Below(newBlocks, last, preferred) ==
    {b \in DOMAIN newBlocks \cap Upto(preferred) : Height[b] > Height[last]}

(* Faulty: stops at the block returned by vote. *)
AboveInNone(newBlocks, preferred) == {}

AboveIn(newBlocks, preferred) ==
    {b \in DOMAIN newBlocks :
        /\ preferred \in Ancestors[b]
        /\ \A q \in Ancestors[b] : preferred \in Upto(q) =>
              TreePreference(newBlocks[q].sb) \in Upto(b)}

RecordPreference(newBlocks, last, newlyAccepted, preferred) ==
    IF preferred \in preferredIDs \ newlyAccepted
    THEN /\ preferredIDs' = preferredIDs \ newlyAccepted
         /\ preferredHeights' =
               [h \in DOMAIN preferredHeights \ {Height[a] : a \in newlyAccepted} |->
                   preferredHeights[h]]
         /\ UNCHANGED preference
    ELSE LET above  == AboveIn(newBlocks, preferred)
             branch == Below(newBlocks, last, preferred) \cup above
         IN  /\ preferredIDs' = branch
             /\ preferredHeights' = [h \in {Height[b] : b \in branch} |->
                                        CHOOSE b \in branch : Height[b] = h]
             /\ preference' = CHOOSE b \in above \cup {preferred} :
                                 \A a \in above : Height[a] <= Height[b]

Instances(votes, polled) == [p \in polled |-> SbAfter(votes, polled, p)]

Finish(newBlocks, last, newlyAccepted, newlyRejected, preferred) ==
    /\ blocks' = newBlocks
    /\ lastAccepted' = last
    /\ accepted' = accepted \cup newlyAccepted
    /\ rejected' = rejected \cup newlyRejected
    /\ RecordPreference(newBlocks, last, newlyAccepted, preferred)

Vote(sb) ==
    Finish(BlocksAfter(sb), LastAcceptedAfter(sb), NewlyAccepted(sb), NewlyRejected(sb),
           NewPreferred(sb))

Poll(votes) ==
    Vote(Instances(votes, Polled(DOMAIN blocks, lastAccepted, votes)))

Next ==
    \/ \E b \in Blocks : Add(b)
    \/ \E votes \in Ballots : Poll(votes)

Spec == Init /\ [][Next]_vars

-----------------------------------------------------------------------------
(* Types of the state; a block has an instance once it has a child. *)
TypeOK ==
    /\ DOMAIN blocks \subseteq Blocks
    /\ \A b \in DOMAIN blocks : /\ blocks[b].shouldFalter \in BOOLEAN
                                 /\ blocks[b].children \subseteq Blocks
                                 /\ blocks[b].sb = Nil <=> blocks[b].children = {}
    /\ lastAccepted \in Blocks
    /\ preference \in Blocks
    /\ preferredIDs \subseteq Blocks
    /\ DOMAIN preferredHeights \subseteq Nat
    /\ accepted \subseteq Blocks
    /\ rejected \subseteq Blocks

(* ts.blocks is the last accepted block and a tree of undecided blocks on  *)
(* top of it; children and parents agree.  acceptPreferredChild and the    *)
(* walk up the preferred branch look up an instance's preference among the *)
(* block's children (topological.go:589, 303): it is always there.         *)
ProcessingTree ==
    /\ TypeOK
    /\ lastAccepted \in DOMAIN blocks
    /\ \A b \in DOMAIN blocks \ {lastAccepted} :
          /\ b # Genesis
          /\ Parent[b] \in DOMAIN blocks
          /\ lastAccepted \in Ancestors[b]
    /\ \A b \in DOMAIN blocks :
          /\ blocks[b].children = {c \in DOMAIN blocks \ {lastAccepted} : Parent[c] = b}
          /\ blocks[b].children # {} => TreePreference(blocks[b].sb) \in blocks[b].children

(* The preferred branch is what following the instances' preferences from  *)
(* the last accepted block gives, although RecordPoll and Add only rebuild *)
(* it when they have to.                                                   *)
PreferredBranch ==
    /\ \A b \in preferredIDs :
          /\ b \in DOMAIN blocks \ {lastAccepted}
          /\ Parent[b] \in preferredIDs \cup {lastAccepted}
    /\ \A b \in preferredIDs \cup {lastAccepted} :
          blocks[b].children \cap preferredIDs =
              IF blocks[b].children = {} THEN {} ELSE {TreePreference(blocks[b].sb)}
    /\ preference \in preferredIDs \cup {lastAccepted}
    /\ blocks[preference].children = {}
    /\ preferredHeights = [h \in {Height[b] : b \in preferredIDs} |->
                               CHOOSE b \in preferredIDs : Height[b] = h]

(* A decision is never left waiting: an instance whose outcome would be    *)
(* accepted has not been decided before its block became the last accepted *)
(* one, so no accepted block is overlooked.                                *)
NoPendingDecision ==
    blocks[lastAccepted].children # {} => ~TreeFinalized(blocks[lastAccepted].sb)
=============================================================================
