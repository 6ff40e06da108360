---------------------------- MODULE SnowballTree ----------------------------
(***************************************************************************)
(* snowball.Tree: a modified patricia tree over the bits of the choices,   *)
(* with a snow instance per node.  The factory is SnowflakeFactory.        *)
(*                                                                         *)
(* The tree is a table of nodes indexed by the bits in front of them: a    *)
(* node's key p is the prefix it assumes decided, so Len(p) is its         *)
(* decidedPrefix (unaryNode) or its bit (binaryNode).  A child is found    *)
(* under the key where its parent ends.  Pointers in the code only change  *)
(* at a split and when the root finalizes, as the keys do here.            *)
(*                                                                         *)
(* A bag of votes is a function from the sampled slots that voted to the   *)
(* choices they voted for.                                                 *)
(*                                                                         *)
(* RecordPoll descends one path, so it is written as an update of all the  *)
(* nodes on that path, each described by the nodes above it.               *)
(***************************************************************************)
EXTENDS Snowflake, FiniteSets

CONSTANTS
    Choices,  \* the ids that can be added
    NumBits,  \* ids.NumBits
    Bits      \* Bits[c][i + 1] is c.Bit(i)

ASSUME IDAssumption ==
    /\ NumBits \in Nat \ {0}
    /\ Bits \in [Choices -> [1 .. NumBits -> {0, 1}]]
    /\ \A c, d \in Choices : Bits[c] = Bits[d] => c = d

Bit(c, i) == Bits[c][i + 1]

Prefix(c, n) == [i \in 1 .. n |-> Bits[c][i]]

(* ids.EqualSubset(0, Len(p), ...) with an id that starts with p. *)
Under(c, p) == Prefix(c, Len(p)) = p

-----------------------------------------------------------------------------
UnaryNode(preference, commonPrefix, snow, shouldReset) ==
    [kind         |-> "unary",
     preference   |-> preference,
     commonPrefix |-> commonPrefix,
     snow         |-> snow,
     shouldReset  |-> shouldReset]

BinaryNode(preferences, snow, shouldReset) ==
    [kind        |-> "binary",
     preferences |-> preferences,
     snow        |-> snow,
     shouldReset |-> shouldReset]

IsUnary(t, p) == t.nodes[p].kind = "unary"

NodePreference(n) ==
    IF n.kind = "unary" THEN n.preference ELSE n.preferences[n.snow.preference]

(* child # nil: every node but one that votes over the last bit. *)
HasChild(t, p) ==
    IF IsUnary(t, p) THEN t.nodes[p].commonPrefix < NumBits ELSE Len(p) + 1 < NumBits

NewTree(c) ==
    [root        |-> << >>,
     shouldReset |-> FALSE,
     nodes       |-> [p \in {<< >>} |-> UnaryNode(c, NumBits, newUnarySnowflake, FALSE)]]

TreePreference(t) == NodePreference(t.nodes[t.root])

TreeFinalized(t) == t.nodes[t.root].snow.finalized

-----------------------------------------------------------------------------
(* Add *)

StrictPrefix(q, p) == Len(q) < Len(p) /\ \A i \in 1 .. Len(q) : q[i] = p[i]

(* The nodes a descent to p passes. *)
Above(t, p) == {q \in DOMAIN t.nodes : StrictPrefix(q, p)}

Differences(c, n, p) ==
    {i \in Len(p) .. (n.commonPrefix - 1) : Bit(n.preference, i) # Bit(c, i)}

(* Node p is where Add(c) ends in a split: the descent gets to p, where c  *)
(* differs from the bits the node votes over, without meeting a finalized  *)
(* unary node.                                                             *)
SplitsAt(t, c, p) ==
    /\ Under(c, p)
    /\ IsUnary(t, p)
    /\ Differences(c, t.nodes[p], p) # {}
    /\ \A q \in Above(t, p) \cup {p} : IsUnary(t, q) => ~t.nodes[q].snow.finalized

SplitPreferences(old, new, bit) == [b \in {0, 1} |-> IF b = bit THEN old ELSE new]

(* Faulty: no node for the rest of c. *)
SplitKeysWithoutNew(c, u, index) ==
    {Prefix(u.preference, index)}
    \cup (IF index + 1 < u.commonPrefix THEN {Prefix(u.preference, index + 1)} ELSE {})

SplitKeys(c, u, index) ==
    {Prefix(u.preference, index)}
    \cup (IF index + 1 < u.commonPrefix THEN {Prefix(u.preference, index + 1)} ELSE {})
    \cup (IF index + 1 < NumBits THEN {Prefix(c, index + 1)} ELSE {})

(* Cases 2 to 5 of unaryNode.Add: a binary node at the first difference,   *)
(* what is left of the node in front of it and behind it, and a new node   *)
(* for the rest of c.                                                      *)
Split(t, c, p) ==
    LET u     == t.nodes[p]
        index == CHOOSE i \in Differences(c, u, p) :
                    \A j \in Differences(c, u, p) : i <= j
        bit   == Bit(u.preference, index)
        binary == Prefix(u.preference, index)
        behind == Prefix(u.preference, index + 1)
        new    == Prefix(c, index + 1)
        front  == [u EXCEPT !.commonPrefix = index,
                            !.shouldReset = @ /\ index = u.commonPrefix - 1]
    IN  [q \in DOMAIN t.nodes \cup SplitKeys(c, u, index) |->
            CASE q = binary ->
                    BinaryNode(SplitPreferences(u.preference, c, bit),
                               UnaryExtend(u.snow, bit),
                               [b \in {0, 1} |-> u.shouldReset])
              [] q = p /\ q # binary -> front
              [] q = behind /\ index + 1 < u.commonPrefix -> u
              [] q = new -> UnaryNode(c, NumBits, newUnarySnowflake, FALSE)
              [] OTHER -> t.nodes[q]]

TreeAdd(t, c) ==
    IF /\ Prefix(TreePreference(t), Len(t.root)) = Prefix(c, Len(t.root))
       /\ \E p \in DOMAIN t.nodes : SplitsAt(t, c, p)
    THEN [t EXCEPT !.nodes = Split(t, c, CHOOSE p \in DOMAIN t.nodes : SplitsAt(t, c, p))]
    ELSE t

-----------------------------------------------------------------------------
(* RecordPoll *)

(* The votes passed to node p: those consistent with the decided prefix,   *)
(* split at every binary node on the way.                                  *)
Passed(t, votes, p) ==
    {s \in DOMAIN votes :
        /\ Prefix(votes[s], Len(t.root)) = Prefix(TreePreference(t), Len(t.root))
        /\ \A q \in Above(t, p) :
              IsUnary(t, q) \/ Bit(votes[s], Len(q)) = p[Len(q) + 1]}

VotesFor(t, votes, p, b) == {s \in Passed(t, votes, p) : Bit(votes[s], Len(p)) = b}

WinningBit(t, votes, p) ==
    IF Cardinality(VotesFor(t, votes, p, 1)) >= AlphaPreference THEN 1 ELSE 0

NumVotes(t, votes, p) ==
    Cardinality(IF IsUnary(t, p) THEN Passed(t, votes, p)
                ELSE VotesFor(t, votes, p, WinningBit(t, votes, p)))

Succeeds(t, votes, p) == NumVotes(t, votes, p) >= AlphaPreference

(* The nodes RecordPoll is called on: every node above succeeded, towards  *)
(* them.                                                                   *)
Path(t, votes) ==
    {p \in DOMAIN t.nodes :
        \A q \in Above(t, p) :
            /\ Succeeds(t, votes, q)
            /\ IsUnary(t, q) \/ WinningBit(t, votes, q) = p[Len(q) + 1]}

(* Faulty: only the tree's own flag counts. *)
ResetIgnoresNodes(t, p) == t.shouldReset

(* The argument reset: pending at the tree or at a node above. *)
Reset(t, p) ==
    \/ t.shouldReset
    \/ \E q \in Above(t, p) :
          IF IsUnary(t, q) THEN t.nodes[q].shouldReset
          ELSE t.nodes[q].shouldReset[p[Len(q) + 1]]

SnowAfter(t, votes, p) ==
    LET n    == t.nodes[p]
        snow == IF Reset(t, p) THEN RecordUnsuccessfulPoll(n.snow) ELSE n.snow
    IN  IF ~Succeeds(t, votes, p) THEN RecordUnsuccessfulPoll(snow)
        ELSE IF IsUnary(t, p) THEN UnaryRecordPoll(snow, NumVotes(t, votes, p))
        ELSE RecordPoll(snow, NumVotes(t, votes, p), WinningBit(t, votes, p))

(* The preference that the node where the descent ends passes up to all    *)
(* the nodes above it.                                                     *)
PolledPreference(t, votes, path) ==
    LET p == CHOOSE p \in path : \A q \in path : Len(q) <= Len(p) IN
    IF IsUnary(t, p) THEN t.nodes[p].preference
    ELSE t.nodes[p].preferences[SnowAfter(t, votes, p).preference]

(* Faulty: the preference is never passed up. *)
PassesNothingUp(t, votes, p) == FALSE

(* The child's preference is passed up. *)
PassesUp(t, votes, p) == Succeeds(t, votes, p) /\ HasChild(t, p)

(* Faulty: the branch that lost keeps its confidence. *)
ResetAfterOne(flags, b, ok) == [flags EXCEPT ![b] = ~ok]

(* The branch that was not polled, or neither, has to be reset. *)
ResetAfter(flags, b, ok) == [flags EXCEPT ![b] = ~ok, ![1 - b] = TRUE]

NodeAfter(t, votes, p, preferred) ==
    LET n  == t.nodes[p]
        ok == Succeeds(t, votes, p)
        b  == WinningBit(t, votes, p)
        up == PassesUp(t, votes, p)
    IN  IF IsUnary(t, p)
        THEN [n EXCEPT !.snow = SnowAfter(t, votes, p),
                       !.preference = IF up THEN preferred ELSE @,
                       !.shouldReset = ~ok]
        ELSE [n EXCEPT !.snow = SnowAfter(t, votes, p),
                       !.preferences[b] = IF up THEN preferred ELSE @,
                       !.shouldReset = ResetAfter(@, b, ok)]

(* A node that has decided returns its child in its place. *)
Decides(t, votes, p) ==
    /\ Succeeds(t, votes, p)
    /\ HasChild(t, p)
    /\ SnowAfter(t, votes, p).finalized

RootAfter(t, votes, path) ==
    CHOOSE p \in path :
        /\ ~Decides(t, votes, p)
        /\ \A q \in Above(t, p) : Decides(t, votes, q)

Kept(t, root) == {p \in DOMAIN t.nodes : p = root \/ StrictPrefix(root, p)}

TreeRecordPoll(t, votes) ==
    LET path      == Path(t, votes)
        root      == RootAfter(t, votes, path)
        preferred == PolledPreference(t, votes, path)
    IN  [root        |-> root,
         shouldReset |-> FALSE,
         nodes       |-> [p \in Kept(t, root) |->
                             IF p \in path THEN NodeAfter(t, votes, p, preferred)
                             ELSE t.nodes[p]]]

TreeRecordUnsuccessfulPoll(t) == [t EXCEPT !.shouldReset = TRUE]

-----------------------------------------------------------------------------
(* A tree as it looks once its pending resets are carried out.  Not code:  *)
(* the abstraction that the specifications without pending resets use.     *)

Cleared(n) ==
    [n EXCEPT !.shouldReset = IF n.kind = "unary" THEN FALSE ELSE [b \in {0, 1} |-> FALSE]]

(* t with its pending resets carried out; all says that t as a whole lost  *)
(* its confidence.                                                         *)
Settled(t, all) ==
    [t EXCEPT !.shouldReset = FALSE,
              !.nodes = [p \in DOMAIN t.nodes |->
                            IF all \/ Reset(t, p)
                            THEN [Cleared(t.nodes[p]) EXCEPT
                                     !.snow = RecordUnsuccessfulPoll(@)]
                            ELSE Cleared(t.nodes[p])]]
=============================================================================
