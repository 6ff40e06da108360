-------------------------- MODULE TopologicalLoop ---------------------------
(***************************************************************************)
(* Topological.vote as the loop the code runs, against the sets that       *)
(* Topological describes its result with.                                  *)
(***************************************************************************)
EXTENDS Topological

Seqs == INSTANCE SequencesExt

(* The children of the rejected blocks, and theirs, in any order. *)
RECURSIVE rejectTransitively(_, _)
rejectTransitively(bs, rejects) ==
    IF rejects = {} THEN {}
    ELSE LET children == UNION {bs[b].children : b \in rejects}
         IN  rejects \cup rejectTransitively(bs, children)

Keep(bs, gone) == [b \in DOMAIN bs \ gone |-> bs[b]]

(* calls lists the calls of Accept and Reject in their order. *)
acceptPreferredChild(st, p) ==
    LET pref    == TreePreference(st.blocks[p].sb)
        rejects == rejectTransitively(st.blocks, st.blocks[p].children \ {pref})
    IN  [st EXCEPT !.blocks = Keep(@, rejects),
                   !.last = pref,
                   !.preferredIDs = @ \ {pref},
                   !.calls = @ \o <<[accept |-> pref, rejects |-> rejects]>>]

Falter(bs, S) == [b \in DOMAIN bs |-> IF b \in S THEN [bs[b] EXCEPT !.shouldFalter = TRUE]
                                      ELSE bs[b]]

(* Faulty: the falter stops here. *)
SparedAlways(falter, next) == {next}

(* The child that is not marked: the one polled next, unless a falter has  *)
(* to reach it.                                                            *)
Spared(falter, next) == IF falter THEN {} ELSE {next}

(* The instance of p with the poll recorded. *)
SbOf(n, votes, p) ==
    TreeRecordPoll(IF n.shouldFalter THEN TreeRecordUnsuccessfulPoll(n.sb) ELSE n.sb,
                   VotesAt(DOMAIN blocks, lastAccepted, votes, p))

Recorded(st, p, sb) == [st EXCEPT !.blocks[p].sb = sb, !.blocks[p].shouldFalter = FALSE]

(* p's preferred child is accepted only in its turn. *)
Accepts(st, p, sb) == TreeFinalized(sb) /\ st.last = p

Tally(st, p, accepts) ==
    IF accepts THEN LET acc == acceptPreferredChild(st, p) IN [acc EXCEPT !.blocks = Keep(@, {p})]
    ELSE st

(* Move along the preferred branch, and mark the other children. *)
Proceed(st, n, next, preferred) ==
    [st EXCEPT
        !.blocks = Falter(@, (n.children \cap DOMAIN @) \ Spared(n.shouldFalter, next)),
        !.newPreferred = IF st.onBranch THEN preferred ELSE @,
        !.onBranch = @ /\ next = preferred]

(* The body of the loop for block p, whose instance is sb after the poll;  *)
(* next is the block below it on the stack, or Nil.                        *)
VoteOn(st, p, next, sb) ==
    Proceed(Tally(Recorded(st, p, sb), p, Accepts(st, p, sb)),
            st.blocks[p], next, TreePreference(sb))

RECURSIVE VoteLoop(_, _, _)
VoteLoop(st, votes, stack) ==
    IF stack = << >> \/ Head(stack) \notin DOMAIN st.blocks THEN st
    ELSE VoteLoop(VoteOn(st, Head(stack), IF Len(stack) > 1 THEN stack[2] ELSE Nil,
                         SbOf(st.blocks[Head(stack)], votes, Head(stack))),
                  votes, Tail(stack))

vote(votes) ==
    LET polled == Polled(DOMAIN blocks, lastAccepted, votes)
        start  == [blocks       |-> blocks,
                   last         |-> lastAccepted,
                   preferredIDs |-> preferredIDs,
                   newPreferred |-> lastAccepted,
                   onBranch     |-> TRUE,
                   calls        |-> << >>]
    IN  IF polled = {}
        THEN [start EXCEPT !.blocks = Falter(@, {lastAccepted}), !.newPreferred = preference]
        ELSE VoteLoop(start, votes,
                      Seqs!SetToSortSeq(polled, LAMBDA a, b : Height[a] < Height[b]))

-----------------------------------------------------------------------------
(* Within one poll the VM is told of each block once and of a parent       *)
(* before its child.                                                       *)
InOrder(calls) ==
    \A i \in DOMAIN calls :
        /\ Parent[calls[i].accept] = (IF i = 1 THEN lastAccepted ELSE calls[i - 1].accept)
        /\ \A j \in DOMAIN calls : i # j =>
              (calls[i].rejects \cup {calls[i].accept})
              \cap (calls[j].rejects \cup {calls[j].accept}) = {}

Agrees(out, sb) ==
    /\ out.blocks = BlocksAfter(sb)
    /\ out.last = LastAcceptedAfter(sb)
    /\ out.newPreferred = NewPreferred(sb)
    /\ out.preferredIDs = preferredIDs \ NewlyAccepted(sb)
    /\ {out.calls[i].accept : i \in DOMAIN out.calls} = NewlyAccepted(sb)
    /\ UNION {out.calls[i].rejects : i \in DOMAIN out.calls} = NewlyRejected(sb)
    /\ InOrder(out.calls)

(* The sets of Topological say what the loop of vote does, for every poll  *)
(* in every state; and the loop calls Accept on a block after its parent,  *)
(* and Accept or Reject on no block twice.                                 *)
LoopAgrees ==
    \A votes \in Ballots :
        Agrees(vote(votes), Instances(votes, Polled(DOMAIN blocks, lastAccepted, votes)))
=============================================================================
