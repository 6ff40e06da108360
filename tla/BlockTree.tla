----------------------------- MODULE BlockTree ------------------------------
(***************************************************************************)
(* The blocks that can be issued to snow/consensus/snowman, and how a poll *)
(* counts on a tree of them.                                               *)
(*                                                                         *)
(* issued stands for the keys of ts.blocks, last for ts.lastAcceptedID.    *)
(***************************************************************************)
EXTENDS SnowballTree, Chain

CONSTANTS
    Slots,      \* the validators a poll samples
    Ballots     \* the polls: functions from sampled slots to blocks

(* A snowball.Tree decides between blocks, by their ids. *)
ASSUME ChoicesAssumption == Choices = Blocks

ASSUME PollsAssumption ==
    /\ IsFiniteSet(Slots) /\ Cardinality(Slots) = K
    /\ Ballots \subseteq UNION {[S -> Blocks] : S \in SUBSET Slots}

(* snowmanBlock.Decided *)
Decided(last, b) == Height[b] <= Height[last]

(* The child of p on the way to b. *)
Towards(p, b) == CHOOSE c \in Upto(b) : c # Genesis /\ Parent[c] = p

-----------------------------------------------------------------------------
(* What calculateInDegree and pushVotes compute: a vote for a processing   *)
(* block counts, at every block below it, for the child on the way to it.  *)

VotesAt(issued, last, votes, p) ==
    [s \in {s \in DOMAIN votes : /\ votes[s] \in issued
                                 /\ ~Decided(last, votes[s])
                                 /\ p \in Ancestors[votes[s]]} |->
        Towards(p, votes[s])]

(* The blocks on the vote stack: those with AlphaPreference votes above    *)
(* them.                                                                   *)
Polled(issued, last, votes) ==
    {p \in issued :
        Cardinality(DOMAIN VotesAt(issued, last, votes, p)) >= AlphaPreference}
=============================================================================
