--------------------------- MODULE EarlyTermSound ---------------------------
(***************************************************************************)
(* A poll that stops early, recorded in Topological.                       *)
(***************************************************************************)
EXTENDS SnowmanRefinement, EarlyTermPoll

Count(votes, b) == Cardinality({s \in DOMAIN votes : votes[s] = b})

Extensions ==
    [votes \in Ballots |->
        {full \in Ballots : \A b \in Blocks : Count(votes, b) <= Count(full, b)}]

(* The polls that votes can still become: up to remaining more slots       *)
(* answer, with any block.                                                 *)
Completions(votes, remaining) ==
    {full \in Extensions[votes] :
        Cardinality(DOMAIN full) <= Cardinality(DOMAIN votes) + remaining}

TreesAfter(votes) == Eager!After(votes, Polled(DOMAIN blocks, lastAccepted, votes))

SoundWith(trees) ==
    \A votes \in Ballots : \A remaining \in 0 .. (K - Cardinality(DOMAIN votes)) :
        Finishes(DOMAIN blocks, votes, remaining) =>
            \A full \in Completions(votes, remaining) : trees[full] = trees[votes]

(* early_term_traversal.go:130: a finished poll is one whose result "any   *)
(* remaining validators can't change": recording it in the current tree    *)
(* has, pending resets aside, the effect of recording any poll it could    *)
(* still have become.  So no answer that was not waited for could have     *)
(* changed a preference, a confidence or a decision.                       *)
EarlyTerminationIsSound == SoundWith([votes \in Ballots |-> TreesAfter(votes)])
=============================================================================
