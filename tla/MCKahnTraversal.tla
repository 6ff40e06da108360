-------------------------- MODULE MCKahnTraversal ---------------------------
EXTENDS KahnTraversal

CONSTANTS AlphaConfidence, Beta

MCTerminations == newSingleTerminationCondition(AlphaConfidence, Beta)

(* Two branches of three blocks on a common block, and a fork on each:     *)
(*   0 - 1 - 2 - 3        0 - 1 - 5 - 6                                    *)
(*           2 - 4                                                         *)
MCParent == [b \in Blocks \ {0} |-> CASE b = 1 -> 0
                                      [] b \in {2, 5} -> 1
                                      [] b \in {3, 4} -> 2
                                      [] b = 6 -> 5]

MCAncestors == [b \in Blocks |-> CASE b = 0 -> {}
                                   [] b = 1 -> {0}
                                   [] b \in {2, 5} -> {0, 1}
                                   [] b \in {3, 4} -> {0, 1, 2}
                                   [] b = 6 -> {0, 1, 5}]

MCHeight == [b \in Blocks |-> Cardinality(MCAncestors[b])]

MCBits == [b \in Blocks |-> <<b \div 4, (b \div 2) % 2, b % 2>>]

(* Only the number of votes for each block matters: one listing per bag. *)
MCBallots ==
    UNION {{v \in [1 .. n -> Blocks] :
                \A i, j \in 1 .. n : i < j => v[i] <= v[j]} : n \in 0 .. K}
=============================================================================
