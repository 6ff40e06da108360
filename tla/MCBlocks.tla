------------------------------ MODULE MCBlocks ------------------------------
EXTENDS BlockTree

CONSTANTS AlphaConfidence, Beta

MCTerminations == newSingleTerminationCondition(AlphaConfidence, Beta)

(* Block 0 is the genesis; 1, 2 and 5 compete on it, 3 and 4 on 1.  The    *)
(* ids of 1 and 2 share their first bit, those of 3 and 4 their first two. *)
MCParent == [b \in Blocks \ {0} |-> IF b \in {3, 4} THEN 1 ELSE 0]

MCAncestors == [b \in Blocks |-> CASE b = 0 -> {}
                                   [] b \in {3, 4} -> {0, 1}
                                   [] OTHER -> {0}]

MCHeight == [b \in Blocks |-> Cardinality(MCAncestors[b])]

MCBits == [b \in Blocks |-> CASE b = 0 -> <<0, 0, 0>>
                              [] b = 1 -> <<0, 0, 1>>
                              [] b = 2 -> <<0, 1, 1>>
                              [] b = 3 -> <<1, 0, 0>>
                              [] b = 4 -> <<1, 0, 1>>
                              [] b = 5 -> <<1, 1, 1>>]

(* Only the number of votes for each block matters, so one listing per bag *)
(* is enough.                                                              *)
BallotsOver(S) ==
    UNION {{v \in [1 .. n -> S] : \A i, j \in 1 .. n : i < j => v[i] <= v[j]} : n \in 0 .. K}

(* Topological drops a vote for the genesis like one for any block that is *)
(* not processing.                                                         *)
MCBallots == BallotsOver(Blocks \ {Genesis})

(* earlyTermPoll does not.                                                 *)
MCAllBallots == BallotsOver(Blocks)
=============================================================================
