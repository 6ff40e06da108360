------------------------------ MODULE MCEngine ------------------------------
(***************************************************************************)
(* A small instance of Engine.                                             *)
(***************************************************************************)
EXTENDS Engine

(* 1 and 2 compete on the genesis; 1 is an oracle block with the option 3. *)
MCParent == [b \in Blocks \ {0} |-> IF b = 3 THEN 1 ELSE 0]

MCAncestors == [b \in Blocks |-> CASE b = 0 -> {} [] b \in {1, 2} -> {0} [] b = 3 -> {0, 1}]

MCHeight == [b \in Blocks |-> Cardinality(MCAncestors[b])]

MCOptions == [b \in Blocks |-> IF b = 1 THEN <<3>> ELSE << >>]
=============================================================================
