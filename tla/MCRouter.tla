------------------------------ MODULE MCRouter ------------------------------
(***************************************************************************)
(* A peer, a chain of the primary network and one of another subnet, and a   *)
(* request of the second chain.                                              *)
(***************************************************************************)
EXTENDS Router

MCSubnet == [c \in {"P", "C"} |-> IF c = "P" THEN "primary" ELSE "subnet"]
MCTo == [r \in Requests |-> "n"]
MCFrom == [r \in Requests |-> "C"]

=============================================================================
