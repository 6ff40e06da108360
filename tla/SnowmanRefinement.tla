------------------------- MODULE SnowmanRefinement --------------------------
(***************************************************************************)
(* Topological implements EagerSnowman, and Consensus.                     *)
(***************************************************************************)
EXTENDS Topological

(* A falter is pending for b: at b, or at a block below it.  vote carries  *)
(* it out when it gets to b.                                               *)
Pending(b) == \E q \in DOMAIN blocks \cap Upto(b) : blocks[q].shouldFalter

Eager == INSTANCE EagerSnowman
    WITH last  <- lastAccepted,
         trees <- [b \in DOMAIN blocks |->
                      IF blocks[b].children = {} THEN Nil
                      ELSE Settled(blocks[b].sb, Pending(b))]

(* Deferring the falters, the resets inside the trees, the vote stack and  *)
(* the cached preferred branch cannot be observed: the blocks accepted and *)
(* rejected, and the preference, are those of a Snowman that tells every   *)
(* instance of every poll.                                                 *)
EagerSpec == Eager!Spec

Promise == INSTANCE Consensus WITH processing <- DOMAIN blocks \ {lastAccepted}

(* What the engine relies on: a block is added on top of the last accepted *)
(* one, a poll accepts along one branch and rejects exactly the blocks     *)
(* that conflict with it, each once, and the preferred branch is a maximal *)
(* chain of processing blocks.                                             *)
ConsensusSpec == Promise!ConsensusSpec
=============================================================================
