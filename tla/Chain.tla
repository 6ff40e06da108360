------------------------------- MODULE Chain --------------------------------
(***************************************************************************)
(* The blocks a chain could have, as a tree rooted at Genesis.             *)
(***************************************************************************)
EXTENDS Integers, FiniteSets

CONSTANTS
    Blocks,
    Genesis,    \* the last accepted block given to Initialize
    Parent,     \* Parent[b], for every block but Genesis
    Ancestors,  \* Ancestors[b]: all the blocks below b, down to Genesis
    Height      \* Height[b]

ASSUME BlocksAssumption ==
    /\ Genesis \in Blocks
    /\ Parent \in [Blocks \ {Genesis} -> Blocks]
    /\ Height \in [Blocks -> Nat]
    /\ Ancestors \in [Blocks -> SUBSET Blocks]
    /\ Ancestors[Genesis] = {}
    /\ \A b \in Blocks \ {Genesis} :
          /\ Height[b] = Height[Parent[b]] + 1
          /\ Ancestors[b] = Ancestors[Parent[b]] \cup {Parent[b]}

Upto(b) == Ancestors[b] \cup {b}
=============================================================================
