-------------------------- MODULE ConsensusProofs ---------------------------
(***************************************************************************)
(* Proofs about what consensus promises, for every tree of blocks.         *)
(***************************************************************************)
EXTENDS Consensus, WellFoundedInduction, TLAPS

LEMMA LeastNat ==
    ASSUME NEW S \in SUBSET Nat, S # {}
    PROVE  \E m \in S : \A k \in S : m <= k
<1>1. PICK m \in S : \A k \in S : <<k, m>> \notin OpToRel(<, Nat)
  BY NatLessThanWellFounded, WFMin, Zenon
<1>2. \A k \in S : ~(k < m)
  BY <1>1, Zenon DEF OpToRel
<1>. QED  BY <1>2

(* What holds for Genesis, and for a block if it holds for its parent,     *)
(* holds for all blocks: a set of exceptions has a lowest one.             *)
LEMMA LowestBlock ==
    ASSUME NEW S \in SUBSET Blocks, Genesis \notin S
    PROVE  S = {} \/ \E b \in S : b # Genesis /\ Parent[b] \in Blocks \ S
<1>. SUFFICES ASSUME S # {}  PROVE \E b \in S : b # Genesis /\ Parent[b] \in Blocks \ S
  OBVIOUS
<1>. DEFINE H == {Height[b] : b \in S}
<1>1. H \in SUBSET Nat /\ H # {}
  BY BlocksAssumption
<1>2. PICK m \in H : \A k \in H : m <= k
  <2>. HIDE DEF H
  <2>. QED  BY <1>1, LeastNat
<1>3. PICK b \in S : \A c \in S : Height[b] <= Height[c]
  BY <1>2
<1>4. /\ b # Genesis /\ Parent[b] \in Blocks /\ Height[Parent[b]] \in Nat /\ Height[b] \in Nat
      /\ Height[b] = Height[Parent[b]] + 1
  BY BlocksAssumption
<1>5. Parent[b] \notin S
  BY <1>3, <1>4
<1>. QED  BY <1>4, <1>5

(* The blocks below a block are lower and, with each, all below it. *)
LEMMA AncestorsAreLower ==
    \A b \in Blocks : \A a \in Ancestors[b] :
        Height[a] < Height[b] /\ Ancestors[a] \subseteq Ancestors[b]
<1>. DEFINE P(b) == \A a \in Ancestors[b] :
                        Height[a] < Height[b] /\ Ancestors[a] \subseteq Ancestors[b]
            S == {b \in Blocks : ~P(b)}
<1>1. Genesis \notin S
  BY BlocksAssumption
<1>2. ASSUME NEW b \in Blocks \ {Genesis}, P(Parent[b])  PROVE P(b)
  <2>1. /\ Parent[b] \in Blocks /\ Ancestors[b] = Ancestors[Parent[b]] \cup {Parent[b]}
        /\ Height[b] = Height[Parent[b]] + 1 /\ Height[Parent[b]] \in Nat
        /\ \A a \in Ancestors[Parent[b]] : Height[a] \in Nat
    BY BlocksAssumption
  <2>2. \A a \in Ancestors[Parent[b]] :
           Height[a] < Height[Parent[b]] /\ Ancestors[a] \subseteq Ancestors[Parent[b]]
    BY <1>2
  <2>. QED  BY <2>1, <2>2
<1>3. S = {}
  <2>1. S \in SUBSET Blocks
    OBVIOUS
  <2>2. \A b \in S : b # Genesis => Parent[b] \notin Blocks \ S
    BY <1>2
  <2>. HIDE DEF S
  <2>. QED  BY <1>1, <2>1, <2>2, LowestBlock
<1>. QED  BY <1>3

(* Every block is on top of Genesis. *)
LEMMA GenesisIsBelow == \A b \in Blocks : Genesis \in Upto(b)
<1>. DEFINE S == {b \in Blocks : Genesis \notin Upto(b)}
<1>1. Genesis \notin S /\ S \in SUBSET Blocks
  BY DEF Upto
<1>2. \A b \in S : b # Genesis => Parent[b] \notin Blocks \ S
  BY BlocksAssumption DEF Upto
<1>3. S = {}
  <2>. HIDE DEF S
  <2>. QED  BY <1>1, <1>2, LowestBlock
<1>. QED  BY <1>3

(* The ancestors of a block are on one line. *)
LEMMA LineageIsALine ==
    \A b \in Blocks : \A a, c \in Ancestors[b] :
        a = c \/ a \in Ancestors[c] \/ c \in Ancestors[a]
<1>. DEFINE P(b) == \A a, c \in Ancestors[b] :
                        a = c \/ a \in Ancestors[c] \/ c \in Ancestors[a]
            S == {b \in Blocks : ~P(b)}
<1>1. Genesis \notin S /\ S \in SUBSET Blocks
  BY BlocksAssumption
<1>2. ASSUME NEW b \in Blocks \ {Genesis}, P(Parent[b])  PROVE P(b)
  <2>1. Ancestors[b] = Ancestors[Parent[b]] \cup {Parent[b]}
    BY BlocksAssumption
  <2>. QED  BY <1>2, <2>1
<1>3. \A b \in S : b # Genesis => Parent[b] \notin Blocks \ S
  BY <1>2
<1>4. S = {}
  <2>. HIDE DEF S
  <2>. QED  BY <1>1, <1>3, LowestBlock
<1>. QED  BY <1>4

(* On the way from a block down to an ancestor is a child of the ancestor. *)
LEMMA ChildOnTheWay ==
    \A b \in Blocks : \A a \in Ancestors[b] : \E c \in Upto(b) : c # Genesis /\ Parent[c] = a
<1>. DEFINE P(b) == \A a \in Ancestors[b] : \E c \in Upto(b) : c # Genesis /\ Parent[c] = a
            S == {b \in Blocks : ~P(b)}
<1>1. Genesis \notin S /\ S \in SUBSET Blocks
  BY BlocksAssumption
<1>2. ASSUME NEW b \in Blocks \ {Genesis}, P(Parent[b])  PROVE P(b)
  <2>1. Ancestors[b] = Ancestors[Parent[b]] \cup {Parent[b]}
    BY BlocksAssumption
  <2>. QED  BY <1>2, <2>1 DEF Upto
<1>3. \A b \in S : b # Genesis => Parent[b] \notin Blocks \ S
  BY <1>2
<1>4. S = {}
  <2>. HIDE DEF S
  <2>. QED  BY <1>1, <1>3, LowestBlock
<1>. QED  BY <1>4

(* A block is no ancestor of itself, and ancestors are transitive. *)
LEMMA AncestorsAre ==
    /\ \A b \in Blocks : b \notin Ancestors[b] /\ Ancestors[b] \subseteq Blocks
    /\ \A b \in Blocks : \A a \in Ancestors[b] : Upto(a) \subseteq Ancestors[b]
    /\ \A b \in Blocks \ {Genesis} : Parent[b] \in Blocks /\ Ancestors[b] = Upto(Parent[b])
<1>1. \A b \in Blocks : b \notin Ancestors[b] /\ Ancestors[b] \subseteq Blocks
  <2>1. \A b \in Blocks : Height[b] \in Nat
    BY BlocksAssumption
  <2>2. \A b \in Blocks : b \notin Ancestors[b]
    BY <2>1, AncestorsAreLower
  <2>. QED  BY <2>2, BlocksAssumption
<1>2. \A b \in Blocks : \A a \in Ancestors[b] : Upto(a) \subseteq Ancestors[b]
  BY AncestorsAreLower DEF Upto
<1>3. \A b \in Blocks \ {Genesis} : Parent[b] \in Blocks /\ Ancestors[b] = Upto(Parent[b])
  BY BlocksAssumption DEF Upto
<1>. QED  BY <1>1, <1>2, <1>3
-----------------------------------------------------------------------------
(* The inductive invariant.  The processing blocks are a tree on top of the *)
(* last accepted block, and a rejected block is on neither side of it: it  *)
(* is not below it and cannot be reached from it any more.                 *)
DecidedInv ==
    /\ processing \subseteq Blocks
    /\ lastAccepted \in Blocks
    /\ accepted = Upto(lastAccepted)
    /\ rejected \subseteq Blocks
    /\ \A b \in processing :
          /\ lastAccepted \in Ancestors[b]
          /\ Ancestors[b] \subseteq Upto(lastAccepted) \cup processing
    /\ \A b \in rejected : b \notin Upto(lastAccepted) /\ lastAccepted \notin Ancestors[b]

(* Adding a block on a processing or the last accepted block keeps the     *)
(* invariant: a rejected block has no such parent.                         *)
LEMMA AddStep ==
    ASSUME DecidedInv, NEW b \in Blocks, Add(b)
    PROVE  DecidedInv'
<1>1. /\ b # Genesis
      /\ Parent[b] \in processing \cup {lastAccepted}
      /\ processing' = processing \cup {b}
      /\ UNCHANGED <<lastAccepted, accepted, rejected>>
  BY DEF Add, Issuable
<1>2. Parent[b] \in Blocks /\ Ancestors[b] = Upto(Parent[b])
  BY <1>1, AncestorsAre
<1>3. /\ lastAccepted \in Ancestors[b]
      /\ Ancestors[b] \subseteq Upto(lastAccepted) \cup processing
  BY <1>1, <1>2 DEF DecidedInv, Upto
<1>. QED  BY <1>1, <1>3 DEF DecidedInv, Upto

(* Accepting up to a processing block, and rejecting what conflicts with   *)
(* it, keeps the invariant.                                                *)
LEMMA RecordPollStep ==
    ASSUME DecidedInv, NEW last \in Blocks, RecordPoll(last)
    PROVE  DecidedInv'
<1>1. /\ last \in processing \cup {lastAccepted}
      /\ lastAccepted' = last
      /\ processing' = {b \in processing : last \in Ancestors[b]}
      /\ accepted' = accepted \cup (processing \cap Upto(last))
      /\ rejected' = rejected \cup {b \in processing : /\ b \notin Upto(last)
                                                       /\ last \notin Ancestors[b]}
  BY DEF RecordPoll
<1>2. /\ processing \subseteq Blocks /\ rejected \subseteq Blocks /\ lastAccepted \in Blocks
      /\ accepted = Upto(lastAccepted)
  BY DEF DecidedInv
<1>3. /\ Upto(lastAccepted) \subseteq Upto(last)
      /\ Upto(last) \subseteq Upto(lastAccepted) \cup processing
  <2>1. CASE last = lastAccepted
    BY <2>1
  <2>2. CASE last \in processing
    BY <2>2, AncestorsAre DEF DecidedInv, Upto
  <2>. QED  BY <1>1, <2>1, <2>2
<1>4. accepted' = Upto(last)
  BY <1>1, <1>2, <1>3
<1>5. ASSUME NEW b \in processing, last \in Ancestors[b], NEW a \in Ancestors[b]
      PROVE  a \in Upto(last) \cup processing'
  <2>1. a \in Upto(lastAccepted) \cup processing
    BY DEF DecidedInv
  <2>2. a \in Upto(last) \/ last \in Ancestors[a]
    BY <1>2, <1>5, LineageIsALine DEF Upto
  <2>. QED  BY <1>1, <1>3, <2>1, <2>2
<1>6. ASSUME NEW b \in rejected  PROVE b \notin Upto(last) /\ last \notin Ancestors[b]
  <2>1. b \in Blocks /\ b \notin Upto(lastAccepted) /\ lastAccepted \notin Ancestors[b]
    BY DEF DecidedInv
  <2>2. b \notin processing
    BY <2>1 DEF DecidedInv
  <2>3. b \notin Upto(last)
    BY <1>3, <2>1, <2>2
  <2>4. lastAccepted \in Upto(last)
    BY <1>3 DEF Upto
  <2>5. last \notin Ancestors[b]
    BY <2>1, <2>4, AncestorsAre
  <2>. QED  BY <2>3, <2>5
<1>7. (\A b \in processing : /\ lastAccepted \in Ancestors[b]
                             /\ Ancestors[b] \subseteq Upto(lastAccepted) \cup processing)'
  BY <1>1, <1>5 DEF Upto
<1>8. (\A b \in rejected : b \notin Upto(lastAccepted) /\ lastAccepted \notin Ancestors[b])'
  BY <1>1, <1>6 DEF Upto
<1>9. (/\ processing \subseteq Blocks /\ lastAccepted \in Blocks
       /\ accepted = Upto(lastAccepted) /\ rejected \subseteq Blocks)'
  BY <1>1, <1>2, <1>4 DEF Upto
<1>. QED  BY <1>7, <1>8, <1>9 DEF DecidedInv

(* Whatever the polls decide, for every tree of blocks, what was accepted  *)
(* is one chain up to the last accepted block and nothing on it was        *)
(* rejected.                                                               *)
THEOREM DecisionsAgree == ConsensusSpec => []AcceptedIsChain
<1>1. ConsensusInit => DecidedInv
  BY BlocksAssumption DEF ConsensusInit, Initialize, DecidedInv, Upto
<1>2. DecidedInv /\ [ConsensusNext]_cvars => DecidedInv'
  <2>. SUFFICES ASSUME DecidedInv, [ConsensusNext]_cvars  PROVE DecidedInv'
    OBVIOUS
  <2>1. CASE UNCHANGED cvars
    BY <2>1 DEF cvars, DecidedInv, Upto
  <2>. QED  BY <2>1, AddStep, RecordPollStep DEF ConsensusNext
<1>3. DecidedInv => AcceptedIsChain
  BY DEF DecidedInv, AcceptedIsChain
<1>. QED  BY <1>1, <1>2, <1>3, PTL DEF ConsensusSpec
=============================================================================
