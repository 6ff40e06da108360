-------------------------- MODULE BootstrapProofs ---------------------------
(***************************************************************************)
(* The bootstrapper keeps its store, its requests and its order of         *)
(* execution right across crashes, halts, restarts and state sync, for     *)
(* every height of the chain and every BatchWritePeriod.                   *)
(*                                                                         *)
(* One inductive invariant, Inv, carries the three invariants that TLC     *)
(* checks.  What process does to the tree is a fold over the heights it    *)
(* stores; it is unfolded by induction, with the least-number principle    *)
(* (WFMin) in the place of an induction rule.                              *)
(***************************************************************************)
EXTENDS Bootstrap, IntervalTreeProofs, FiniteSetTheorems, WellFoundedInduction

-----------------------------------------------------------------------------
(* The fold in AddAll *)

(* A set of numbers has a least element. *)
LEMMA LeastNat ==
    ASSUME NEW S \in SUBSET Nat, S # {}
    PROVE  \E m \in S : \A k \in S : m <= k
<1>1. PICK m \in S : \A k \in S : <<k, m>> \notin OpToRel(<, Nat)
  BY NatLessThanWellFounded, WFMin, Zenon
<1>2. \A k \in S : ~(k < m)
  BY <1>1, Zenon DEF OpToRel
<1>. QED  BY <1>2

(* Min, which picks the next height from the bottom, is defined. *)
LEMMA MinIs ==
    ASSUME NEW S \in SUBSET Nat, S # {}
    PROVE  Min(S) \in S
  BY LeastNat, Zenon DEF Min

(* One iteration of process's loop: the tree and the batch after height h. *)
Added(s, h) == [tree |-> Add(s.tree, h), map |-> Written(s.map, AddWrites(s.tree, h))]

(* f gives the tree and the batch, from s on, after every set of at most n *)
(* of the heights hs.                                                      *)
IsFold(f, hs, n, s) ==
  f = [S \in {T \in SUBSET hs : Cardinality(T) <= n} |->
         IF S = {} THEN s ELSE Added(f[S \ {Min(S)}], Min(S))]

(* There is such a function: by induction on n. *)
LEMMA FoldExists ==
    ASSUME NEW hs \in SUBSET Nat, IsFiniteSet(hs), NEW s, NEW n \in Nat
    PROVE  \E f : IsFold(f, hs, n, s)
<1>. DEFINE bad == {m \in Nat : ~\E f : IsFold(f, hs, m, s)}
            Sub(m) == {T \in SUBSET hs : Cardinality(T) <= m}
<1>1. \A T \in SUBSET hs : Cardinality(T) \in Nat /\ IsFiniteSet(T)
  BY FS_Subset, FS_CardinalityType, Zenon
<1>2. 0 \notin bad
  <2>. DEFINE f == [S \in Sub(0) |-> s]
  <2>1. \A S \in Sub(0) : S = {}
    BY <1>1, FS_EmptySet
  <2>2. f = [S \in Sub(0) |-> IF S = {} THEN s ELSE Added(f[S \ {Min(S)}], Min(S))]
    BY <2>1, Zenon
  <2>3. IsFold(f, hs, 0, s)
    BY <2>2, Zenon DEF IsFold
  <2>. QED  BY <2>3
<1>3. ASSUME NEW m \in Nat, m \notin bad  PROVE m + 1 \notin bad
  <2>1. PICK g : IsFold(g, hs, m, s)
    BY <1>3
  <2>. DEFINE f == [S \in Sub(m + 1) |-> IF S = {} THEN s ELSE Added(g[S \ {Min(S)}], Min(S))]
  <2>2. ASSUME NEW S \in Sub(m + 1), S # {}
        PROVE  S \ {Min(S)} \in Sub(m)
    <3>1. S \in SUBSET hs /\ Min(S) \in S /\ Cardinality(S) <= m + 1
      BY <2>2, MinIs
    <3>2. Cardinality(S \ {Min(S)}) = Cardinality(S) - 1
      BY <3>1, <1>1, FS_RemoveElement
    <3>3. Cardinality(S) \in Nat
      BY <3>1, <1>1
    <3>4. Cardinality(S \ {Min(S)}) <= m
      BY <3>1, <3>2, <3>3
    <3>5. S \ {Min(S)} \in SUBSET hs
      BY <3>1, Zenon
    <3>. QED  BY <3>4, <3>5
  <2>3. Sub(m) \subseteq Sub(m + 1)
    BY <1>1
  <2>4. \A S \in Sub(m) : g[S] = f[S]
    BY <2>1, <2>3, Zenon DEF IsFold
  <2>5. f = [S \in Sub(m + 1) |-> IF S = {} THEN s ELSE Added(f[S \ {Min(S)}], Min(S))]
    <3>1. \A S \in Sub(m + 1) : S # {} => g[S \ {Min(S)}] = f[S \ {Min(S)}]
      BY <2>2, <2>4, Zenon
    <3>. QED  BY <3>1, Zenon
  <2>6. IsFold(f, hs, m + 1, s)
    BY <2>5, Zenon DEF IsFold
  <2>. QED  BY <2>6
<1>4. bad = {}
  <2>1. SUFFICES ASSUME bad # {}  PROVE FALSE
    OBVIOUS
  <2>2. PICK m \in bad : \A k \in bad : m <= k
    <3>. HIDE DEF bad
    <3>1. bad \in SUBSET Nat
      BY DEF bad
    <3>. QED  BY <2>1, <3>1, LeastNat
  <2>3. m \in Nat /\ m # 0
    BY <2>2, <1>2
  <2>4. m - 1 \in Nat /\ m - 1 \notin bad
    BY <2>2, <2>3
  <2>. QED  BY <2>2, <2>3, <2>4, <1>3
<1>. QED  BY <1>4

(* AddAll is its value at hs. *)
LEMMA AddAllIs ==
    ASSUME NEW hs \in SUBSET Nat, IsFiniteSet(hs), NEW t, NEW map
    PROVE  \E f : /\ IsFold(f, hs, Cardinality(hs), [tree |-> t, map |-> map])
                  /\ AddAll(hs, t, map) = f[hs]
<1>. DEFINE s == [tree |-> t, map |-> map]
            Eq(f) == f = [S \in SUBSET hs |->
                            IF S = {} THEN s
                            ELSE [tree |-> Add(f[S \ {Min(S)}].tree, Min(S)),
                                  map |-> Written(f[S \ {Min(S)}].map,
                                                  AddWrites(f[S \ {Min(S)}].tree, Min(S)))]]
            f == CHOOSE g : Eq(g)
<1>1. AddAll(hs, t, map) = f[hs]
  BY DEF AddAll, MapThenFoldSet
<1>2. Cardinality(hs) \in Nat /\ {T \in SUBSET hs : Cardinality(T) <= Cardinality(hs)} = SUBSET hs
  BY FS_Subset, FS_CardinalityType
<1>3. \A g : IsFold(g, hs, Cardinality(hs), s) <=> Eq(g)
  BY <1>2, Zenon DEF IsFold, Added
<1>4. \E g : Eq(g)
  BY <1>2, <1>3, FoldExists, Zenon
<1>5. Eq(f)
  <2>. HIDE DEF Eq
  <2>. QED  BY <1>4, Zenon
<1>. QED  BY <1>1, <1>3, <1>5, Zenon

(* A tree in memory and the persisted intervals that belong to it. *)
InStep(s) == IsMap(s.map) /\ s.tree = NewTree(s.map) /\ IsTree(s.tree)

(* process's loop stores all its heights, whatever was there before, and   *)
(* the batch it writes is the tree: by induction on the number of heights. *)
LEMMA AddAllAdds ==
    ASSUME NEW hs \in SUBSET Nat, IsFiniteSet(hs), NEW map, IsMap(map), IsTree(NewTree(map))
    PROVE  LET s == AddAll(hs, NewTree(map), map)
           IN  InStep(s) /\ Heights(s.tree) = Heights(NewTree(map)) \cup hs
<1>. DEFINE s == [tree |-> NewTree(map), map |-> map]
            Good(f, S) == InStep(f[S]) /\ Heights(f[S].tree) = Heights(NewTree(map)) \cup S
<1>1. PICK f : IsFold(f, hs, Cardinality(hs), s) /\ AddAll(hs, NewTree(map), map) = f[hs]
  BY AddAllIs
<1>2. \A T \in SUBSET hs :
        Cardinality(T) \in Nat /\ IsFiniteSet(T) /\ Cardinality(T) <= Cardinality(hs)
  BY FS_Subset, FS_CardinalityType, Zenon
<1>3. \A S \in SUBSET hs : f[S] = IF S = {} THEN s ELSE Added(f[S \ {Min(S)}], Min(S))
  BY <1>1, <1>2, Zenon DEF IsFold
<1>4. Good(f, {})
  <2>1. f[{}] = s
    BY <1>3, Zenon
  <2>. QED  BY <2>1 DEF InStep
<1>5. ASSUME NEW S \in SUBSET hs, S # {}, Good(f, S \ {Min(S)})  PROVE Good(f, S)
  <2>. DEFINE before == f[S \ {Min(S)}]
              h == Min(S)
  <2>1. h \in S /\ h \in Nat
    BY <1>5, MinIs, Zenon
  <2>2. f[S] = Added(before, h)
    BY <1>3, <1>5, Zenon
  <2>3. /\ IsMap(before.map) /\ before.tree = NewTree(before.map) /\ IsTree(before.tree)
        /\ Heights(before.tree) = Heights(NewTree(map)) \cup (S \ {h})
    BY <1>5 DEF InStep
  <2>. HIDE DEF before, h
  <2>4. f[S].tree = Add(before.tree, h) /\ f[S].map = Written(before.map, AddWrites(before.tree, h))
    BY <2>2 DEF Added
  <2>5. IsTree(f[S].tree) /\ Heights(f[S].tree) = Heights(before.tree) \cup {h}
    BY <2>1, <2>3, <2>4, AddIsInsertion
  <2>6. IsMap(f[S].map) /\ NewTree(f[S].map) = f[S].tree
    BY <2>1, <2>3, <2>4, AddIsPersisted
  <2>. QED  BY <2>1, <2>3, <2>5, <2>6 DEF InStep
<1>. DEFINE bad == {Cardinality(S) : S \in {T \in SUBSET hs : ~Good(f, T)}}
<1>6. bad = {}
  <2>1. SUFFICES ASSUME bad # {}  PROVE FALSE
    OBVIOUS
  <2>2. bad \in SUBSET Nat
    BY <1>2
  <2>3. PICK m \in bad : \A k \in bad : m <= k
    <3>. HIDE DEF bad
    <3>. QED  BY <2>1, <2>2, LeastNat
  <2>4. PICK S \in SUBSET hs : m = Cardinality(S) /\ ~Good(f, S)
    BY <2>3
  <2>5. S # {}
    BY <2>4, <1>4
  <2>. DEFINE R == S \ {Min(S)}
  <2>6. R \in SUBSET hs /\ Cardinality(R) = Cardinality(S) - 1
    BY <2>5, <1>2, MinIs, FS_RemoveElement, Zenon
  <2>7. ~Good(f, R)
    BY <2>4, <2>5, <1>5, Zenon
  <2>8. Cardinality(R) \in bad
    BY <2>6, <2>7, Zenon
  <2>9. m <= Cardinality(R)
    BY <2>3, <2>8, Zenon
  <2>. QED  BY <2>4, <2>6, <2>9, <1>2
<1>7. Good(f, hs)
  BY <1>6
<1>. QED  BY <1>1, <1>7

(* getMissingBlockIDs by the heights alone: where a gap ends. *)
LEMMA MissingAre ==
    ASSUME NEW t, IsTree(t), NEW last \in Int
    PROVE  getMissingBlockIDs(t, last) =
             {p \in Int : p > last /\ p \notin Heights(t) /\ p + 1 \in Heights(t)}
<1>1. ASSUME NEW i \in t, i.lower > last + 1
      PROVE  /\ i.lower - 1 \in Int /\ i.lower - 1 > last
             /\ i.lower - 1 \notin Heights(t) /\ i.lower - 1 + 1 \in Heights(t)
  <2>1. i.lower \in Int /\ i.upper \in Int /\ i.lower <= i.upper
    BY DEF IsTree, WellFormed, Intervals
  <2>2. \A j \in t : ~(j.lower <= i.lower - 1 /\ i.lower - 1 <= j.upper)
    BY DEF IsTree, WellFormed, Intervals
  <2>. QED  BY <1>1, <2>1, <2>2, HeightsAre
<1>2. ASSUME NEW p \in Int, p > last, p \notin Heights(t), p + 1 \in Heights(t)
      PROVE  \E i \in t : i.lower > last + 1 /\ p = i.lower - 1
  <2>1. PICK i \in t : i.lower <= p + 1 /\ p + 1 <= i.upper
    BY <1>2, HeightsAre
  <2>2. ~(i.lower <= p /\ p <= i.upper)
    BY <1>2, HeightsAre
  <2>3. i.lower \in Int /\ i.upper \in Int
    BY DEF IsTree, Intervals
  <2>. QED  BY <1>2, <2>1, <2>2, <2>3
<1>. QED  BY <1>1, <1>2 DEF getMissingBlockIDs
-----------------------------------------------------------------------------
(* The inductive invariant *)

Executing == phase \in {"executing", "accepting"}

(* The store, and the tree in memory.  While execute runs, the tree and    *)
(* the batch are ahead of the store by the heights in unwritten, and the   *)
(* iterator has what is left of both.                                      *)
StoreInv ==
  /\ IsMap(intervals) /\ IsTree(NewTree(intervals)) /\ Heights(NewTree(intervals)) = blocks
  /\ IF Executing
       THEN /\ IsMap(batch) /\ IsTree(NewTree(batch)) /\ Heights(NewTree(batch)) = iterator
            /\ tree = NewTree(batch) /\ iterator = blocks \ unwritten
       ELSE /\ phase # "down" => tree = NewTree(intervals)
            /\ unwritten = {} /\ iterator = {}

(* The requests.  Blocks are executed only when none is missing. *)
SyncInv ==
  /\ GapsAreRequested
  /\ phase # "processing" => toProcess = {}
  /\ Executing => missing = {}

(* The last block that execute has handed to the VM. *)
Reached == IF phase = "accepting" THEN current ELSE lastAccepted

(* The order of execution: what is left to execute starts right above the  *)
(* last block that was handed over and has no gaps; below it there are     *)
(* only blocks that the VM had accepted when execute began.                *)
OrderInv ==
  /\ ExecutesInOrder
  /\ phase = "accepting" => current \in AllHeights
  /\ Executing =>
       /\ startedFrom \in Int /\ startedFrom <= lastAccepted
       /\ \A k \in iterator : k > startedFrom => k > Reached
       /\ \A p \in AllHeights : p > Reached /\ p + 1 \in iterator => p \in iterator

Inv == TypeOK /\ StoreInv /\ SyncInv /\ OrderInv

-----------------------------------------------------------------------------
(* Fetching *)

(* process stores h itself unless it is accepted or was fetched before. *)
LEMMA StoredAre ==
    ASSUME NEW t, NEW last, NEW h \in AllHeights, NEW ancestors
    PROVE  /\ Stored(t, last, h, ancestors) \in SUBSET AllHeights
           /\ IsFiniteSet(Stored(t, last, h, ancestors))
           /\ h \in Stored(t, last, h, ancestors) <=> h > last /\ ~Contains(t, h)
           /\ Stored(t, last, h, {}) \subseteq {h}
<1>1. MaxHeight \in Nat
  BY BootstrapAssumption
<1>2. Stored(t, last, h, ancestors) \in SUBSET AllHeights
  BY DEF Stored
<1>3. IsFiniteSet(AllHeights)
  BY <1>1, FS_Interval DEF AllHeights
<1>4. IsFiniteSet(Stored(t, last, h, ancestors))
  BY <1>2, <1>3, FS_Subset
<1>5. h \in Stored(t, last, h, ancestors) <=> h > last /\ ~Contains(t, h)
  BY <1>1 DEF Stored, AllHeights
<1>6. ASSUME NEW k \in Stored(t, last, h, {})  PROVE k = h
  BY <1>1 DEF Stored, AllHeights
<1>. QED  BY <1>2, <1>4, <1>5, <1>6

(* process: the store is right again after its batch write, and a gap that *)
(* it opens below the blocks it stores is asked for.                       *)
LEMMA ProcessKeeps ==
    ASSUME Inv, phase \in {"processing", "syncing", "waiting"},
           NEW h \in AllHeights, NEW stored \in SUBSET AllHeights, IsFiniteSet(stored),
           h \in stored <=> h > lastAccepted /\ ~Contains(tree, h),
           NEW requests \in SUBSET AllHeights, outstanding \subseteq requests \cup {h},
           process(h, stored, requests)
    PROVE  /\ IsMap(intervals') /\ IsTree(NewTree(intervals'))
           /\ Heights(NewTree(intervals')) = blocks' /\ tree' = NewTree(intervals')
           /\ blocks' \subseteq AllHeights
           /\ missing' \subseteq AllHeights /\ outstanding' \subseteq AllHeights
           /\ missing \ ({h} \cup stored) \subseteq missing'
           /\ missing' \subseteq outstanding' \cup (toProcess \ {h})
           /\ getMissingBlockIDs(tree', lastAccepted) \subseteq missing'
<1>. DEFINE new == NewMissing(tree, lastAccepted, stored)
            added == AddAll(stored, tree, intervals)
<1>1. MaxHeight \in Nat /\ AllHeights \subseteq Nat
  BY BootstrapAssumption DEF AllHeights
<1>2. /\ tree' = added.tree /\ intervals' = added.map
      /\ blocks' = blocks \cup stored
      /\ missing' = (missing \ ({h} \cup stored)) \cup new
      /\ outstanding' = requests \cup new
  BY DEF process, Processed
<1>3. /\ IsMap(intervals) /\ tree = NewTree(intervals) /\ IsTree(tree)
      /\ Heights(tree) = blocks
  BY DEF Inv, StoreInv, Executing
<1>4. InStep(added) /\ Heights(added.tree) = blocks \cup stored
  BY <1>1, <1>3, AddAllAdds
<1>5. /\ blocks \subseteq AllHeights /\ missing \subseteq AllHeights /\ lastAccepted \in Nat
      /\ getMissingBlockIDs(tree, lastAccepted) \subseteq missing
      /\ missing \subseteq outstanding \cup toProcess
  BY DEF Inv, TypeOK, SyncInv, GapsAreRequested
<1>6. new \subseteq AllHeights
  BY DEF NewMissing
<1>7. \A k \in Int : Contains(tree, k) <=> k \in blocks
  BY <1>3, ContainsIsMembership
<1>. HIDE DEF added
<1>8. ASSUME NEW p \in getMissingBlockIDs(tree', lastAccepted)  PROVE p \in missing'
  <2>1. /\ p \in Int /\ p > lastAccepted /\ p \notin blocks \cup stored
        /\ p + 1 \in blocks \cup stored
    BY <1>2, <1>4, <1>5, MissingAre DEF InStep
  <2>2. CASE p + 1 \in blocks
    <3>1. p \in missing
      BY <2>1, <2>2, <1>3, <1>5, MissingAre
    <3>2. p # h
      BY <2>1, <1>7
    <3>. QED  BY <2>1, <3>1, <3>2, <1>2
  <2>3. CASE p + 1 \in stored
    <3>1. p \in AllHeights
      BY <2>1, <2>3, <1>1, <1>5 DEF AllHeights
    <3>2. p \in new
      BY <2>1, <2>3, <3>1, <1>5, <1>7 DEF NewMissing
    <3>. QED  BY <3>2, <1>2
  <2>. QED  BY <2>1, <2>2, <2>3
<1>. HIDE DEF new
<1>9. IsMap(intervals') /\ IsTree(NewTree(intervals')) /\ tree' = NewTree(intervals')
  BY <1>2, <1>4 DEF InStep
<1>10. Heights(NewTree(intervals')) = blocks'
  BY <1>2, <1>4, <1>9
<1>. QED  BY <1>2, <1>5, <1>6, <1>8, <1>9, <1>10

(* Every upper bound that is written is the height of a block. *)
LEMMA KeysAreHeights ==
    ASSUME NEW map, IsMap(map), IsTree(NewTree(map))
    PROVE  DOMAIN map \subseteq Heights(NewTree(map))
<1>1. ASSUME NEW u \in DOMAIN map  PROVE u \in Heights(NewTree(map))
  <2>. DEFINE i == Interval(map[u], u)
  <2>1. i \in NewTree(map) /\ i.upper = u /\ i.lower = map[u] /\ u \in Int
    BY DEF NewTree, Interval, IsMap
  <2>2. i.lower <= i.upper
    BY <2>1 DEF IsTree, WellFormed
  <2>. HIDE DEF i
  <2>. QED  BY <2>1, <2>2, HeightsAre
<1>. QED  BY <1>1

(* Between fetching and executing, with the requests that are out. *)
Synced ==
  /\ IsMap(intervals) /\ IsTree(NewTree(intervals))
  /\ Heights(NewTree(intervals)) = blocks /\ tree = NewTree(intervals)
  /\ lastAccepted \in 0 .. MaxHeight
  /\ blocks \subseteq AllHeights /\ missing \subseteq AllHeights
  /\ outstanding \subseteq AllHeights /\ toProcess \subseteq missing
  /\ missing \subseteq outstanding \cup toProcess
  /\ getMissingBlockIDs(tree, lastAccepted) \subseteq missing

(* Inv for the phases in which nothing is being executed. *)
LEMMA SyncedIsInv ==
    ASSUME Synced', phase' \in {"processing", "syncing", "waiting", "done"},
           unwritten' = {}, iterator' = {}, phase' # "processing" => toProcess' = {}
    PROVE  Inv'
<1>1. DOMAIN intervals' \subseteq AllHeights
  BY KeysAreHeights DEF Synced
<1>2. TypeOK'
  BY <1>1 DEF Synced, TypeOK
<1>3. StoreInv'
  BY DEF Synced, StoreInv, Executing
<1>4. SyncInv'
  BY DEF Synced, SyncInv, GapsAreRequested, Executing
<1>5. OrderInv'
  BY DEF OrderInv, ExecutesInOrder, Executing
<1>. QED  BY <1>2, <1>3, <1>4, <1>5 DEF Inv

(* execute begins, with no gap above the last accepted block. *)
LEMMA ExecutionStarts ==
    ASSUME Synced', toProcess' = {}, lastAccepted' = lastAccepted,
           unwritten = {}, iterator = {}, tryStartExecuting
    PROVE  Inv'
<1>1. CASE missing' # {}
  <2>1. phase' = "syncing" /\ unwritten' = {} /\ iterator' = {}
    BY <1>1 DEF tryStartExecuting, executing
  <2>. QED  BY <2>1, SyncedIsInv
<1>2. CASE missing' = {}
  <2>1. /\ phase' = "executing" /\ iterator' = blocks' /\ unwritten' = {}
        /\ batch' = intervals' /\ startedFrom' = lastAccepted
    BY <1>2 DEF tryStartExecuting
  <2>2. DOMAIN intervals' \subseteq AllHeights
    BY KeysAreHeights DEF Synced
  <2>3. TypeOK'
    BY <2>1, <2>2 DEF Synced, TypeOK
  <2>4. StoreInv'
    BY <2>1 DEF Synced, StoreInv, Executing
  <2>5. SyncInv'
    BY <1>2, <2>1 DEF SyncInv, GapsAreRequested, Executing
  <2>6. ASSUME NEW p \in AllHeights, p > lastAccepted', p + 1 \in blocks'
        PROVE  p \in blocks'
    <3>1. p \in Int /\ lastAccepted' \in Int /\ IsTree(tree') /\ Heights(tree') = blocks'
      BY BootstrapAssumption DEF AllHeights, Synced
    <3>2. p \notin getMissingBlockIDs(tree', lastAccepted')
      BY <1>2 DEF Synced
    <3>. QED  BY <2>6, <3>1, <3>2, MissingAre
  <2>7. OrderInv'
    BY <2>1, <2>6, BootstrapAssumption DEF OrderInv, ExecutesInOrder, Executing, Reached, Synced
  <2>. QED  BY <2>3, <2>4, <2>5, <2>7 DEF Inv
<1>. QED  BY <1>1, <1>2
-----------------------------------------------------------------------------
(* Inv holds in the initial state, *)
LEMMA InitInv == Init => Inv
<1>. SUFFICES ASSUME Init PROVE Inv
  OBVIOUS
<1>1. IsMap(intervals) /\ NewTree(intervals) = {} /\ DOMAIN intervals = {}
  BY DEF Init, Empty, IsMap, NewTree
<1>2. IsTree({}) /\ Heights({}) = {}
  BY DEF IsTree, WellFormed, Heights
<1>3. TypeOK
  BY <1>1, BootstrapAssumption DEF Init, TypeOK
<1>4. StoreInv
  BY <1>1, <1>2 DEF Init, StoreInv, Executing
<1>5. SyncInv /\ OrderInv
  BY DEF Init, SyncInv, GapsAreRequested, OrderInv, ExecutesInOrder, Executing
<1>. QED  BY <1>3, <1>4, <1>5 DEF Inv

(* is kept by the steps that fetch blocks, *)
LEMMA SyncSteps ==
    ASSUME Inv
    PROVE  /\ Start => Inv'
           /\ \A accepted, found \in SUBSET AllHeights : startSyncing(accepted, found) => Inv'
           /\ \A h \in AllHeights : ProcessFound(h) => Inv'
           /\ FinishProcessing => Inv'
           /\ \A h \in AllHeights, n \in Nat : Ancestors(h, n) => Inv'
           /\ \A h \in AllHeights : GetAncestorsFailed(h) => Inv'
<1>1. MaxHeight \in Nat /\ AllHeights = 1 .. MaxHeight
  BY BootstrapAssumption DEF AllHeights
<1>2. /\ TypeOK
      /\ IsMap(intervals) /\ IsTree(NewTree(intervals)) /\ Heights(NewTree(intervals)) = blocks
  BY DEF Inv, StoreInv
<1>3. ASSUME phase \in {"processing", "syncing", "waiting"}
      PROVE  Synced /\ unwritten = {} /\ iterator = {}
  BY <1>2, <1>3 DEF Inv, TypeOK, StoreInv, SyncInv, GapsAreRequested, Executing, Synced
<1>4. ASSUME Start PROVE Inv'
  <2>1. /\ phase' = "polling" /\ tree' = NewTree(intervals)
        /\ missing' = getMissingBlockIDs(NewTree(intervals), lastAccepted)
        /\ UNCHANGED <<disk, outstanding, toProcess, executing>> /\ phase = "down"
    BY <1>4 DEF Start
  <2>2. missing' \subseteq AllHeights
    BY <1>1, <1>2, <2>1, MissingAre DEF TypeOK
  <2>3. TypeOK'
    BY <1>2, <2>1, <2>2 DEF TypeOK, disk, executing, Inv, SyncInv
  <2>4. StoreInv'
    BY <2>1 DEF Inv, StoreInv, Executing, disk, executing
  <2>5. SyncInv'
    BY <2>1 DEF Inv, SyncInv, GapsAreRequested, Executing, disk
  <2>6. OrderInv'
    BY <2>1 DEF OrderInv, ExecutesInOrder, Executing
  <2>. QED  BY <2>3, <2>4, <2>5, <2>6 DEF Inv
<1>5. ASSUME NEW accepted \in SUBSET AllHeights, NEW found \in SUBSET AllHeights,
             startSyncing(accepted, found)
      PROVE  Inv'
  <2>1. /\ phase' = "processing" /\ missing' = missing \cup accepted
        /\ outstanding' = outstanding \cup ((missing \cup accepted) \ found)
        /\ toProcess' = found /\ UNCHANGED <<disk, tree, executing>> /\ phase = "polling"
        /\ found \subseteq missing \cup accepted
    BY <1>5 DEF startSyncing
  <2>2. unwritten' = {} /\ iterator' = {}
    BY <2>1 DEF Inv, StoreInv, Executing, executing
  <2>3. Synced'
    BY <1>2, <2>1 DEF Inv, TypeOK, StoreInv, SyncInv, GapsAreRequested, Executing, Synced, disk
  <2>. QED  BY <2>1, <2>2, <2>3, SyncedIsInv
<1>6. ASSUME NEW h \in AllHeights, ProcessFound(h)  PROVE Inv'
  <2>. DEFINE stored == Stored(tree, lastAccepted, h, {})
  <2>1. /\ phase = "processing" /\ phase' = "processing" /\ toProcess' = toProcess \ {h}
        /\ process(h, stored, outstanding) /\ UNCHANGED <<lastAccepted, executing>>
    BY <1>6 DEF ProcessFound
  <2>2. /\ stored \in SUBSET AllHeights /\ IsFiniteSet(stored) /\ stored \subseteq {h}
        /\ h \in stored <=> h > lastAccepted /\ ~Contains(tree, h)
    BY StoredAre
  <2>. HIDE DEF stored
  <2>3. outstanding \in SUBSET AllHeights
    BY <1>2 DEF TypeOK
  <2>4. Synced'
    <3>1. /\ IsMap(intervals') /\ IsTree(NewTree(intervals'))
          /\ Heights(NewTree(intervals')) = blocks' /\ tree' = NewTree(intervals')
          /\ blocks' \subseteq AllHeights
          /\ missing' \subseteq AllHeights /\ outstanding' \subseteq AllHeights
          /\ missing \ ({h} \cup stored) \subseteq missing'
          /\ missing' \subseteq outstanding' \cup (toProcess \ {h})
          /\ getMissingBlockIDs(tree', lastAccepted) \subseteq missing'
      BY <2>1, <2>2, <2>3, ProcessKeeps
    <3>. QED  BY <3>1, <2>1, <2>2, <1>2 DEF Synced, TypeOK
  <2>5. unwritten' = {} /\ iterator' = {}
    BY <1>3, <2>1 DEF executing
  <2>. QED  BY <2>1, <2>4, <2>5, SyncedIsInv
<1>7. ASSUME FinishProcessing  PROVE Inv'
  <2>1. /\ phase = "processing" /\ toProcess = {} /\ UNCHANGED <<disk, syncing>>
        /\ tryStartExecuting
    BY <1>7 DEF FinishProcessing
  <2>2. Synced'
    BY <1>3, <2>1 DEF Synced, disk, syncing
  <2>. QED  BY <1>3, <2>1, <2>2, ExecutionStarts DEF disk, syncing
<1>8. ASSUME NEW h \in AllHeights, NEW n \in Nat, Ancestors(h, n)  PROVE Inv'
  <2>. DEFINE ancestors == h - n .. h - 1
              stored == Stored(tree, lastAccepted, h, ancestors)
  <2>1. /\ phase \in {"syncing", "waiting"} /\ process(h, stored, outstanding \ {h})
        /\ UNCHANGED <<lastAccepted, toProcess>>
        /\ IF phase = "waiting" THEN UNCHANGED <<phase, executing>> ELSE tryStartExecuting
    BY <1>8 DEF Ancestors
  <2>. HIDE DEF ancestors
  <2>2. /\ stored \in SUBSET AllHeights /\ IsFiniteSet(stored)
        /\ h \in stored <=> h > lastAccepted /\ ~Contains(tree, h)
    BY StoredAre
  <2>. HIDE DEF stored
  <2>3. outstanding \ {h} \in SUBSET AllHeights
    BY <1>2 DEF TypeOK
  <2>4. toProcess = {} /\ toProcess' = {}
    <3>1. phase # "processing"
      BY <2>1
    <3>. QED  BY <2>1, <3>1 DEF Inv, SyncInv
  <2>5. Synced'
    <3>1. /\ IsMap(intervals') /\ IsTree(NewTree(intervals'))
          /\ Heights(NewTree(intervals')) = blocks' /\ tree' = NewTree(intervals')
          /\ blocks' \subseteq AllHeights
          /\ missing' \subseteq AllHeights /\ outstanding' \subseteq AllHeights
          /\ missing' \subseteq outstanding' \cup (toProcess \ {h})
          /\ getMissingBlockIDs(tree', lastAccepted) \subseteq missing'
      BY <2>1, <2>2, <2>3, ProcessKeeps
    <3>. QED  BY <3>1, <2>1, <2>4, <1>2 DEF Synced, TypeOK
  <2>6. CASE phase = "waiting"
    <3>1. phase' = "waiting" /\ unwritten' = {} /\ iterator' = {}
      BY <1>3, <2>1, <2>6 DEF executing
    <3>. QED  BY <2>4, <2>5, <3>1, SyncedIsInv
  <2>7. CASE phase # "waiting"
    BY <1>3, <2>1, <2>4, <2>5, <2>7, ExecutionStarts
  <2>. QED  BY <2>6, <2>7
<1>9. ASSUME NEW h \in AllHeights, GetAncestorsFailed(h)  PROVE Inv'
  <2>1. /\ phase \in {"syncing", "waiting"} /\ outstanding' = outstanding
        /\ UNCHANGED <<disk, phase, tree, missing, toProcess, executing>>
    BY <1>9 DEF GetAncestorsFailed
  <2>2. Synced' /\ unwritten' = {} /\ iterator' = {} /\ toProcess' = {}
    BY <1>3, <2>1 DEF Synced, disk, executing, Inv, SyncInv
  <2>. QED  BY <2>1, <2>2, SyncedIsInv
<1>. QED  BY <1>4, <1>5, <1>6, <1>7, <1>8, <1>9

(* What Inv says while blocks are executed. *)
LEMMA ExecutingHas ==
    ASSUME Inv, Executing
    PROVE  /\ IsMap(intervals) /\ IsTree(NewTree(intervals))
           /\ Heights(NewTree(intervals)) = blocks
           /\ IsMap(batch) /\ IsTree(NewTree(batch)) /\ Heights(NewTree(batch)) = iterator
           /\ tree = NewTree(batch) /\ iterator = blocks \ unwritten
           /\ missing = {} /\ toProcess = {} /\ outstanding \subseteq AllHeights
           /\ blocks \subseteq AllHeights /\ lastAccepted \in 0 .. MaxHeight
           /\ startedFrom \in Int /\ startedFrom <= lastAccepted
           /\ \A k \in iterator : k > startedFrom => k > Reached
           /\ \A p \in AllHeights : p > Reached /\ p + 1 \in iterator => p \in iterator
<1>1. phase # "processing"
  BY DEF Executing
<1>. QED  BY <1>1 DEF Inv, TypeOK, StoreInv, SyncInv, OrderInv

LEMMA HeightsAreNumbers == MaxHeight \in Nat /\ AllHeights = 1 .. MaxHeight
  BY BootstrapAssumption DEF AllHeights

(* by execute's loop, *)
LEMMA ExecuteNextStep ==
    ASSUME Inv, NEW h \in AllHeights, ExecuteNext(h)
    PROVE  Inv'
<1>1. /\ phase = "executing" /\ h \in iterator /\ \A k \in iterator : h <= k
      /\ iterator' = iterator \ {h} /\ tree' = Remove(tree, h)
      /\ batch' = Written(batch, RemoveWrites(tree, h))
      /\ UNCHANGED <<lastAccepted, missing, outstanding, toProcess, startedFrom>>
  BY DEF ExecuteNext
<1>2. \/ blocks' = blocks \ (unwritten \cup {h}) /\ intervals' = batch' /\ unwritten' = {}
      \/ unwritten' = unwritten \cup {h} /\ UNCHANGED <<blocks, intervals>>
  BY DEF ExecuteNext, WriteBatch
<1>3. \/ h <= startedFrom /\ UNCHANGED <<phase, current>>
      \/ ~(h <= startedFrom) /\ phase' = "accepting" /\ current' = h
  BY DEF ExecuteNext
<1>4. Executing /\ Executing' /\ Reached = lastAccepted
  BY <1>1, <1>3 DEF Executing, Reached
<1>5. /\ IsMap(batch') /\ NewTree(batch') = tree' /\ IsTree(NewTree(batch'))
      /\ Heights(NewTree(batch')) = iterator'
  <2>1. /\ IsMap(batch) /\ IsTree(NewTree(batch))
        /\ tree = NewTree(batch) /\ Heights(tree) = iterator
    BY <1>4, ExecutingHas
  <2>2. h \in Int
    BY HeightsAreNumbers
  <2>3. IsMap(batch') /\ NewTree(batch') = tree'
    BY <1>1, <2>1, <2>2, RemoveIsPersisted
  <2>4. IsTree(tree') /\ Heights(tree') = iterator'
    BY <1>1, <2>1, <2>2, RemoveIsDeletion
  <2>. QED  BY <2>3, <2>4
<1>6. iterator' = blocks' \ unwritten' /\ blocks' \subseteq AllHeights
  <2>1. iterator = blocks \ unwritten /\ blocks \subseteq AllHeights
    BY <1>4, ExecutingHas
  <2>. QED  BY <1>1, <1>2, <2>1
<1>7. IsMap(intervals') /\ IsTree(NewTree(intervals')) /\ Heights(NewTree(intervals')) = blocks'
  <2>1. CASE blocks' = blocks /\ intervals' = intervals
    BY <1>4, <2>1, ExecutingHas
  <2>2. CASE intervals' = batch' /\ unwritten' = {}
    BY <1>5, <1>6, <2>2
  <2>. QED  BY <1>2, <2>1, <2>2
<1>8. StoreInv'
  BY <1>4, <1>5, <1>6, <1>7 DEF StoreInv
<1>9. TypeOK'
  <2>1. DOMAIN intervals' \subseteq AllHeights
    BY <1>6, <1>7, KeysAreHeights
  <2>. QED  BY <2>1, <1>1, <1>4, <1>6, ExecutingHas DEF TypeOK, Executing
<1>10. SyncInv'
  BY <1>1, <1>4, ExecutingHas DEF SyncInv, GapsAreRequested, Executing
<1>11. OrderInv'
  <2>1. CASE h <= startedFrom
    <3>1. Reached' = lastAccepted /\ phase' = "executing"
      BY <1>1, <1>3, <2>1 DEF Reached
    <3>2. h <= lastAccepted
      BY <1>4, <2>1, HeightsAreNumbers, ExecutingHas
    <3>. QED  BY <1>1, <1>4, <3>1, <3>2, HeightsAreNumbers, ExecutingHas
                 DEF OrderInv, ExecutesInOrder
  <2>2. CASE ~(h <= startedFrom)
    <3>1. Reached' = h /\ phase' = "accepting" /\ current' = h
      BY <1>3, <2>2 DEF Reached
    <3>2. h > lastAccepted
      BY <1>1, <1>4, <2>2, HeightsAreNumbers, ExecutingHas
    <3>3. h = lastAccepted + 1
      <4>1. h > lastAccepted + 1 => h - 1 \in AllHeights /\ h - 1 > lastAccepted /\ h - 1 + 1 = h
        BY <1>4, HeightsAreNumbers, ExecutingHas
      <4>2. h - 1 \notin iterator
        BY <1>1, HeightsAreNumbers
      <4>. QED  BY <1>1, <1>4, <3>2, <4>1, <4>2, HeightsAreNumbers, ExecutingHas
    <3>4. \A k \in iterator' : k > h
      BY <1>1, <1>4, HeightsAreNumbers, ExecutingHas
    <3>5. \A p \in AllHeights : p > h /\ p + 1 \in iterator' => p \in iterator'
      BY <1>1, <1>4, <3>2, HeightsAreNumbers, ExecutingHas
    <3>. QED  BY <1>1, <1>4, <3>1, <3>3, <3>4, <3>5, ExecutingHas DEF OrderInv, ExecutesInOrder
  <2>. QED  BY <2>1, <2>2
<1>. QED  BY <1>8, <1>9, <1>10, <1>11 DEF Inv

(* by its other steps, *)
LEMMA ExecuteSteps ==
    ASSUME Inv
    PROVE  /\ Accept => Inv'
           /\ \A bootstrapped \in BOOLEAN : FinishExecuting(bootstrapped) => Inv'
           /\ Halt => Inv'
<1>1. MaxHeight \in Nat /\ AllHeights = 1 .. MaxHeight
  BY BootstrapAssumption DEF AllHeights
<1>2. ASSUME Accept  PROVE Inv'
  <2>1. /\ phase = "accepting" /\ lastAccepted' = current /\ phase' = "executing"
        /\ UNCHANGED <<blocks, intervals, syncing, iterator, unwritten, batch, startedFrom>>
    BY <1>2 DEF Accept
  <2>2. Executing /\ Executing' /\ Reached = current /\ Reached' = current
    BY <2>1 DEF Executing, Reached
  <2>3. current = lastAccepted + 1 /\ current \in AllHeights
    BY <2>1 DEF Inv, OrderInv, ExecutesInOrder
  <2>4. TypeOK'
    BY <1>1, <2>1, <2>3 DEF Inv, TypeOK, syncing
  <2>5. StoreInv'
    BY <2>1, <2>2, ExecutingHas DEF StoreInv, syncing
  <2>6. SyncInv'
    BY <2>1, <2>2, ExecutingHas DEF SyncInv, GapsAreRequested, syncing
  <2>7. OrderInv'
    BY <1>1, <2>1, <2>2, <2>3, ExecutingHas DEF OrderInv, ExecutesInOrder
  <2>. QED  BY <2>4, <2>5, <2>6, <2>7 DEF Inv
<1>3. ASSUME NEW bootstrapped \in BOOLEAN, FinishExecuting(bootstrapped)  PROVE Inv'
  <2>1. /\ phase = "executing" /\ iterator = {} /\ blocks' = blocks \ unwritten
        /\ intervals' = batch /\ unwritten' = {}
        /\ UNCHANGED <<lastAccepted, tree, missing, toProcess, iterator>>
        /\ \/ phase' = "polling" /\ outstanding' = {}
           \/ phase' \in {"done", "waiting"} /\ UNCHANGED outstanding
    BY <1>3 DEF FinishExecuting, WriteBatch, restartBootstrapping
  <2>2. Executing /\ ~Executing'
    BY <2>1 DEF Executing
  <2>3. /\ blocks' = {} /\ IsMap(intervals') /\ IsTree(NewTree(intervals'))
        /\ Heights(NewTree(intervals')) = {} /\ tree' = NewTree(intervals')
    BY <2>1, <2>2, ExecutingHas
  <2>4. TypeOK'
    <3>1. DOMAIN intervals' = {}
      BY <2>3, KeysAreHeights, Zenon
    <3>. QED  BY <3>1, <2>1, <2>2, <2>3, ExecutingHas DEF TypeOK
  <2>5. StoreInv'
    BY <2>1, <2>2, <2>3 DEF StoreInv
  <2>6. getMissingBlockIDs(tree', lastAccepted') = {}
    BY <1>1, <2>1, <2>2, <2>3, ExecutingHas, MissingAre
  <2>7. SyncInv'
    BY <2>1, <2>2, <2>6, ExecutingHas DEF SyncInv, GapsAreRequested
  <2>8. OrderInv'
    BY <2>1, <2>2 DEF OrderInv, ExecutesInOrder, Executing
  <2>. QED  BY <2>4, <2>5, <2>7, <2>8 DEF Inv
<1>4. ASSUME Halt  PROVE Inv'
  <2>1. /\ phase = "executing" /\ blocks' = blocks \ unwritten /\ intervals' = batch
        /\ unwritten' = {} /\ phase' = "down" /\ missing' = {} /\ outstanding' = {}
        /\ toProcess' = {} /\ iterator' = {} /\ UNCHANGED lastAccepted
    BY <1>4 DEF Halt, WriteBatch, MemoryLost
  <2>2. Executing /\ ~Executing'
    BY <2>1 DEF Executing
  <2>3. /\ blocks' \subseteq AllHeights /\ IsMap(intervals') /\ IsTree(NewTree(intervals'))
        /\ Heights(NewTree(intervals')) = blocks'
    BY <2>1, <2>2, ExecutingHas
  <2>4. TypeOK'
    <3>1. DOMAIN intervals' \subseteq AllHeights
      BY <2>3, KeysAreHeights
    <3>. QED  BY <3>1, <2>1, <2>2, <2>3, ExecutingHas DEF TypeOK
  <2>5. StoreInv' /\ SyncInv' /\ OrderInv'
    BY <2>1, <2>2, <2>3 DEF StoreInv, SyncInv, GapsAreRequested, OrderInv, ExecutesInOrder
  <2>. QED  BY <2>4, <2>5 DEF Inv
<1>. QED  BY <1>2, <1>3, <1>4

(* and by crashes, restarts and what happens outside of bootstrapping. *)
LEMMA OtherSteps ==
    ASSUME Inv
    PROVE  /\ \A bootstrapped \in BOOLEAN : Timeout(bootstrapped) => Inv'
           /\ Crash => Inv'
           /\ \A h \in AllHeights : StateSync(h) => Inv'
           /\ NormalOp => Inv'
           /\ UNCHANGED vars => Inv'
<1>1. MaxHeight \in Nat /\ AllHeights = 1 .. MaxHeight
  BY BootstrapAssumption DEF AllHeights
<1>2. ASSUME NEW bootstrapped \in BOOLEAN, Timeout(bootstrapped)  PROVE Inv'
  <2>1. /\ phase = "waiting" /\ UNCHANGED <<disk, tree, missing, toProcess, executing>>
        /\ \/ phase' = "done" /\ UNCHANGED outstanding
           \/ phase' = "polling" /\ outstanding' = {}
    BY <1>2 DEF Timeout, restartBootstrapping
  <2>2. TypeOK'
    BY <2>1 DEF Inv, TypeOK, disk, executing
  <2>3. StoreInv'
    BY <2>1 DEF Inv, StoreInv, Executing, disk, executing
  <2>4. SyncInv' /\ OrderInv'
    BY <2>1 DEF Inv, SyncInv, GapsAreRequested, OrderInv, ExecutesInOrder, Executing, disk
  <2>. QED  BY <2>2, <2>3, <2>4 DEF Inv
<1>3. ASSUME Crash  PROVE Inv'
  <2>1. /\ unwritten' = {} /\ phase' = "down" /\ missing' = {} /\ outstanding' = {}
        /\ toProcess' = {} /\ iterator' = {} /\ UNCHANGED disk
    BY <1>3 DEF Crash, MemoryLost
  <2>2. TypeOK'
    BY <2>1 DEF Inv, TypeOK, disk
  <2>3. StoreInv' /\ SyncInv' /\ OrderInv'
    BY <2>1 DEF Inv, StoreInv, SyncInv, GapsAreRequested, OrderInv, ExecutesInOrder, Executing, disk
  <2>. QED  BY <2>2, <2>3 DEF Inv
<1>4. ASSUME NEW h \in AllHeights, StateSync(h)  PROVE Inv'
  <2>1. /\ phase = "down" /\ lastAccepted' = h /\ blocks' = {} /\ intervals' = Empty
        /\ UNCHANGED <<phase, syncing, executing>>
    BY <1>4 DEF StateSync
  <2>2. IsMap(Empty) /\ NewTree(Empty) = {} /\ DOMAIN Empty = {}
    BY DEF Empty, IsMap, NewTree
  <2>3. IsTree({}) /\ Heights({}) = {}
    BY DEF IsTree, WellFormed, Heights
  <2>4. TypeOK'
    BY <1>1, <2>1, <2>2 DEF Inv, TypeOK, syncing, executing
  <2>5. StoreInv'
    BY <2>1, <2>2, <2>3 DEF Inv, StoreInv, Executing, executing
  <2>6. SyncInv' /\ OrderInv'
    BY <2>1 DEF Inv, SyncInv, GapsAreRequested, OrderInv, ExecutesInOrder, Executing, syncing
  <2>. QED  BY <2>4, <2>5, <2>6 DEF Inv
<1>5. ASSUME NormalOp  PROVE Inv'
  <2>1. /\ phase = "done" /\ lastAccepted < MaxHeight /\ lastAccepted' = lastAccepted + 1
        /\ UNCHANGED <<blocks, intervals, phase, syncing, executing>>
    BY <1>5 DEF NormalOp
  <2>2. TypeOK'
    BY <1>1, <2>1 DEF Inv, TypeOK, syncing, executing
  <2>3. StoreInv'
    BY <2>1 DEF Inv, StoreInv, Executing, syncing, executing
  <2>4. getMissingBlockIDs(tree', lastAccepted') \subseteq getMissingBlockIDs(tree, lastAccepted)
    <3>1. /\ tree' = tree /\ lastAccepted \in Int
          /\ lastAccepted' \in Int /\ lastAccepted' > lastAccepted
      BY <1>1, <2>1 DEF Inv, TypeOK, syncing
    <3>2. IsTree(tree)
      BY <2>1 DEF Inv, StoreInv, Executing
    <3>. QED  BY <3>1, <3>2, MissingAre
  <2>5. SyncInv' /\ OrderInv'
    BY <2>1, <2>4 DEF Inv, SyncInv, GapsAreRequested, OrderInv, ExecutesInOrder, Executing, syncing
  <2>. QED  BY <2>2, <2>3, <2>5 DEF Inv
<1>6. ASSUME UNCHANGED vars  PROVE Inv'
  BY <1>6 DEF vars, disk, syncing, executing, Inv, TypeOK, StoreInv, SyncInv, GapsAreRequested,
              OrderInv, ExecutesInOrder, Executing, Reached
<1>. QED  BY <1>2, <1>3, <1>4, <1>5, <1>6

(* So it is an invariant. *)
LEMMA Invariance == Spec => []Inv
<1>1. ASSUME Inv, [Next]_vars  PROVE Inv'
  <2>1. CASE Start \/ FinishProcessing
    BY <1>1, <2>1, SyncSteps
  <2>2. CASE \E accepted \in SUBSET AllHeights, found \in SUBSET AllHeights :
               startSyncing(accepted, found)
    BY <1>1, <2>2, SyncSteps
  <2>3. CASE \E h \in AllHeights : \E n \in 0 .. h - 1 : Ancestors(h, n)
    <3>1. PICK h \in AllHeights, n \in Nat : Ancestors(h, n)
      BY <2>3, BootstrapAssumption DEF AllHeights
    <3>. QED  BY <1>1, <3>1, SyncSteps
  <2>4. CASE \E h \in AllHeights : GetAncestorsFailed(h) \/ ProcessFound(h)
    BY <1>1, <2>4, SyncSteps
  <2>5. CASE \E h \in AllHeights : ExecuteNext(h)
    BY <1>1, <2>5, ExecuteNextStep
  <2>6. CASE Accept \/ Halt \/ \E bootstrapped \in BOOLEAN : FinishExecuting(bootstrapped)
    BY <1>1, <2>6, ExecuteSteps
  <2>7. CASE \E h \in AllHeights : StateSync(h)
    BY <1>1, <2>7, OtherSteps
  <2>8. CASE \/ Crash \/ NormalOp \/ UNCHANGED vars
             \/ \E bootstrapped \in BOOLEAN : Timeout(bootstrapped)
    BY <1>1, <2>8, OtherSteps
  <2>. QED
    BY <1>1, <2>1, <2>2, <2>3, <2>4, <2>5, <2>6, <2>7, <2>8 DEF Next, Step
<1>. QED  BY <1>1, InitInv, PTL DEF Spec

-----------------------------------------------------------------------------
(* A node that crashes at any point finds intervals that are exactly those *)
(* of the blocks it stored, and the tree in memory never differs from what *)
(* the open batch will leave in the database.                              *)
THEOREM StoreIsConsistent == Spec => []IntervalsMatchBlocks
<1>1. Inv => IntervalsMatchBlocks
  BY DEF Inv, StoreInv, IntervalsMatchBlocks, IsTree, Executing
<1>. QED  BY <1>1, Invariance, PTL

(* However answers, failures, crashes and restarts interleave, a gap below *)
(* a fetched block is known to be missing and is asked for.                *)
THEOREM NoGapIsForgotten == Spec => []GapsAreRequested
<1>1. Inv => GapsAreRequested
  BY DEF Inv, SyncInv
<1>. QED  BY <1>1, Invariance, PTL

(* The VM is only ever handed the child of its last accepted block, also   *)
(* when a crash came between a batch write and an accept.                  *)
THEOREM ExecutionIsInOrder == Spec => []ExecutesInOrder
<1>1. Inv => ExecutesInOrder
  BY DEF Inv, OrderInv
<1>. QED  BY <1>1, Invariance, PTL
=============================================================================
