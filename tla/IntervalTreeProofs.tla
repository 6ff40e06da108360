------------------------- MODULE IntervalTreeProofs -------------------------
(***************************************************************************)
(* Add and Remove of interval.Tree, for every tree and height: the tree in *)
(* memory stands for the right set of heights and stays in order, and what *)
(* is written keeps the persisted intervals equal to it.                   *)
(***************************************************************************)
EXTENDS IntervalTree, TLAPS

Intervals == [lower : Int, upper : Int]

(* A tree the bootstrapper can hold. *)
IsTree(tree) == tree \subseteq Intervals /\ WellFormed(tree)

(* The map of the database from upper to lower bounds that tree is kept in. *)
IsMap(map) == map \in [DOMAIN map -> Int] /\ DOMAIN map \subseteq Int

-----------------------------------------------------------------------------
(* An interval that holds h is the first one at or above h. *)
LEMMA HoldingIsAny ==
    ASSUME NEW tree, IsTree(tree), NEW h \in Int
    PROVE  Holding(tree, h) = {i \in tree : i.lower <= h /\ h <= i.upper}
  BY DEF IsTree, WellFormed, Intervals, Holding, AtOrAbove

(* The heights of a tree are those that one of its intervals holds.        *)
LEMMA HeightsAre ==
    ASSUME NEW tree, IsTree(tree), NEW h \in Int
    PROVE  h \in Heights(tree) <=> \E i \in tree : i.lower <= h /\ h <= i.upper
  BY DEF IsTree, Intervals, Heights

(* Tree.Contains looks at one interval only; that is enough. *)
THEOREM ContainsIsMembership ==
    ASSUME NEW tree, IsTree(tree), NEW h \in Int
    PROVE  Contains(tree, h) <=> h \in Heights(tree)
  BY HoldingIsAny, HeightsAre DEF Contains, Holding

(* For a height that Add inserts, the neighbours that it looks up in the   *)
(* tree are all the intervals that end just below it or start just above   *)
(* it.                                                                     *)
LEMMA NeighboursAreAny ==
    ASSUME NEW tree, IsTree(tree), NEW h \in Int, ~Contains(tree, h)
    PROVE  /\ LowerNeighbour(tree, h) = {i \in tree : i.upper + 1 = h}
           /\ UpperNeighbour(tree, h) = {i \in tree : i.lower = h + 1}
<1>1. \A i \in tree : i.upper < h \/ h < i.lower
  BY ContainsIsMembership, HeightsAre DEF IsTree, Intervals
<1>2. LowerNeighbour(tree, h) = {i \in tree : i.upper + 1 = h}
  BY <1>1 DEF IsTree, WellFormed, Intervals, LowerNeighbour, AtOrBelow
<1>3. UpperNeighbour(tree, h) = {i \in tree : i.lower = h + 1}
  BY <1>1 DEF IsTree, WellFormed, Intervals, UpperNeighbour, AtOrAbove
<1>. QED  BY <1>2, <1>3

(* The interval that Add puts: it reaches over the neighbours and h. *)
LEMMA MergedIs ==
    ASSUME NEW tree, IsTree(tree), NEW h \in Int, ~Contains(tree, h),
           NEW low, low = LowerNeighbour(tree, h), NEW up, up = UpperNeighbour(tree, h)
    PROVE  LET m == Merged(low, up, h)
           IN  /\ m \in Intervals
               /\ \/ low = {} /\ m.lower = h
                  \/ \E l \in tree : low = {l} /\ l.upper + 1 = h /\ m.lower = l.lower
               /\ \/ up = {} /\ m.upper = h
                  \/ \E u \in tree : up = {u} /\ u.lower = h + 1 /\ m.upper = u.upper
<1>. DEFINE m == Merged(low, up, h)
<1>1. low = {} \/ \E l \in tree : low = {l} /\ l.upper + 1 = h
  <2>1. low = {i \in tree : i.upper + 1 = h}
    BY NeighboursAreAny
  <2>2. \A i, j \in low : i = j
    BY <2>1 DEF IsTree, WellFormed, Intervals
  <2>. QED  BY <2>1, <2>2
<1>2. up = {} \/ \E u \in tree : up = {u} /\ u.lower = h + 1
  BY NeighboursAreAny DEF IsTree, WellFormed, Intervals
<1>3. \/ low = {} /\ LowerBound(low, h) = h
      \/ \E l \in tree : low = {l} /\ l.upper + 1 = h /\ LowerBound(low, h) = l.lower
  BY <1>1 DEF LowerBound
<1>4. \/ up = {} /\ UpperBound(up, h) = h
      \/ \E u \in tree : up = {u} /\ u.lower = h + 1 /\ UpperBound(up, h) = u.upper
  BY <1>2 DEF UpperBound
<1>5. LowerBound(low, h) \in Int /\ UpperBound(up, h) \in Int
  BY <1>3, <1>4 DEF IsTree, Intervals
<1>6. m.lower = LowerBound(low, h) /\ m.upper = UpperBound(up, h) /\ m \in Intervals
  BY <1>5 DEF Merged, Interval, Intervals
<1>. QED  BY <1>3, <1>4, <1>6

(* The interval that Add writes holds the new height and what its           *)
(* neighbours held, and nothing else.                                       *)
LEMMA MergedCovers ==
    ASSUME NEW tree, IsTree(tree), NEW h \in Int, ~Contains(tree, h),
           NEW low, low = LowerNeighbour(tree, h), NEW up, up = UpperNeighbour(tree, h)
    PROVE  LET m == Merged(low, up, h)
           IN  \A k \in Int : m.lower <= k /\ k <= m.upper
                                <=> k = h \/ \E i \in low \cup up : i.lower <= k /\ k <= i.upper
<1>. DEFINE m == Merged(low, up, h)
<1>1. /\ \/ low = {} /\ m.lower = h
         \/ \E l \in tree : low = {l} /\ l.upper + 1 = h /\ m.lower = l.lower
      /\ \/ up = {} /\ m.upper = h
         \/ \E u \in tree : up = {u} /\ u.lower = h + 1 /\ m.upper = u.upper
  BY MergedIs
<1>. HIDE DEF m
<1>2. \A i \in tree : i.lower \in Int /\ i.upper \in Int /\ i.lower <= i.upper
  BY DEF IsTree, WellFormed, Intervals
<1>3. \A k \in Int : m.lower <= k /\ k <= m.upper
                       <=> k = h \/ \E i \in low \cup up : i.lower <= k /\ k <= i.upper
  BY <1>1, <1>2
<1>. QED  BY <1>3 DEF m

(* Tree.Add adds one height, and merges what becomes adjacent. *)
THEOREM AddIsInsertion ==
    ASSUME NEW tree, IsTree(tree), NEW h \in Int
    PROVE  IsTree(Add(tree, h)) /\ Heights(Add(tree, h)) = Heights(tree) \cup {h}
<1>. DEFINE low == LowerNeighbour(tree, h)
            up == UpperNeighbour(tree, h)
            m == Merged(low, up, h)
<1>1. CASE Contains(tree, h)
  BY <1>1, ContainsIsMembership DEF Add
<1>2. CASE ~Contains(tree, h)
  <2>1. Add(tree, h) = (tree \ (low \cup up)) \cup {m}
    BY <1>2 DEF Add
  <2>2. /\ m \in Intervals
        /\ \/ low = {} /\ m.lower = h
           \/ \E l \in tree : low = {l} /\ l.upper + 1 = h /\ m.lower = l.lower
        /\ \/ up = {} /\ m.upper = h
           \/ \E u \in tree : up = {u} /\ u.lower = h + 1 /\ m.upper = u.upper
    BY <1>2, MergedIs
  <2>3. low = {i \in tree : i.upper + 1 = h} /\ up = {i \in tree : i.lower = h + 1}
    BY <1>2, NeighboursAreAny
  <2>4. \A i \in tree : i.upper < h \/ h < i.lower
    BY <1>2, ContainsIsMembership, HeightsAre DEF IsTree, Intervals
  <2>. HIDE DEF low, up, m
  <2>5. Add(tree, h) \subseteq Intervals
    BY <2>1, <2>2 DEF IsTree
  <2>6. m.lower <= m.upper
    BY <2>2 DEF IsTree, WellFormed, Intervals
  <2>7. ASSUME NEW i \in tree \ (low \cup up)
        PROVE  i.upper + 1 < m.lower \/ m.upper + 1 < i.lower
    BY <2>2, <2>3, <2>4 DEF IsTree, WellFormed, Intervals
  <2>8. WellFormed(Add(tree, h))
    BY <2>1, <2>6, <2>7 DEF IsTree, WellFormed
  <2>9. IsTree(Add(tree, h))
    BY <2>5, <2>8 DEF IsTree
  <2>10. \A k \in Int : m.lower <= k /\ k <= m.upper
                          <=> k = h \/ \E i \in low \cup up : i.lower <= k /\ k <= i.upper
    BY <1>2, MergedCovers DEF low, up, m
  <2>11. low \cup up \subseteq tree
    BY <2>3
  <2>12. ASSUME NEW k \in Int
         PROVE  k \in Heights(Add(tree, h)) <=> k \in Heights(tree) \cup {h}
    BY <2>1, <2>9, <2>10, <2>11, HeightsAre
  <2>13. Heights(Add(tree, h)) \subseteq Int /\ Heights(tree) \subseteq Int
    BY <2>5 DEF Heights, Intervals, IsTree
  <2>. QED  BY <2>9, <2>12, <2>13
<1>. QED  BY <1>1, <1>2

(* Tree.Remove removes one height, and splits its interval. *)
THEOREM RemoveIsDeletion ==
    ASSUME NEW tree, IsTree(tree), NEW h \in Int
    PROVE  IsTree(Remove(tree, h)) /\ Heights(Remove(tree, h)) = Heights(tree) \ {h}
<1>. DEFINE held == Holding(tree, h)
            pieces == UNION {Pieces(i, h) : i \in held}
<1>1. held = {i \in tree : i.lower <= h /\ h <= i.upper}
  BY HoldingIsAny
<1>2. \A p \in pieces : \E i \in held : p \in Pieces(i, h)
  OBVIOUS
<1>3. ASSUME NEW i \in held
      PROVE  /\ Pieces(i, h) \subseteq Intervals
             /\ \A p \in Pieces(i, h) : /\ p.lower <= p.upper
                                        /\ i.lower <= p.lower /\ p.upper <= i.upper
                                        /\ p.upper < h \/ h < p.lower
             /\ \A p, q \in Pieces(i, h) :
                   p # q => p.upper + 1 < q.lower \/ q.upper + 1 < p.lower
             /\ \A k \in Int : (\E p \in Pieces(i, h) : p.lower <= k /\ k <= p.upper)
                                  <=> i.lower <= k /\ k <= i.upper /\ k # h
  <2>1. i.lower \in Int /\ i.upper \in Int /\ i.lower <= h /\ h <= i.upper
    BY <1>1 DEF IsTree, Intervals
  <2>. DEFINE a == Interval(i.lower, h - 1)
              b == Interval(h + 1, i.upper)
  <2>2. /\ a \in Intervals /\ a.lower = i.lower /\ a.upper = h - 1
        /\ b \in Intervals /\ b.lower = h + 1 /\ b.upper = i.upper
    BY <2>1 DEF Interval, Intervals
  <2>3. Pieces(i, h) = {p \in {a, b} : p.lower <= p.upper}
    BY DEF Pieces
  <2>. HIDE DEF a, b
  <2>. QED  BY <2>1, <2>2, <2>3
<1>. HIDE DEF held
<1>4. Remove(tree, h) = (tree \ held) \cup pieces
  BY DEF Remove, held
<1>5. ASSUME NEW i \in held, NEW j \in held  PROVE i = j
  BY <1>1 DEF IsTree, WellFormed, Intervals
<1>6. Remove(tree, h) \subseteq Intervals
  BY <1>2, <1>3, <1>4 DEF IsTree
<1>7. WellFormed(Remove(tree, h))
  <2>1. \A i \in Remove(tree, h) : i.lower <= i.upper
    BY <1>2, <1>3, <1>4 DEF IsTree, WellFormed
  <2>2. ASSUME NEW i \in tree \ held, NEW p \in pieces
        PROVE  i.upper + 1 < p.lower \/ p.upper + 1 < i.lower
    <3>1. PICK j \in held : p \in Pieces(j, h)
      BY <1>2
    <3>2. j.lower <= p.lower /\ p.upper <= j.upper /\ p \in Intervals
      BY <3>1, <1>3
    <3>3. j \in tree /\ i # j
      BY <1>1
    <3>. QED  BY <3>2, <3>3 DEF IsTree, WellFormed, Intervals
  <2>3. ASSUME NEW p \in pieces, NEW q \in pieces, p # q
        PROVE  p.upper + 1 < q.lower \/ q.upper + 1 < p.lower
    BY <2>3, <1>2, <1>3, <1>5
  <2>. QED  BY <2>1, <2>2, <2>3, <1>4 DEF IsTree, WellFormed
<1>8. IsTree(Remove(tree, h))
  BY <1>6, <1>7 DEF IsTree
<1>9. ASSUME NEW k \in Int
      PROVE  k \in Heights(Remove(tree, h)) <=> k \in Heights(tree) \ {h}
  <2>1. (\E p \in pieces : p.lower <= k /\ k <= p.upper)
          <=> \E i \in held : i.lower <= k /\ k <= i.upper /\ k # h
    BY <1>3
  <2>2. k = h => \A i \in tree \ held : ~(i.lower <= k /\ k <= i.upper)
    BY <1>1
  <2>. QED  BY <1>1, <1>4, <1>8, <2>1, <2>2, HeightsAre
<1>10. Heights(Remove(tree, h)) \subseteq Int /\ Heights(tree) \subseteq Int
  BY <1>6 DEF Heights, Intervals, IsTree
<1>. QED  BY <1>8, <1>9, <1>10
-----------------------------------------------------------------------------
(* What is read back after some writes: the intervals that were neither    *)
(* deleted nor overwritten, and those that were put.                       *)
LEMMA WrittenTree ==
    ASSUME NEW map, IsMap(map), NEW w, w.put \subseteq Intervals,
           \A p, q \in w.put : p.upper = q.upper => p = q
    PROVE  /\ IsMap(Written(map, w))
           /\ NewTree(Written(map, w)) =
                {i \in NewTree(map) : /\ i.upper \notin w.delete
                                      /\ \A p \in w.put : p.upper # i.upper} \cup w.put
<1>. DEFINE new == Written(map, w)
            uppers == {i.upper : i \in w.put}
<1>1. DOMAIN new = (DOMAIN map \ w.delete) \cup uppers
  BY DEF Written
<1>2. \A p \in w.put : p \in Intervals /\ p = Interval(p.lower, p.upper)
  BY DEF Intervals, Interval
<1>3. ASSUME NEW p \in w.put  PROVE p.upper \in DOMAIN new /\ new[p.upper] = p.lower
  <2>1. (CHOOSE i \in w.put : i.upper = p.upper) = p
    OBVIOUS
  <2>. QED  BY <1>1, <2>1 DEF Written
<1>4. ASSUME NEW u \in DOMAIN map \ w.delete, u \notin uppers
      PROVE  u \in DOMAIN new /\ new[u] = map[u]
  BY <1>4, <1>1 DEF Written
<1>5. IsMap(new)
  <2>1. DOMAIN new \subseteq Int
    BY <1>1, <1>2 DEF IsMap, Intervals
  <2>2. \A u \in DOMAIN new : new[u] \in Int
    BY <1>1, <1>2, <1>3, <1>4 DEF IsMap, Intervals
  <2>3. new = [u \in DOMAIN new |-> new[u]]
    BY DEF Written
  <2>. HIDE DEF new
  <2>. QED  BY <2>1, <2>2, <2>3 DEF IsMap
<1>. HIDE DEF new
<1>6. \A u \in DOMAIN map : Interval(map[u], u).upper = u
  BY DEF Interval
<1>7. NewTree(new) = {i \in NewTree(map) : /\ i.upper \notin w.delete
                                           /\ \A p \in w.put : p.upper # i.upper} \cup w.put
  <2>1. ASSUME NEW u \in DOMAIN new
        PROVE  Interval(new[u], u) \in
                 {i \in NewTree(map) : /\ i.upper \notin w.delete
                                       /\ \A p \in w.put : p.upper # i.upper} \cup w.put
    <3>1. CASE u \in uppers
      BY <3>1, <1>2, <1>3
    <3>2. CASE u \notin uppers
      <4>1. u \in DOMAIN map \ w.delete /\ new[u] = map[u]
        BY <3>2, <1>1, <1>4
      <4>. QED  BY <3>2, <4>1, <1>6 DEF NewTree
    <3>. QED  BY <3>1, <3>2
  <2>2. ASSUME NEW i \in NewTree(map), i.upper \notin w.delete,
               \A p \in w.put : p.upper # i.upper
        PROVE  i \in NewTree(new)
    <3>1. PICK u \in DOMAIN map : i = Interval(map[u], u)
      BY DEF NewTree
    <3>2. u \in DOMAIN new /\ new[u] = map[u]
      BY <2>2, <3>1, <1>4, <1>6
    <3>. QED  BY <3>1, <3>2 DEF NewTree
  <2>3. w.put \subseteq NewTree(new)
    BY <1>2, <1>3 DEF NewTree
  <2>4. \A i \in NewTree(new) : \E u \in DOMAIN new : i = Interval(new[u], u)
    BY DEF NewTree
  <2>. QED  BY <2>1, <2>2, <2>3, <2>4
<1>. QED  BY <1>5, <1>7 DEF new

(* A tree that was read has one interval for each upper bound. *)
LEMMA UppersAreKeys ==
    ASSUME NEW map, NEW i \in NewTree(map), NEW j \in NewTree(map), i.upper = j.upper
    PROVE  i = j
  BY DEF NewTree, Interval

(* What Add writes is what it did to the tree: a tree read back from the   *)
(* database after any Add is the tree in memory.                           *)
THEOREM AddIsPersisted ==
    ASSUME NEW map, IsMap(map), NEW h \in Int, IsTree(NewTree(map))
    PROVE  LET new == Written(map, AddWrites(NewTree(map), h))
           IN  IsMap(new) /\ NewTree(new) = Add(NewTree(map), h)
<1>. DEFINE tree == NewTree(map)
            w == AddWrites(tree, h)
            low == LowerNeighbour(tree, h)
            up == UpperNeighbour(tree, h)
            m == Merged(low, up, h)
            kept == {i \in tree : i.upper \notin w.delete /\ \A p \in w.put : p.upper # i.upper}
<1>1. CASE Contains(tree, h)
  <2>1. w.delete = {} /\ w.put = {}
    BY <1>1 DEF AddWrites
  <2>2. IsMap(Written(map, w)) /\ NewTree(Written(map, w)) = kept \cup w.put
    <3>. HIDE DEF w
    <3>. QED  BY <2>1, WrittenTree
  <2>. QED  BY <1>1, <2>1, <2>2 DEF Add
<1>2. CASE ~Contains(tree, h)
  <2>1. w.delete = {i.upper : i \in low} /\ w.put = {m}
    BY <1>2 DEF AddWrites
  <2>2. /\ m \in Intervals
        /\ \/ low = {} /\ m.lower = h
           \/ \E l \in tree : low = {l} /\ l.upper + 1 = h /\ m.lower = l.lower
        /\ \/ up = {} /\ m.upper = h
           \/ \E u \in tree : up = {u} /\ u.lower = h + 1 /\ m.upper = u.upper
    BY <1>2, MergedIs
  <2>3. \A i \in tree : i.upper < h \/ h < i.lower
    BY <1>2, ContainsIsMembership, HeightsAre DEF IsTree, Intervals
  <2>4. Add(tree, h) = (tree \ (low \cup up)) \cup {m}
    BY <1>2 DEF Add
  <2>5. \A i, j \in tree : i.upper = j.upper => i = j
    BY UppersAreKeys
  <2>6. \A i \in tree : i \in Intervals /\ i.lower <= i.upper
    BY DEF IsTree, WellFormed
  <2>7. IsMap(Written(map, w)) /\ NewTree(Written(map, w)) = kept \cup w.put
    <3>. HIDE DEF w, m
    <3>. QED  BY <2>1, <2>2, WrittenTree
  <2>. HIDE DEF tree, w, low, up, m
  <2>8. \A i \in tree : i.upper \in w.delete <=> i \in low
    BY <2>1, <2>2, <2>5
  <2>9. \A i \in tree : i.upper = m.upper <=> i \in up
    BY <2>2, <2>3, <2>5, <2>6 DEF Intervals
  <2>10. kept = tree \ (low \cup up)
    BY <2>1, <2>8, <2>9
  <2>. QED  BY <2>1, <2>4, <2>7, <2>10 DEF tree, w
<1>. QED  BY <1>1, <1>2

(* The same for Remove. *)
THEOREM RemoveIsPersisted ==
    ASSUME NEW map, IsMap(map), NEW h \in Int, IsTree(NewTree(map))
    PROVE  LET new == Written(map, RemoveWrites(NewTree(map), h))
           IN  IsMap(new) /\ NewTree(new) = Remove(NewTree(map), h)
<1>. DEFINE tree == NewTree(map)
            w == RemoveWrites(tree, h)
            held == Holding(tree, h)
            pieces == UNION {Pieces(i, h) : i \in held}
            kept == {i \in tree : i.upper \notin w.delete /\ \A p \in w.put : p.upper # i.upper}
<1>1. w.delete = {i.upper : i \in {j \in held : j.upper = h}} /\ w.put = pieces
  BY DEF RemoveWrites
<1>2. held = {i \in tree : i.lower <= h /\ h <= i.upper}
  BY HoldingIsAny
<1>3. \A i \in tree : i \in Intervals /\ i.lower <= i.upper
  BY DEF IsTree, WellFormed
<1>4. \A i, j \in tree : i.upper = j.upper => i = j
  BY UppersAreKeys
<1>5. Remove(tree, h) = (tree \ held) \cup pieces
  BY DEF Remove
<1>6. \A i, j \in held : i = j
  BY <1>2 DEF IsTree, WellFormed, Intervals
<1>7. \A p \in pieces : \E i \in held : p \in Pieces(i, h)
  OBVIOUS
<1>8. ASSUME NEW i \in held
      PROVE  /\ Pieces(i, h) \subseteq Intervals
             /\ \A p \in Pieces(i, h) : p.upper = h - 1 \/ p.upper = i.upper
             /\ \A p \in Pieces(i, h) : i.lower <= p.upper
             /\ \A p, q \in Pieces(i, h) : p.upper = q.upper => p = q
             /\ i.upper # h => \E p \in Pieces(i, h) : p.upper = i.upper
  <2>1. i.lower \in Int /\ i.upper \in Int /\ i.lower <= h /\ h <= i.upper
    BY <1>2, <1>3 DEF Intervals
  <2>. DEFINE a == Interval(i.lower, h - 1)
              b == Interval(h + 1, i.upper)
  <2>2. /\ a \in Intervals /\ a.lower = i.lower /\ a.upper = h - 1
        /\ b \in Intervals /\ b.lower = h + 1 /\ b.upper = i.upper
    BY <2>1 DEF Interval, Intervals
  <2>3. Pieces(i, h) = {p \in {a, b} : p.lower <= p.upper}
    BY DEF Pieces
  <2>. HIDE DEF a, b
  <2>. QED  BY <2>1, <2>2, <2>3
<1>. HIDE DEF tree, held, w
<1>9. pieces \subseteq Intervals /\ \A p, q \in pieces : p.upper = q.upper => p = q
  BY <1>6, <1>7, <1>8
<1>10. IsMap(Written(map, w)) /\ NewTree(Written(map, w)) = kept \cup w.put
  BY <1>1, <1>9, WrittenTree DEF tree
<1>11. \A i \in held : i.upper \in w.delete \/ \E p \in pieces : p.upper = i.upper
  BY <1>1, <1>8
<1>12. ASSUME NEW i \in tree \ held
       PROVE  i.upper \notin w.delete /\ \A p \in pieces : p.upper # i.upper
  <2>1. i.upper \notin w.delete
    BY <1>1, <1>2, <1>3, <1>4 DEF Intervals
  <2>2. ASSUME NEW p \in pieces, p.upper = i.upper  PROVE FALSE
    <3>1. PICK j \in held : p \in Pieces(j, h)
      BY <1>7
    <3>2. j \in tree /\ i # j /\ j.lower <= h /\ h <= j.upper
      BY <1>2
    <3>3. (p.upper = h - 1 \/ p.upper = j.upper) /\ j.lower <= p.upper
      BY <3>1, <1>8
    <3>. QED  BY <2>2, <3>2, <3>3, <1>3, <1>4 DEF IsTree, WellFormed, Intervals, tree
  <2>. QED  BY <2>1, <2>2
<1>13. kept = tree \ held
  BY <1>1, <1>11, <1>12
<1>. QED  BY <1>1, <1>5, <1>10, <1>13 DEF tree, w
=============================================================================
