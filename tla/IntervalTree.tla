---------------------------- MODULE IntervalTree ----------------------------
(***************************************************************************)
(* interval.Tree: the set of heights whose blocks the bootstrapper has       *)
(* fetched, kept in memory as a set of intervals and in the database as a    *)
(* map from the upper bound of each interval to its lower bound              *)
(* (snow/engine/snowman/bootstrap/interval).  A change of the tree returns    *)
(* the writes the code makes along with it, as the keys it deletes and the   *)
(* intervals it puts, in this order.                                         *)
(***************************************************************************)
EXTENDS Integers

Interval(lower, upper) == [lower |-> lower, upper |-> upper]

(* The set of heights that a tree stands for.                                *)
Heights(tree) == UNION {i.lower .. i.upper : i \in tree}

(* AscendGreaterOrEqual and DescendLessOrEqual: the first interval, if any,  *)
(* in the order of the upper bounds.                                         *)
AtOrAbove(tree, h) ==
  {i \in tree : i.upper >= h /\ \A j \in tree : j.upper >= h => i.upper <= j.upper}

AtOrBelow(tree, h) ==
  {i \in tree : i.upper <= h /\ \A j \in tree : j.upper <= h => j.upper <= i.upper}

Contains(tree, h) == \E i \in AtOrAbove(tree, h) : i.lower <= h

(* The neighbours that height h extends: Add merges both, extends one or     *)
(* starts an interval.                                                       *)
UpperNeighbour(tree, h) == {i \in AtOrAbove(tree, h) : h + 1 = i.lower}
LowerNeighbour(tree, h) == {i \in AtOrBelow(tree, h) : i.upper + 1 = h}

LowerBound(low, h) == IF low = {} THEN h ELSE (CHOOSE i \in low : TRUE).lower
UpperBound(up, h) == IF up = {} THEN h ELSE (CHOOSE i \in up : TRUE).upper

Merged(low, up, h) == Interval(LowerBound(low, h), UpperBound(up, h))

Add(tree, h) ==
  IF Contains(tree, h) THEN tree
  ELSE (tree \ (LowerNeighbour(tree, h) \cup UpperNeighbour(tree, h)))
         \cup {Merged(LowerNeighbour(tree, h), UpperNeighbour(tree, h), h)}

(* Faulty: the key of the lower neighbour stays in the database.             *)
AddWritesNoDelete(tree, h) ==
  [delete |-> {},
   put |-> IF Contains(tree, h) THEN {}
           ELSE {Merged(LowerNeighbour(tree, h), UpperNeighbour(tree, h), h)}]

AddWrites(tree, h) ==
  IF Contains(tree, h) THEN [delete |-> {}, put |-> {}]
  ELSE [delete |-> {i.upper : i \in LowerNeighbour(tree, h)},
        put |-> {Merged(LowerNeighbour(tree, h), UpperNeighbour(tree, h), h)}]

(* What Remove leaves of interval i.                                         *)
Pieces(i, h) ==
  {p \in {Interval(i.lower, h - 1), Interval(h + 1, i.upper)} : p.lower <= p.upper}

Holding(tree, h) == {i \in AtOrAbove(tree, h) : i.lower <= h}

Remove(tree, h) ==
  (tree \ Holding(tree, h)) \cup UNION {Pieces(i, h) : i \in Holding(tree, h)}

RemoveWrites(tree, h) ==
  [delete |-> {i.upper : i \in {j \in Holding(tree, h) : j.upper = h}},
   put |-> UNION {Pieces(i, h) : i \in Holding(tree, h)}]

(* The persisted map after some writes, and the tree NewTree reads from it.  *)
Written(map, w) ==
  [u \in (DOMAIN map \ w.delete) \cup {i.upper : i \in w.put} |->
     IF \E i \in w.put : i.upper = u
       THEN (CHOOSE i \in w.put : i.upper = u).lower
       ELSE map[u]]

NewTree(map) == {Interval(map[u], u) : u \in DOMAIN map}

(* The intervals are those of a set of heights: not empty, and neither       *)
(* overlapping nor adjacent.                                                 *)
WellFormed(tree) ==
  /\ \A i \in tree : i.lower <= i.upper
  /\ \A i, j \in tree : i # j => i.upper + 1 < j.lower \/ j.upper + 1 < i.lower

=============================================================================
