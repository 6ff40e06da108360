---------------------------- MODULE TreeInstance ----------------------------
(***************************************************************************)
(* One snowball.Tree over its life: choices are added while polls arrive.  *)
(***************************************************************************)
EXTENDS SnowballTree

CONSTANTS
    Slots,          \* the validators a poll samples
    Ballots,        \* the polls: functions from sampled slots to choices
    MaxAdded,       \* bound: the number of choices added
    MaxConfidence   \* bound: no poll once a counter is this high

ASSUME BallotsAssumption ==
    /\ IsFiniteSet(Slots) /\ Cardinality(Slots) = K
    /\ Ballots \subseteq UNION {[S -> Choices] : S \in SUBSET Slots}
    /\ MaxAdded \in Nat /\ MaxConfidence \in Nat

VARIABLES tree, added

vars == <<tree, added>>

Init == \E c \in Choices : tree = NewTree(c) /\ added = {c}

Add(c) ==
    /\ c \notin added
    /\ Cardinality(added) < MaxAdded
    /\ tree' = TreeAdd(tree, c)
    /\ added' = added \cup {c}

Bounded ==
    \A p \in DOMAIN tree.nodes, i \in Conditions :
        tree.nodes[p].snow.confidence[i] < MaxConfidence

Poll(votes) ==
    /\ Bounded
    /\ tree' = TreeRecordPoll(tree, votes)
    /\ UNCHANGED added

Unsuccessful ==
    /\ tree' = TreeRecordUnsuccessfulPoll(tree)
    /\ UNCHANGED added

Next ==
    \/ \E c \in Choices : Add(c)
    \/ \E votes \in Ballots : (\A s \in DOMAIN votes : votes[s] \in added) /\ Poll(votes)
    \/ Unsuccessful

Spec == Init /\ [][Next]_vars

-----------------------------------------------------------------------------
(* The refinement mapping: what each bit's instance has effectively been   *)
(* told, pending resets included.                                          *)

Covers(q, p) ==
    IF IsUnary(tree, q)
    THEN /\ Len(q) <= Len(p)
         /\ Len(p) < tree.nodes[q].commonPrefix
         /\ Under(tree.nodes[q].preference, p)
    ELSE p = q

Prefixes == {Prefix(c, n) : c \in Choices, n \in 0 .. (NumBits - 1)}

Effective(p) ==
    LET covering == {q \in DOMAIN tree.nodes : Covers(q, p)} IN
    IF TreeFinalized(tree) \/ covering = {}
    THEN newSnowflake(2)
    ELSE LET q == CHOOSE q \in covering : TRUE
             n == tree.nodes[q]
         IN  [preference |-> IF IsUnary(tree, q) THEN Bit(n.preference, Len(p))
                             ELSE n.snow.preference,
              confidence |-> IF Reset(tree, q) THEN NoConfidence ELSE n.snow.confidence,
              finalized  |-> n.snow.finalized]

Eager == INSTANCE EagerTree
    WITH decided    <- IF TreeFinalized(tree) THEN Prefix(TreePreference(tree), NumBits)
                       ELSE tree.root,
         instance   <- [p \in Prefixes |-> Effective(p)],
         preference <- TreePreference(tree)

(* The tree behaves as a snowflake per bit that is told of every poll: the *)
(* lazily propagated resets, the nodes that vote over several bits and the *)
(* splits of unaryNode.Add are not observable.                             *)
EagerSpec == Eager!Spec

-----------------------------------------------------------------------------
Snows == [confidence : Confidences, finalized : BOOLEAN]
            \cup [preference : {0, 1}, confidence : Confidences, finalized : BOOLEAN]

Nodes ==
    [kind : {"unary"}, preference : added, commonPrefix : 1 .. NumBits,
     snow : Snows, shouldReset : BOOLEAN]
    \cup
    [kind : {"binary"}, preferences : [{0, 1} -> added],
     snow : Snows, shouldReset : [{0, 1} -> BOOLEAN]]

(* Types; every preference a node holds is a choice that was added. *)
TypeOK ==
    /\ added \subseteq Choices
    /\ tree.shouldReset \in BOOLEAN
    /\ tree.root \in DOMAIN tree.nodes
    /\ \A p \in DOMAIN tree.nodes : tree.nodes[p] \in Nodes

Children(p) ==
    IF ~HasChild(tree, p) THEN {}
    ELSE IF IsUnary(tree, p) THEN {Prefix(tree.nodes[p].preference, tree.nodes[p].commonPrefix)}
    ELSE {Append(p, b) : b \in {0, 1}}

(* The shape the code's comments rely on (tree.go:429): a child starts     *)
(* where its parent ends, every node but the root is a child, and every    *)
(* choice kept in a node was added and lies under it.                      *)
WellFormed ==
    /\ TypeOK
    /\ \A p \in DOMAIN tree.nodes : Children(p) \subseteq DOMAIN tree.nodes
    /\ \A p \in DOMAIN tree.nodes \ {tree.root} :
          \E q \in DOMAIN tree.nodes : p \in Children(q)
    /\ \A p \in DOMAIN tree.nodes :
          IF IsUnary(tree, p) THEN Under(tree.nodes[p].preference, p)
          ELSE \A b \in {0, 1} : Under(tree.nodes[p].preferences[b], Append(p, b))

(* A node's preference is its child's on the preferred side, so Preference *)
(* may stop at the root (tree.go:443, 551).                                *)
PreferencesAgree ==
    \A p \in DOMAIN tree.nodes, q \in DOMAIN tree.nodes :
        q \in Children(p) =>
            NodePreference(tree.nodes[q]) =
                IF IsUnary(tree, p) THEN tree.nodes[p].preference
                ELSE tree.nodes[p].preferences[q[Len(q)]]

(* tree.go:338: "this node will finalize before any children could         *)
(* finalize"; only the root of the tree can be decided, and only as a leaf. *)
OnlyRootFinalizes ==
    \A p \in DOMAIN tree.nodes :
        tree.nodes[p].snow.finalized => p = tree.root /\ ~HasChild(tree, p)
=============================================================================
