--------------------------- MODULE TreeRecursion ----------------------------
(***************************************************************************)
(* unaryNode and binaryNode call themselves on their children.  This is    *)
(* that recursion as it is written in tree.go, over the same table of      *)
(* nodes, to be compared with the operators of SnowballTree.               *)
(***************************************************************************)
EXTENDS TreeInstance

Reset1(n) == [n EXCEPT !.snow = RecordUnsuccessfulPoll(@)]

Put(nodes, p, n) == [q \in DOMAIN nodes \cup {p} |-> IF q = p THEN n ELSE nodes[q]]

OnBit(votes, i, b) ==
    LET S == {s \in DOMAIN votes : Bit(votes[s], i) = b} IN [s \in S |-> votes[s]]

-----------------------------------------------------------------------------
(* node.Add, called on the node at p. *)
RECURSIVE NodeAdd(_, _, _)
NodeAdd(nodes, p, c) ==
    LET u == nodes[p] IN
    IF u.kind = "binary"
    THEN IF Len(p) + 1 < NumBits THEN NodeAdd(nodes, Append(p, Bit(c, Len(p))), c) ELSE nodes
    ELSE IF u.snow.finalized THEN nodes
    ELSE IF Differences(c, u, p) = {}
    THEN IF u.commonPrefix < NumBits
         THEN NodeAdd(nodes, Prefix(u.preference, u.commonPrefix), c) ELSE nodes
    ELSE
    LET index    == CHOOSE i \in Differences(c, u, p) : \A j \in Differences(c, u, p) : i <= j
        bit      == Bit(u.preference, index)
        b        == BinaryNode([x \in {0, 1} |-> IF x = bit THEN u.preference ELSE c],
                               UnaryExtend(u.snow, bit), [x \in {0, 1} |-> u.shouldReset])
        newChild == UnaryNode(c, NumBits, newUnarySnowflake, FALSE)
        newKey   == Prefix(c, index + 1)
        uKey     == Prefix(u.preference, index + 1)
        bKey     == Prefix(u.preference, index)
        hasChild == u.commonPrefix < NumBits
    IN  CASE Len(p) = u.commonPrefix - 1 ->
                LET split == Put(nodes, p, b)
                IN  IF hasChild THEN Put(split, newKey, newChild) ELSE split
          [] Len(p) # u.commonPrefix - 1 /\ index = Len(p) ->
                Put(Put(Put(nodes, p, b), uKey, u), newKey, newChild)
          [] index # Len(p) /\ index = u.commonPrefix - 1 ->
                LET split == Put(Put(nodes, p, [u EXCEPT !.commonPrefix = @ - 1]), bKey, b)
                IN  IF hasChild THEN Put(split, newKey, newChild) ELSE split
          [] OTHER ->
                Put(Put(Put(Put(nodes, p, UnaryNode(u.preference, index, u.snow, FALSE)),
                            bKey, b), uKey, u), newKey, newChild)

TreeAddRec(t, c) ==
    IF Prefix(TreePreference(t), Len(t.root)) = Prefix(c, Len(t.root))
    THEN [t EXCEPT !.nodes = NodeAdd(t.nodes, t.root, c)]
    ELSE t

-----------------------------------------------------------------------------
(* node.RecordPoll, called on the node at p: the table after the call and  *)
(* the key of the node that is returned.                                   *)
RECURSIVE NodeRecordPoll(_, _, _, _)
NodeRecordPoll(nodes, p, votes, reset) ==
    LET n     == nodes[p]
        unary == n.kind = "unary"
        bit   == IF unary THEN 0
                 ELSE IF Cardinality(DOMAIN OnBit(votes, Len(p), 1)) >= AlphaPreference THEN 1 ELSE 0
        mine  == IF unary THEN votes ELSE OnBit(votes, Len(p), bit)
        num   == Cardinality(DOMAIN mine)
        told  == IF reset THEN Reset1(n) ELSE n
        flag  == reset \/ (IF unary THEN n.shouldReset ELSE n.shouldReset[bit])
        Flag(x, f) == IF unary THEN [x EXCEPT !.shouldReset = f]
                      ELSE [x EXCEPT !.shouldReset = [y \in {0, 1} |-> IF y = bit THEN f ELSE TRUE]]
        polled == [told EXCEPT !.snow = IF unary THEN UnaryRecordPoll(@, num)
                                        ELSE RecordPoll(@, num, bit)]
        child  == IF unary THEN Prefix(n.preference, n.commonPrefix) ELSE Append(p, bit)
        hasChild == Len(child) < NumBits
        r      == NodeRecordPoll(nodes, child, mine, flag)
        done   == polled.snow.finalized
    IN  IF num < AlphaPreference
        THEN [nodes |-> Put(nodes, p, Flag(Reset1(told), TRUE)), node |-> p]
        ELSE IF ~hasChild
        THEN [nodes |-> Put(nodes, p, Flag(polled, FALSE)), node |-> p]
        ELSE IF done
        THEN [nodes |-> Put(r.nodes, p, Flag(polled, flag)), node |-> r.node]
        ELSE IF unary
        THEN [nodes |-> Put(r.nodes, p, [Flag(polled, FALSE) EXCEPT
                            !.preference = NodePreference(r.nodes[child])]), node |-> p]
        ELSE [nodes |-> Put(r.nodes, p, [Flag(polled, FALSE) EXCEPT
                            !.preferences[bit] = NodePreference(r.nodes[r.node])]), node |-> p]

TreeRecordPollRec(t, votes) ==
    LET valid == {s \in DOMAIN votes :
                    Prefix(votes[s], Len(t.root)) = Prefix(TreePreference(t), Len(t.root))}
        r     == NodeRecordPoll(t.nodes, t.root, [s \in valid |-> votes[s]], t.shouldReset)
        kept  == {p \in DOMAIN r.nodes : p = r.node \/ StrictPrefix(r.node, p)}
    IN  [root        |-> r.node,
         shouldReset |-> FALSE,
         nodes       |-> [p \in kept |-> r.nodes[p]]]

-----------------------------------------------------------------------------
(* In every reachable tree, for every choice and every poll, the recursion *)
(* of tree.go and the path-wise definitions of SnowballTree give the same  *)
(* tree: a node decided below an undecided one, whose replacement          *)
(* unaryNode.RecordPoll would drop, does not occur.                        *)
RecursionAgrees ==
    /\ \A c \in Choices \ added : TreeAddRec(tree, c) = TreeAdd(tree, c)
    /\ \A votes \in Ballots :
          (\A s \in DOMAIN votes : votes[s] \in added)
              => TreeRecordPollRec(tree, votes) = TreeRecordPoll(tree, votes)
=============================================================================
