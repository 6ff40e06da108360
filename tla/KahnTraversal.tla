--------------------------- MODULE KahnTraversal ----------------------------
(***************************************************************************)
(* Topological.calculateInDegree and pushVotes, step by step: how a poll   *)
(* is turned into the stack of blocks to vote on.  votes.List() iterates   *)
(* over a Go map and leaves.Pop takes an arbitrary element, so both orders *)
(* are arbitrary here.                                                     *)
(*                                                                         *)
(* A bag of votes for children is a function from children to counts.      *)
(***************************************************************************)
EXTENDS BlockTree

LOCAL INSTANCE Functions

CONSTANT MaxIssued  \* bound: the number of blocks in the tree

VARIABLES
    issued,      \* the keys of ts.blocks; the last accepted one is Genesis
    votes,       \* the argument of calculateInDegree
    todo,        \* the votes.List() not yet visited
    kahnNodes,   \* ts.kahnNodes: [inDegree, votes] by block
    leaves,      \* ts.leaves
    voteStack    \* the result of pushVotes

vars == <<issued, votes, todo, kahnNodes, leaves, voteStack>>

ZeroNode == [inDegree |-> 0, votes |-> [c \in {} |-> 0]]

(* A missing entry of the Go map reads as the zero value. *)
Kahn(p) == IF p \in DOMAIN kahnNodes THEN kahnNodes[p] ELSE ZeroNode

BagLen(bag) == FoldFunction(+, 0, bag)

(* Faulty: overwrites the count. *)
SetCount(bag, c, n) ==
    [d \in DOMAIN bag \cup {c} |-> IF d = c THEN n ELSE bag[d]]

AddCount(bag, c, n) ==
    [d \in DOMAIN bag \cup {c} |->
        (IF d \in DOMAIN bag THEN bag[d] ELSE 0) + (IF d = c THEN n ELSE 0)]

Init ==
    /\ issued \in {S \in SUBSET Blocks :
                      /\ Genesis \in S
                      /\ Cardinality(S) <= MaxIssued
                      /\ \A b \in S \ {Genesis} : Parent[b] \in S}
    /\ votes \in Ballots
    /\ Cardinality(DOMAIN votes) >= AlphaPreference
    /\ todo = {votes[s] : s \in DOMAIN votes}
    /\ kahnNodes = [p \in {} |-> ZeroNode]
    /\ leaves = {}
    /\ voteStack = << >>

-----------------------------------------------------------------------------
(* The ancestors of p that the inner loop walks over, from p's parent down *)
(* to the first block seen before, or to the last accepted block.          *)
Walk(p) ==
    {q \in Ancestors[p] \cap issued :
        ~\E r \in Ancestors[p] \cap DOMAIN kahnNodes : q \in Ancestors[r]}

Reached(node) == [node EXCEPT !.inDegree = @ + 1]

(* Faulty: once a leaf, always a leaf. *)
LeavesKept(p, walk) == leaves \cup {p}

(* The first vote for a child of p makes p a leaf; a leaf that the walk    *)
(* reaches is none any more.                                               *)
LeavesWith(p, walk) == (leaves \cup {p}) \ walk

(* One iteration of the loop over votes.List(). *)
Visit(b) ==
    /\ b \in todo
    /\ todo' = todo \ {b}
    /\ IF b \notin issued \/ Decided(Genesis, b)
       THEN UNCHANGED <<kahnNodes, leaves>>
       ELSE LET p     == Parent[b]
                seen  == DOMAIN kahnNodes
                walk  == IF p \in seen THEN {} ELSE Walk(p)
                count == Cardinality({s \in DOMAIN votes : votes[s] = b})
            IN  /\ kahnNodes' =
                     [q \in seen \cup {p} \cup walk |->
                         IF q = p THEN [Kahn(p) EXCEPT !.votes = AddCount(@, b, count)]
                         ELSE IF q \in walk THEN Reached(Kahn(q))
                         ELSE kahnNodes[q]]
                /\ leaves' = IF p \in seen THEN leaves ELSE LeavesWith(p, walk)
    /\ UNCHANGED <<issued, votes, voteStack>>

Enough(size) == size >= AlphaPreference

(* One iteration of pushVotes. *)
Push(leaf) ==
    LET node == kahnNodes[leaf]
        size == BagLen(node.votes)
    IN  /\ todo = {}
        /\ leaf \in leaves
        /\ voteStack' = IF Enough(size)
                        THEN Append(voteStack, [parentID |-> leaf, votes |-> node.votes])
                        ELSE voteStack
        /\ IF Decided(Genesis, leaf)
           THEN /\ leaves' = leaves \ {leaf}
                /\ UNCHANGED kahnNodes
           ELSE LET p == Parent[leaf]
                    n == Kahn(p).inDegree - 1
                IN  /\ kahnNodes' = [kahnNodes EXCEPT
                                        ![p] = [inDegree |-> n,
                                                votes |-> AddCount(@.votes, leaf, size)]]
                    /\ leaves' = (leaves \ {leaf}) \cup (IF n = 0 THEN {p} ELSE {})
        /\ UNCHANGED <<issued, votes, todo>>

Next == \E b \in Blocks : Visit(b) \/ Push(b)

Spec == Init /\ [][Next]_vars

-----------------------------------------------------------------------------
Counts == UNION {[S -> 0 .. K] : S \in SUBSET Blocks}

(* Types; an in-degree never wraps below zero. *)
TypeOK ==
    /\ todo \subseteq Blocks
    /\ leaves \subseteq DOMAIN kahnNodes
    /\ DOMAIN kahnNodes \subseteq issued
    /\ \A p \in DOMAIN kahnNodes : /\ kahnNodes[p].inDegree \in Nat
                                   /\ kahnNodes[p].votes \in Counts

(* While the in-degrees are being set up, each one is the number of        *)
(* children through which votes will arrive, and the leaves are the blocks *)
(* without any (topological.go:397-399: a leaf is taken back when a walk   *)
(* reaches it).                                                            *)
DegreesCount ==
    /\ TypeOK
    /\ todo # {} =>
          /\ \A p \in DOMAIN kahnNodes :
                kahnNodes[p].inDegree =
                    Cardinality({c \in DOMAIN kahnNodes \ {Genesis} : Parent[c] = p})
          /\ leaves = {p \in DOMAIN kahnNodes : kahnNodes[p].inDegree = 0}

PolledBlocks == Polled(issued, Genesis, votes)

(* Whatever the order of the iterations, the traversal ends with every     *)
(* reached block processed and a stack that holds the blocks with          *)
(* AlphaPreference votes above them, the lowest on top, each with the      *)
(* number of votes for each child on the way to the votes.  Consecutive    *)
(* elements are child and parent: vote takes the next element of the stack *)
(* for the child that is polled next (topological.go:532).                 *)
StackIsPolledBranch ==
    todo = {} /\ leaves = {} =>
        /\ {voteStack[i].parentID : i \in DOMAIN voteStack} = PolledBlocks
        /\ \A i \in 1 .. (Len(voteStack) - 1) :
              voteStack[i + 1].parentID = Parent[voteStack[i].parentID]
        /\ \A i \in DOMAIN voteStack :
              LET at == VotesAt(issued, Genesis, votes, voteStack[i].parentID) IN
              voteStack[i].votes = [c \in {at[s] : s \in DOMAIN at} |->
                                       Cardinality({s \in DOMAIN at : at[s] = c})]
=============================================================================
