---------------------------- MODULE RouterProofs ----------------------------
(***************************************************************************)
(* Proofs about the chain router, for any number of peers, chains, subnets *)
(* and requests.                                                           *)
(***************************************************************************)
EXTENDS Router, TLAPS

(* A request that was not registered yet is unknown to the router, and its *)
(* chain was told nothing.                                                 *)
Told ==
  /\ ToldExactlyOnce
  /\ \A r \in Requests : sender[r] = "idle" => r \notin timedRequests /\ delivered[r] = 0

(* While the router is open it agrees with the benchlists, but for the call *)
(* that a benchlist's goroutine is about to make.                          *)
BenchesAgree ==
  ~closing => \A c \in Chains, n \in Nodes :
    /\ n \in benchlist[c] /\ work[c] # <<"Benched", n>> => c \in benched[n]
    /\ work[c] = <<"Unbenched", n>> => c \in benched[n] /\ n \notin benchlist[c]

(* A chain that the router does not route to has an empty queue.           *)
NoQueueWithoutHandler ==
  \A c \in Chains \ chainHandlers, n \in Nodes : pushed[c][n] = 0

PeersInv ==
  /\ TypeOK
  /\ ConnectedUnlessBenched
  /\ NoQueueWithoutHandler
  /\ BenchesAgree

-----------------------------------------------------------------------------
(* The router starts with no chain, peer or request.                       *)
LEMMA TypeInit == Init => TypeOK
<1>. SUFFICES ASSUME Init  PROVE TypeOK
  OBVIOUS
<1>1. work \in [Chains -> {<<>>} \cup {"Benched", "Unbenched"} \X Nodes]
  BY DEF Init
<1>2. pushed \in [Chains -> [Nodes -> Int]]
  BY DEF Init, NothingPushed
<1>3. /\ sender \in [Requests -> {"idle", "registered", "armed", "done"}]
      /\ delivered \in [Requests -> Nat]
      /\ peers \in [Nodes -> SUBSET Subnets]
      /\ benched \in [Nodes -> SUBSET Chains]
      /\ benchlist \in [Chains -> SUBSET Nodes]
  BY DEF Init
<1>4. closing \in BOOLEAN /\ sybilProtectionEnabled \in BOOLEAN
  BY Zenon DEF Init
<1>. QED  BY <1>1, <1>2, <1>3, <1>4 DEF Init, TypeOK

(* The messages of connected and disconnected keep the type of the queues. *)
LEMMA PushTypes ==
    ASSUME TypeOK, NEW cs, NEW n \in Nodes, NEW d \in Int, Push(cs, n, d)
    PROVE  pushed' \in [Chains -> [Nodes -> Int]]
  BY DEF TypeOK, Push

(* Every step of the router and of its callers keeps the types.            *)
LEMMA TypeStep == TypeOK /\ [Next]_vars => TypeOK'
<1>. SUFFICES ASSUME TypeOK, [Next]_vars  PROVE TypeOK'
  OBVIOUS
<1>. USE RouterAssumption
<1>0. ASSUME NEW cs, NEW n \in Nodes, NEW d \in Int, Push(cs, n, d) \/ UNCHANGED pushed
      PROVE  pushed' \in [Chains -> [Nodes -> Int]]
  <2>1. CASE Push(cs, n, d)
    BY <2>1, PushTypes, Zenon
  <2>2. CASE UNCHANGED pushed
    BY <2>2 DEF TypeOK
  <2>. QED  BY <1>0, <2>1, <2>2
<1>1. ASSUME NEW r \in Requests, RegisterRequest(r)  PROVE TypeOK'
  BY <1>1 DEF RegisterRequest, TypeOK, chainVars, peerVars
<1>2. ASSUME NEW r \in Requests, RegisterTimeout(r)  PROVE TypeOK'
  BY <1>2 DEF RegisterTimeout, TypeOK, chainVars, peerVars
<1>3. ASSUME NEW r \in Requests, NEW sent \in BOOLEAN, Send(r, sent)  PROVE TypeOK'
  BY <1>3 DEF Send, TypeOK, chainVars, peerVars
<1>4. ASSUME NEW r \in Requests, EarlyFailure(r)  PROVE TypeOK'
  <2>1. handled' \subseteq timedRequests'
    BY <1>4 DEF EarlyFailure, TypeOK
  <2>2. delivered' \in [Requests -> Nat]
    <3>1. CASE PushOnce(r)
      BY <3>1 DEF PushOnce, TypeOK
    <3>2. CASE UNCHANGED delivered
      BY <3>2 DEF TypeOK
    <3>. QED  BY <1>4, <3>1, <3>2 DEF EarlyFailure
  <2>. QED  BY <1>4, <2>1, <2>2 DEF EarlyFailure, TypeOK, chainVars, peerVars
<1>5. ASSUME NEW r \in Requests, ExternalFailure(r)  PROVE TypeOK'
  BY <1>5 DEF ExternalFailure, Forget, PushOnce, TypeOK, chainVars, peerVars
<1>6. ASSUME NEW r \in Requests, Response(r)  PROVE TypeOK'
  BY <1>6 DEF Response, Forget, PushOnce, TypeOK, chainVars, peerVars
<1>7. ASSUME NEW r \in Requests, Fire(r)  PROVE TypeOK'
  BY <1>7 DEF Fire, TypeOK, chainVars, peerVars
<1>8. ASSUME NEW r \in Requests, Timeout(r)  PROVE TypeOK'
  BY <1>8 DEF Timeout, Forget, PushOnce, TypeOK, chainVars, peerVars
<1>9. ASSUME NEW c \in Chains, AddChain(c)  PROVE TypeOK'
  BY <1>9 DEF AddChain, TypeOK, requestVars
<1>10. ASSUME NEW c \in Chains, removeChain(c)  PROVE TypeOK'
  BY <1>10 DEF removeChain, NothingPushed, TypeOK, requestVars
<1>11. ASSUME NEW c \in Chains, Execute(c)  PROVE TypeOK'
  BY <1>11 DEF Execute, TypeOK, requestVars, peerVars
<1>12. ASSUME NEW c \in Chains, NEW n \in Nodes, Bench(c, n)  PROVE TypeOK'
  BY <1>12 DEF Bench, TypeOK, requestVars, chainVars
<1>13. ASSUME NEW c \in Chains, NEW n \in Nodes, Unbench(c, n)  PROVE TypeOK'
  BY <1>13 DEF Unbench, TypeOK, requestVars, chainVars
<1>14. ASSUME NEW c \in Chains, Notify(c)  PROVE TypeOK'
  <2>1. PICK n \in Nodes : work[c][2] = n
    <3>1. work[c][2] \in Nodes
      BY <1>14 DEF Notify, TypeOK
    <3>. QED  BY <3>1
  <2>2. work' \in [Chains -> {<<>>} \cup {"Benched", "Unbenched"} \X Nodes]
    BY <1>14 DEF Notify, TypeOK
  <2>3. pushed' \in [Chains -> [Nodes -> Int]] /\ benched' \in [Nodes -> SUBSET Chains]
    <3>1. CASE Benched(c, n)
      <4>. DEFINE cs == {d \in chainHandlers : Tracks(n, d)}
      <4>0. Push(cs, n, -1) \/ UNCHANGED pushed
        BY <3>1 DEF Benched
      <4>1. pushed' \in [Chains -> [Nodes -> Int]]
        <5>. HIDE DEF cs
        <5>. QED  BY <4>0, <1>0
      <4>. QED  BY <3>1, <4>1 DEF Benched, TypeOK
    <3>2. CASE Unbenched(c, n)
      <4>. DEFINE cs == {d \in chainHandlers : Tracks(n, d)}
      <4>0. Push(cs, n, 1) \/ UNCHANGED pushed
        BY <3>2 DEF Unbenched
      <4>1. pushed' \in [Chains -> [Nodes -> Int]]
        <5>. HIDE DEF cs
        <5>. QED  BY <4>0, <1>0
      <4>. QED  BY <3>2, <4>1 DEF Unbenched, TypeOK
    <3>3. CASE UNCHANGED <<benched, pushed>>
      BY <3>3 DEF TypeOK
    <3>. QED  BY <1>14, <2>1, <3>1, <3>2, <3>3 DEF Notify
  <2>. QED  BY <1>14, <2>2, <2>3 DEF Notify, TypeOK, requestVars, chainVars
<1>15. ASSUME NEW n \in Nodes, NEW s \in Subnets, Connected(n, s)  PROVE TypeOK'
  <2>. DEFINE cs == {c \in chainHandlers : Subnet[c] = s \/ ~sybilProtectionEnabled}
  <2>0. Push(cs, n, 1) \/ UNCHANGED pushed
    BY <1>15 DEF Connected
  <2>1. pushed' \in [Chains -> [Nodes -> Int]]
    <3>. HIDE DEF cs
    <3>. QED  BY <2>0, <1>0
  <2>. QED  BY <1>15, <2>1 DEF Connected, TypeOK, requestVars, chainVars
<1>16. ASSUME NEW n \in Nodes, Disconnected(n)  PROVE TypeOK'
  <2>. DEFINE cs == {c \in chainHandlers : Tracks(n, c)}
  <2>0. Push(cs, n, -1) \/ UNCHANGED pushed
    BY <1>16 DEF Disconnected
  <2>1. pushed' \in [Chains -> [Nodes -> Int]]
    <3>. HIDE DEF cs
    <3>. QED  BY <2>0, <1>0
  <2>. QED  BY <1>16, <2>1 DEF Disconnected, TypeOK, requestVars, chainVars
<1>17. CASE Shutdown
  BY <1>17 DEF Shutdown, NothingPushed, TypeOK, requestVars
<1>18. CASE UNCHANGED vars
  BY <1>18 DEF TypeOK, vars, requestVars, chainVars, peerVars
<1>. QED  BY <1>1, <1>2, <1>3, <1>4, <1>5, <1>6, <1>7, <1>8, <1>9, <1>10, <1>11, <1>12,
             <1>13, <1>14, <1>15, <1>16, <1>17, <1>18 DEF Next

-----------------------------------------------------------------------------
(* One request's end: a step that pushes at most once, and marks or forgets *)
(* what it pushed, keeps Told.                                             *)
LEMMA ToldStep == Told /\ [Next]_vars => Told'
<1>. SUFFICES ASSUME Told, [Next]_vars  PROVE Told'
  OBVIOUS
<1>0. TypeOK /\ TypeOK'
  BY TypeStep DEF Told, ToldExactlyOnce
<1>. DEFINE One(q) ==
       /\ delivered[q] <= 1
       /\ q \in timedRequests => (delivered[q] = 1 <=> q \in handled)
       /\ q \notin timedRequests /\ sender[q] # "idle" /\ ~closing => delivered[q] = 1
       /\ sender[q] = "idle" => q \notin timedRequests /\ delivered[q] = 0
<1>a. \A q \in Requests : One(q)
  BY DEF Told, ToldExactlyOnce
<1>b. SUFFICES ASSUME NEW q \in Requests  PROVE One(q)'
  BY <1>0 DEF Told, ToldExactlyOnce
<1>c. One(q)
  BY <1>a
<1>d. /\ delivered[q] \in Nat /\ delivered'[q] \in Nat
      /\ handled \subseteq timedRequests
      /\ sender[q] \in {"idle", "registered", "armed", "done"}
      /\ closing \in BOOLEAN
  BY <1>0 DEF TypeOK
<1>e. ASSUME UNCHANGED <<sender, timedRequests, handled, delivered>>, closing => closing'
      PROVE  One(q)'
  BY <1>c, <1>e
<1>f. ASSUME NEW r \in Requests, PushOnce(r)
      PROVE  delivered'[q] = IF q = r /\ q \notin handled THEN delivered[q] + 1 ELSE delivered[q]
  BY <1>0, <1>f DEF PushOnce, TypeOK
<1>g. ASSUME NEW r \in Requests, r \in timedRequests, Forget(r), PushOnce(r),
             UNCHANGED <<sender, closing>>
      PROVE  One(q)'
  BY <1>c, <1>d, <1>f, <1>g DEF Forget
<1>1. ASSUME NEW r \in Requests, RegisterRequest(r)  PROVE One(q)'
  <2>1. sender'[q] = IF q = r THEN (IF closing THEN "armed" ELSE "registered") ELSE sender[q]
    BY <1>0, <1>1 DEF RegisterRequest, TypeOK
  <2>. QED  BY <1>1, <1>c, <1>d, <2>1 DEF RegisterRequest, chainVars
<1>2. ASSUME NEW r \in Requests, RegisterTimeout(r)  PROVE One(q)'
  <2>1. sender'[q] = IF q = r THEN "armed" ELSE sender[q]
    BY <1>0, <1>2 DEF RegisterTimeout, TypeOK
  <2>. QED  BY <1>2, <1>c, <1>d, <2>1 DEF RegisterTimeout, chainVars
<1>3. ASSUME NEW r \in Requests, NEW sent \in BOOLEAN, Send(r, sent)  PROVE One(q)'
  <2>1. sender'[q] = IF q = r THEN "done" ELSE sender[q]
    BY <1>0, <1>3 DEF Send, TypeOK
  <2>. QED  BY <1>3, <1>c, <1>d, <2>1 DEF Send, chainVars
<1>4. ASSUME NEW r \in Requests, EarlyFailure(r)  PROVE One(q)'
  <2>1. CASE Routed(r) /\ r \in timedRequests
    BY <1>4, <2>1, <1>c, <1>d, <1>f DEF EarlyFailure, chainVars
  <2>2. CASE ~(Routed(r) /\ r \in timedRequests)
    BY <1>4, <2>2, <1>e DEF EarlyFailure, chainVars
  <2>. QED  BY <2>1, <2>2
<1>5. ASSUME NEW r \in Requests, ExternalFailure(r)  PROVE One(q)'
  BY <1>5, <1>g DEF ExternalFailure, chainVars
<1>6. ASSUME NEW r \in Requests, Response(r)  PROVE One(q)'
  BY <1>6, <1>g DEF Response, chainVars
<1>7. ASSUME NEW r \in Requests, Fire(r)  PROVE One(q)'
  BY <1>7, <1>e DEF Fire, chainVars
<1>8. ASSUME NEW r \in Requests, Timeout(r)  PROVE One(q)'
  BY <1>8, <1>e, <1>g DEF Timeout, chainVars
<1>9. ASSUME UNCHANGED requestVars, closing => closing'  PROVE One(q)'
  BY <1>9, <1>e DEF requestVars
<1>10. ASSUME NEW c \in Chains, AddChain(c) \/ removeChain(c) \/ Execute(c) \/ Notify(c)
       PROVE  One(q)'
  BY <1>9, <1>10 DEF AddChain, removeChain, Execute, Notify, chainVars
<1>11. ASSUME NEW c \in Chains, NEW n \in Nodes, Bench(c, n) \/ Unbench(c, n)  PROVE One(q)'
  BY <1>9, <1>11 DEF Bench, Unbench, chainVars
<1>12. ASSUME NEW n \in Nodes, Disconnected(n) \/ \E s \in Subnets : Connected(n, s)
       PROVE  One(q)'
  BY <1>9, <1>12, Zenon DEF Connected, Disconnected, chainVars
<1>13. CASE Shutdown
  BY <1>9, <1>13 DEF Shutdown
<1>14. CASE UNCHANGED vars
  BY <1>9, <1>14 DEF vars, chainVars
<1>. HIDE DEF One
<1>. QED  BY <1>1, <1>2, <1>3, <1>4, <1>5, <1>6, <1>7, <1>8, <1>10, <1>11, <1>12, <1>13,
             <1>14 DEF Next

(* A chain is told at most once how a request ended, and a request is      *)
(* forgotten only once its chain was told, for any number of requests      *)
(* whose responses, errors, early failures and timeouts race.              *)
THEOREM RequestsToldOnce == Spec => []ToldExactlyOnce
<1>1. Init => Told
  <2>. SUFFICES ASSUME Init  PROVE Told
    OBVIOUS
  <2>1. TypeOK
    BY TypeInit
  <2>. QED  BY <2>1 DEF Init, Told, ToldExactlyOnce
<1>2. Told => ToldExactlyOnce
  BY DEF Told
<1>. QED  BY <1>1, <1>2, ToldStep, PTL DEF Spec

-----------------------------------------------------------------------------
(* The calls of the benchlists: only Notify changes what the router holds, *)
(* and only Bench and Unbench what a benchlist holds.                      *)
LEMMA BenchesStep == PeersInv /\ [Next]_vars => BenchesAgree'
<1>. SUFFICES ASSUME PeersInv, [Next]_vars, ~closing'  PROVE BenchesAgree'
  BY DEF BenchesAgree
<1>. DEFINE Agree(c, n) ==
       /\ n \in benchlist[c] /\ work[c] # <<"Benched", n>> => c \in benched[n]
       /\ work[c] = <<"Unbenched", n>> => c \in benched[n] /\ n \notin benchlist[c]
<1>0. TypeOK
  BY DEF PeersInv
<1>1. ASSUME UNCHANGED <<benched, benchlist, work, closing>>  PROVE BenchesAgree'
  BY <1>1 DEF PeersInv, BenchesAgree
<1>2. ASSUME ~closing  PROVE \A c \in Chains, n \in Nodes : Agree(c, n)
  BY <1>2 DEF PeersInv, BenchesAgree
<1>3. ASSUME ~closing, \A c \in Chains, n \in Nodes : Agree(c, n)'  PROVE BenchesAgree'
  BY <1>3 DEF BenchesAgree
<1>4. ASSUME NEW c \in Chains, NEW n \in Nodes, Bench(c, n)  PROVE BenchesAgree'
  <2>1. ~closing /\ UNCHANGED benched
    BY <1>4 DEF Bench, chainVars
  <2>2. \A d \in Chains : /\ benchlist'[d] = IF d = c THEN benchlist[d] \cup {n} ELSE benchlist[d]
                          /\ work'[d] = IF d = c THEN <<"Benched", n>> ELSE work[d]
    BY <1>0, <1>4, Zenon DEF Bench, TypeOK
  <2>3. work[c] = <<>>
    BY <1>4 DEF Bench
  <2>4. ASSUME NEW d \in Chains, NEW m \in Nodes  PROVE Agree(d, m)'
    <3>1. Agree(d, m)
      BY <1>2, <2>1
    <3>2. CASE d = c
      <4>1. work[d] # <<"Benched", m>>
        <5>1. work[d] = <<>>
          BY <2>3, <3>2
        <5>. QED  BY <5>1
      <4>2. /\ work'[d] = <<"Benched", m>> <=> m = n
            /\ work'[d] # <<"Unbenched", m>>
        <5>1. work'[d] = <<"Benched", n>>
          BY <2>2, <3>2, Zenon
        <5>. QED  BY <5>1
      <4>. QED  BY <2>1, <2>2, <3>1, <3>2, <4>1, <4>2, Zenon
    <3>3. CASE d # c
      BY <2>1, <2>2, <3>1, <3>3, Zenon
    <3>. QED  BY <3>2, <3>3
  <2>. QED  BY <1>3, <2>1, <2>4
<1>5. ASSUME NEW c \in Chains, NEW n \in Nodes, Unbench(c, n)  PROVE BenchesAgree'
  <2>1. ~closing /\ UNCHANGED benched
    BY <1>5 DEF Unbench, chainVars
  <2>2. \A d \in Chains : /\ benchlist'[d] = IF d = c THEN benchlist[d] \ {n} ELSE benchlist[d]
                          /\ work'[d] = IF d = c THEN <<"Unbenched", n>> ELSE work[d]
    BY <1>0, <1>5, Zenon DEF Unbench, TypeOK
  <2>3. work[c] = <<>> /\ n \in benchlist[c]
    BY <1>5 DEF Unbench
  <2>4. ASSUME NEW d \in Chains, NEW m \in Nodes  PROVE Agree(d, m)'
    <3>1. Agree(d, m)
      BY <1>2, <2>1
    <3>2. CASE d = c
      <4>1. work[d] # <<"Benched", m>>
        <5>1. work[d] = <<>>
          BY <2>3, <3>2
        <5>. QED  BY <5>1
      <4>2. /\ work'[d] # <<"Benched", m>>
            /\ work'[d] = <<"Unbenched", m>> <=> m = n
        <5>1. work'[d] = <<"Unbenched", n>>
          BY <2>2, <3>2, Zenon
        <5>. QED  BY <5>1
      <4>. QED  BY <2>1, <2>2, <2>3, <3>1, <3>2, <4>1, <4>2, Zenon
    <3>3. CASE d # c
      BY <2>1, <2>2, <3>1, <3>3, Zenon
    <3>. QED  BY <3>2, <3>3
  <2>. QED  BY <1>3, <2>1, <2>4
<1>6. ASSUME NEW c \in Chains, Notify(c)  PROVE BenchesAgree'
  <2>1. ~closing /\ UNCHANGED benchlist
    BY <1>6 DEF Notify, chainVars
  <2>2. \A d \in Chains : work'[d] = IF d = c THEN <<>> ELSE work[d]
    BY <1>0, <1>6 DEF Notify, TypeOK
  <2>3. PICK k \in {"Benched", "Unbenched"}, n \in Nodes : work[c] = <<k, n>>
    BY <1>0, <1>6 DEF Notify, TypeOK
  <2>4. \A m \in Nodes : benched'[m] = IF m # n THEN benched[m]
                                       ELSE IF k = "Benched" THEN benched[m] \cup {c}
                                       ELSE benched[m] \ {c}
    <3>1. work[c][1] = k /\ work[c][2] = n
      BY <2>3
    <3>2. \/ k = "Benched" /\ benched' = [benched EXCEPT ![n] = @ \cup {c}]
          \/ k = "Unbenched" /\ benched' = [benched EXCEPT ![n] = @ \ {c}]
      BY <1>6, <2>1, <3>1 DEF Notify, Benched, Unbenched
    <3>. QED  BY <1>0, <3>2, Zenon DEF TypeOK
  <2>5. ASSUME NEW d \in Chains, NEW m \in Nodes  PROVE Agree(d, m)'
    <3>1. Agree(d, m)
      BY <1>2, <2>1
    <3>2. CASE d = c /\ k = "Benched"
      <4>1. /\ work[d] = <<"Benched", m>> <=> m = n
            /\ work[d] = <<"Unbenched", m>> <=> FALSE
        BY <2>3, <3>2
      <4>2. work'[d] # <<"Unbenched", m>>
        BY <2>2, <3>2
      <4>. QED  BY <2>1, <2>4, <3>1, <3>2, <4>1, <4>2, Zenon
    <3>3. CASE d = c /\ k = "Unbenched"
      <4>1. /\ work[d] = <<"Benched", m>> <=> FALSE
            /\ work[d] = <<"Unbenched", m>> <=> m = n
        BY <2>3, <3>3
      <4>2. work'[d] # <<"Unbenched", m>>
        BY <2>2, <3>3
      <4>. QED  BY <2>1, <2>4, <3>1, <3>3, <4>1, <4>2, Zenon
    <3>4. CASE d # c
      BY <2>1, <2>2, <2>4, <3>1, <3>4, Zenon
    <3>. QED  BY <3>2, <3>3, <3>4
  <2>. QED  BY <1>3, <2>1, <2>5
<1>. HIDE DEF Agree
<1>7. ASSUME NEW r \in Requests,
             \/ RegisterRequest(r) \/ RegisterTimeout(r) \/ \E sent \in BOOLEAN : Send(r, sent)
             \/ EarlyFailure(r) \/ ExternalFailure(r) \/ Response(r) \/ Fire(r) \/ Timeout(r)
      PROVE  BenchesAgree'
  BY <1>1, <1>7 DEF RegisterRequest, RegisterTimeout, Send, EarlyFailure, ExternalFailure,
                    Response, Fire, Timeout, chainVars, peerVars
<1>8. ASSUME NEW c \in Chains, AddChain(c) \/ removeChain(c) \/ Execute(c)  PROVE BenchesAgree'
  BY <1>1, <1>8 DEF AddChain, removeChain, Execute, peerVars
<1>9. ASSUME NEW n \in Nodes, Disconnected(n) \/ \E s \in Subnets : Connected(n, s)
      PROVE  BenchesAgree'
  BY <1>1, <1>9, Zenon DEF Connected, Disconnected, chainVars
<1>10. ~Shutdown
  BY DEF Shutdown
<1>11. CASE UNCHANGED vars
  BY <1>1, <1>11 DEF vars, chainVars, peerVars
<1>. QED  BY <1>4, <1>5, <1>6, <1>7, <1>8, <1>9, <1>10, <1>11 DEF Next

(* What the queues add up to: the two conjuncts about pushed, in one.      *)
Queued(c, n) ==
  pushed[c][n] = IF c \in chainHandlers /\ Tracks(n, c) /\ benched[n] = {} THEN 1 ELSE 0

(* Queued is ConnectedUnlessBenched for the chains the router routes to    *)
(* and NoQueueWithoutHandler for the others.                               *)
LEMMA QueuedIs ==
    ASSUME chainHandlers \subseteq Chains
    PROVE  ConnectedUnlessBenched /\ NoQueueWithoutHandler
             <=> \A c \in Chains, n \in Nodes : Queued(c, n)
  BY DEF ConnectedUnlessBenched, NoQueueWithoutHandler, Queued

(* Every step that changes the peers, the benched peers or the chains      *)
(* pushes the messages that make up for the change.                        *)
LEMMA QueuesStep ==
    PeersInv /\ [Next]_vars => ConnectedUnlessBenched' /\ NoQueueWithoutHandler'
<1>. SUFFICES ASSUME PeersInv, [Next]_vars
              PROVE  ConnectedUnlessBenched' /\ NoQueueWithoutHandler'
  OBVIOUS
<1>. SUFFICES ASSUME NEW d \in Chains, NEW m \in Nodes  PROVE Queued(d, m)'
  <2>0. TypeOK'
    BY TypeStep DEF PeersInv
  <2>1. chainHandlers' \subseteq Chains
    BY <2>0 DEF TypeOK
  <2>. QED  BY <2>1, QueuedIs DEF ConnectedUnlessBenched, NoQueueWithoutHandler, Queued
<1>. USE RouterAssumption
<1>0. TypeOK
  BY DEF PeersInv
<1>a. \A c \in Chains, n \in Nodes : Queued(c, n)
  <2>1. chainHandlers \subseteq Chains
    BY <1>0 DEF TypeOK
  <2>. QED  BY <2>1, QueuedIs DEF PeersInv
<1>b. Queued(d, m)
  BY <1>a
<1>c. pushed[d][m] \in Int /\ peers[m] \subseteq Subnets /\ sybilProtectionEnabled \in BOOLEAN
  BY <1>0 DEF TypeOK
<1>1. ASSUME UNCHANGED <<chainHandlers, sybilProtectionEnabled, peers, benched, pushed>>
      PROVE  Queued(d, m)'
  BY <1>1, <1>b DEF Queued, Tracks
<1>2. ASSUME NEW r \in Requests,
             \/ RegisterRequest(r) \/ RegisterTimeout(r) \/ \E sent \in BOOLEAN : Send(r, sent)
             \/ EarlyFailure(r) \/ ExternalFailure(r) \/ Response(r) \/ Fire(r) \/ Timeout(r)
      PROVE  Queued(d, m)'
  BY <1>1, <1>2 DEF RegisterRequest, RegisterTimeout, Send, EarlyFailure, ExternalFailure,
                    Response, Fire, Timeout, chainVars, peerVars
<1>3. ASSUME NEW c \in Chains, AddChain(c)  PROVE Queued(d, m)'
  <2>1. pushed'[d][m] = IF d = c /\ Tracks(m, c) /\ benched[m] = {} THEN pushed[d][m] + 1
                                                                   ELSE pushed[d][m]
    BY <1>0, <1>3 DEF AddChain, TypeOK
  <2>2. /\ chainHandlers' = chainHandlers \cup {c} /\ c \notin chainHandlers
        /\ UNCHANGED <<sybilProtectionEnabled, peers, benched>>
    BY <1>3 DEF AddChain
  <2>3. Tracks(m, d)' <=> Tracks(m, d)
    BY <2>2 DEF Tracks
  <2>4. CASE d = c
    <3>1. pushed[d][m] = 0 /\ d \in chainHandlers'
      BY <1>b, <2>2, <2>4 DEF Queued
    <3>2. pushed'[d][m] = IF Tracks(m, d) /\ benched[m] = {} THEN 1 ELSE 0
      BY <2>1, <2>4, <3>1
    <3>. QED  BY <2>2, <2>3, <3>1, <3>2 DEF Queued
  <2>5. CASE d # c
    <3>1. pushed'[d][m] = pushed[d][m] /\ (d \in chainHandlers' <=> d \in chainHandlers)
      BY <2>1, <2>2, <2>5
    <3>. QED  BY <1>b, <2>2, <2>3, <3>1 DEF Queued
  <2>. QED  BY <2>4, <2>5
<1>4. ASSUME NEW c \in Chains, removeChain(c)  PROVE Queued(d, m)'
  <2>1. pushed'[d][m] = IF d = c THEN 0 ELSE pushed[d][m]
    BY <1>0, <1>4 DEF removeChain, NothingPushed, TypeOK
  <2>2. /\ chainHandlers' = chainHandlers \ {c}
        /\ UNCHANGED <<sybilProtectionEnabled, peers, benched>>
    BY <1>4 DEF removeChain
  <2>3. Tracks(m, d)' <=> Tracks(m, d)
    BY <2>2 DEF Tracks
  <2>. QED  BY <1>b, <2>1, <2>2, <2>3 DEF Queued
<1>5. ASSUME NEW c \in Chains, Execute(c)  PROVE Queued(d, m)'
  BY <1>1, <1>5 DEF Execute, peerVars
<1>6. ASSUME NEW c \in Chains, NEW n \in Nodes, Bench(c, n) \/ Unbench(c, n)  PROVE Queued(d, m)'
  BY <1>1, <1>6 DEF Bench, Unbench, chainVars
<1>7. ASSUME NEW cs, NEW n \in Nodes, NEW e \in Int, Push(cs, n, e)
      PROVE  pushed'[d][m] = IF m = n /\ d \in cs THEN pushed[d][m] + e ELSE pushed[d][m]
  BY <1>0, <1>7 DEF Push, TypeOK
<1>8. ASSUME NEW c \in Chains, Notify(c)  PROVE Queued(d, m)'
  <2>1. UNCHANGED <<chainHandlers, sybilProtectionEnabled, peers>>
    BY <1>8 DEF Notify, chainVars
  <2>2. PICK k \in {"Benched", "Unbenched"}, n \in Nodes : work[c] = <<k, n>>
    BY <1>0, <1>8 DEF Notify, TypeOK
  <2>3. Tracks(m, d)' <=> Tracks(m, d)
    BY <2>1 DEF Tracks
  <2>. DEFINE cs == {e \in chainHandlers : Tracks(n, e)}
  <2>4. CASE ~closing /\ Benched(c, n)
    <3>1. benched'[m] = IF m = n THEN benched[m] \cup {c} ELSE benched[m]
      BY <1>0, <2>4, Zenon DEF Benched, TypeOK
    <3>2. IF benched[n] = {} THEN Push(cs, n, -1) ELSE UNCHANGED pushed
      BY <2>4 DEF Benched
    <3>3. pushed'[d][m] = IF benched[n] = {} /\ m = n /\ d \in cs THEN pushed[d][m] - 1
                                                                 ELSE pushed[d][m]
      <4>. HIDE DEF cs
      <4>1. CASE benched[n] = {}
        BY <3>2, <4>1, <1>7, <1>c
      <4>2. CASE benched[n] # {}
        BY <3>2, <4>2
      <4>. QED  BY <4>1, <4>2
    <3>4. CASE m = n
      <4>1. benched'[m] # {}
        BY <3>1, <3>4
      <4>2. d \in cs <=> d \in chainHandlers /\ Tracks(m, d)
        BY <3>4
      <4>3. pushed[d][m] = IF benched[m] = {} /\ d \in cs THEN 1 ELSE 0
        BY <1>b, <4>2 DEF Queued
      <4>. HIDE DEF cs
      <4>4. pushed'[d][m] = 0
        BY <3>3, <3>4, <4>3
      <4>. QED  BY <4>1, <4>4 DEF Queued
    <3>5. CASE m # n
      <4>1. pushed'[d][m] = pushed[d][m] /\ benched'[m] = benched[m]
        BY <3>1, <3>3, <3>5
      <4>. QED  BY <1>b, <2>1, <2>3, <4>1 DEF Queued
    <3>. QED  BY <3>4, <3>5
  <2>5. CASE ~closing /\ k = "Unbenched" /\ Unbenched(c, n)
    <3>1. benched'[m] = IF m = n THEN benched[m] \ {c} ELSE benched[m]
      BY <1>0, <2>5, Zenon DEF Unbenched, TypeOK
    <3>2. IF benched[n] \ {c} = {} THEN Push(cs, n, 1) ELSE UNCHANGED pushed
      BY <2>5 DEF Unbenched
    <3>3. pushed'[d][m] = IF benched[n] \ {c} = {} /\ m = n /\ d \in cs THEN pushed[d][m] + 1
                                                                       ELSE pushed[d][m]
      <4>. HIDE DEF cs
      <4>1. CASE benched[n] \ {c} = {}
        BY <3>2, <4>1, <1>7
      <4>2. CASE benched[n] \ {c} # {}
        BY <3>2, <4>2
      <4>. QED  BY <4>1, <4>2
    <3>4. c \in benched[n]
      BY <2>2, <2>5 DEF PeersInv, BenchesAgree
    <3>5. CASE m = n
      <4>1. pushed[d][m] = 0
        BY <1>b, <3>4, <3>5 DEF Queued
      <4>2. benched'[m] = {} <=> benched[n] \ {c} = {}
        BY <3>1, <3>5
      <4>3. d \in cs <=> d \in chainHandlers /\ Tracks(m, d)
        BY <3>5
      <4>. HIDE DEF cs
      <4>4. pushed'[d][m] = IF benched'[m] = {} /\ d \in cs THEN 1 ELSE 0
        <5>1. CASE benched'[m] = {} /\ d \in cs
          <6>1. pushed'[d][m] = pushed[d][m] + 1
            BY <3>3, <3>5, <4>2, <5>1, Zenon
          <6>. QED  BY <4>1, <5>1, <6>1
        <5>2. CASE ~(benched'[m] = {} /\ d \in cs)
          <6>1. pushed'[d][m] = pushed[d][m]
            BY <3>3, <3>5, <4>2, <5>2, Zenon
          <6>. QED  BY <4>1, <5>2, <6>1
        <5>. QED  BY <5>1, <5>2
      <4>5. (benched'[m] = {} /\ d \in cs)
              <=> (d \in chainHandlers' /\ Tracks(m, d)' /\ benched'[m] = {})
        BY <2>1, <2>3, <4>3, Zenon
      <4>. QED  BY <4>4, <4>5, Zenon DEF Queued
    <3>6. CASE m # n
      <4>1. pushed'[d][m] = pushed[d][m] /\ benched'[m] = benched[m]
        BY <3>1, <3>3, <3>6
      <4>. QED  BY <1>b, <2>1, <2>3, <4>1 DEF Queued
    <3>. QED  BY <3>5, <3>6
  <2>6. CASE UNCHANGED <<benched, pushed>>
    BY <1>1, <2>1, <2>6
  <2>. QED  BY <1>8, <2>2, <2>4, <2>5, <2>6 DEF Notify
<1>9. ASSUME NEW n \in Nodes, NEW s \in Subnets, Connected(n, s)  PROVE Queued(d, m)'
  <2>. DEFINE cs == {c \in chainHandlers : Subnet[c] = s \/ ~sybilProtectionEnabled}
              on == benched[n] = {} /\ (sybilProtectionEnabled \/ s = Primary)
  <2>1. UNCHANGED <<chainHandlers, sybilProtectionEnabled, benched>>
    BY <1>9 DEF Connected, chainVars
  <2>2. peers'[m] = IF m = n THEN peers[m] \cup {s} ELSE peers[m]
    BY <1>0, <1>9, Zenon DEF Connected, TypeOK
  <2>3. s \notin peers[n] /\ (peers[n] = {} <=> s = Primary)
    BY <1>9 DEF Connected
  <2>4. IF on THEN Push(cs, n, 1) ELSE UNCHANGED pushed
    BY <1>9 DEF Connected
  <2>5. pushed'[d][m] = IF on /\ m = n /\ d \in cs THEN pushed[d][m] + 1 ELSE pushed[d][m]
    <3>. HIDE DEF cs, on
    <3>1. CASE on
      BY <2>4, <3>1, <1>7
    <3>2. CASE ~on
      BY <2>4, <3>2
    <3>. QED  BY <3>1, <3>2
  <2>. QED  BY <1>b, <1>c, <2>1, <2>2, <2>3, <2>5 DEF Queued, Tracks
<1>10. ASSUME NEW n \in Nodes, Disconnected(n)  PROVE Queued(d, m)'
  <2>. DEFINE cs == {c \in chainHandlers : Tracks(n, c)}
  <2>1. UNCHANGED <<chainHandlers, sybilProtectionEnabled, benched>>
    BY <1>10 DEF Disconnected, chainVars
  <2>2. peers'[m] = IF m = n THEN {} ELSE peers[m]
    BY <1>0, <1>10 DEF Disconnected, TypeOK
  <2>3. IF benched[n] = {} THEN Push(cs, n, -1) ELSE UNCHANGED pushed
    BY <1>10 DEF Disconnected
  <2>4. pushed'[d][m] = IF benched[n] = {} /\ m = n /\ d \in cs THEN pushed[d][m] - 1
                                                               ELSE pushed[d][m]
    <3>. HIDE DEF cs
    <3>1. CASE benched[n] = {}
      BY <2>3, <3>1, <1>7, <1>c
    <3>2. CASE benched[n] # {}
      BY <2>3, <3>2
    <3>. QED  BY <3>1, <3>2
  <2>. QED  BY <1>b, <1>c, <2>1, <2>2, <2>4 DEF Queued, Tracks
<1>11. CASE Shutdown
  BY <1>11 DEF Shutdown, NothingPushed, Queued
<1>12. CASE UNCHANGED vars
  BY <1>1, <1>12 DEF vars, chainVars, peerVars
<1>. QED  BY <1>2, <1>3, <1>4, <1>5, <1>6, <1>8, <1>9, <1>10, <1>11, <1>12 DEF Next

(* A chain believes a peer connected exactly when it is connected for the  *)
(* chain's subnet and benched on no chain, for any number of peers, chains *)
(* and subnets.                                                            *)
THEOREM ChainsSeeConnectedPeers == Spec => []ConnectedUnlessBenched
<1>1. Init => PeersInv
  <2>. SUFFICES ASSUME Init  PROVE PeersInv
    OBVIOUS
  <2>1. TypeOK
    BY TypeInit
  <2>2. ConnectedUnlessBenched /\ NoQueueWithoutHandler
    BY DEF Init, ConnectedUnlessBenched, NoQueueWithoutHandler, NothingPushed
  <2>3. BenchesAgree
    BY Zenon DEF Init, BenchesAgree
  <2>. QED  BY <2>1, <2>2, <2>3 DEF PeersInv
<1>2. PeersInv /\ [Next]_vars => PeersInv'
  BY TypeStep, QueuesStep, BenchesStep DEF PeersInv
<1>3. PeersInv => ConnectedUnlessBenched
  BY DEF PeersInv
<1>. QED  BY <1>1, <1>2, <1>3, PTL DEF Spec
=============================================================================
