------------------------------- MODULE Router -------------------------------
(***************************************************************************)
(* The chain router of a node (snow/networking/router/chain_router.go) with the *)
(* parts that call it: a chain's sender, the timeout manager, the            *)
(* benchlists and the peer connections.                                      *)
(*                                                                           *)
(* Requests.  A sender registers a request with the router, which puts it in *)
(* timedRequests, arms a timer for it in a second step, and only then sends  *)
(* it.  A request ends by a response, by a failure of the peer (AppError),   *)
(* by an early failure of the sender or by its timer; each of them runs in a *)
(* goroutine of its own, and the router's lock makes each handleMessage one  *)
(* step.  The timer goroutine takes a timer off its heap and runs the        *)
(* callback later, without the lock.                                         *)
(*                                                                           *)
(* Peers.  A node that any chain has benched is disconnected for every chain.*)
(* The goroutine of a chain's benchlist changes its own set first and calls  *)
(* the router afterwards.  pushed[c][n] is what chain c's queue adds up to:  *)
(* one for every Connected message of n, minus one for every Disconnected.   *)
(*                                                                           *)
(* Times, latencies and failure probabilities are left out: a timer may fire *)
(* at any time, and a node may cross a benching threshold at any time.       *)
(***************************************************************************)
EXTENDS Integers

CONSTANTS
  Nodes,          \* the peers
  Chains,
  Subnets,
  Primary,        \* constants.PrimaryNetworkID
  Subnet,         \* the subnet of each chain
  Requests,
  To,             \* the peer each request is sent to
  From            \* the chain that sends it

ASSUME RouterAssumption ==
  /\ Primary \in Subnets
  /\ Subnet \in [Chains -> Subnets]
  /\ To \in [Requests -> Nodes]
  /\ From \in [Requests -> Chains]

VARIABLES
  sender,         \* how far the sender of each request is
  timedRequests,  \* the requests the router waits for
  handled,        \* those of them the chain has been told about
  timeoutHeap,    \* the requests with a timer
  firing,         \* the request whose callback the timer goroutine runs
  early,          \* early failures on their way to the router
  delivered,      \* what each request's chain was told: answers and failures
  chainHandlers,  \* the chains the router routes to
  removed,        \* the chains that stopped
  executing,      \* the chains whose VM is executing
  closing,
  sybilProtectionEnabled,  \* configured, never changed
  peers,          \* the subnets each connected peer tracks
  benched,        \* the chains each peer is benched on, for the router
  benchlist,      \* the peers benched by each chain's benchlist
  work,           \* the call to the router each benchlist's goroutine is about to make
  pushed          \* Connected minus Disconnected messages, per chain and peer

requestVars == <<sender, timedRequests, handled, timeoutHeap, firing, early, delivered>>
chainVars == <<chainHandlers, removed, executing, closing, sybilProtectionEnabled>>
peerVars == <<peers, benched, benchlist, work, pushed>>
vars == <<requestVars, chainVars, peerVars>>

(* Types; only a request the router waits for is marked as handled.          *)
TypeOK ==
  /\ sender \in [Requests -> {"idle", "registered", "armed", "done"}]
  /\ timedRequests \subseteq Requests
  /\ handled \subseteq timedRequests
  /\ timeoutHeap \subseteq Requests
  /\ firing \subseteq Requests
  /\ early \subseteq Requests
  /\ delivered \in [Requests -> Nat]
  /\ chainHandlers \subseteq Chains
  /\ removed \subseteq Chains
  /\ executing \subseteq Chains
  /\ closing \in BOOLEAN
  /\ sybilProtectionEnabled \in BOOLEAN
  /\ peers \in [Nodes -> SUBSET Subnets]
  /\ benched \in [Nodes -> SUBSET Chains]
  /\ benchlist \in [Chains -> SUBSET Nodes]
  /\ work \in [Chains -> {<<>>} \cup {"Benched", "Unbenched"} \X Nodes]
  /\ pushed \in [Chains -> [Nodes -> Int]]

(***************************************************************************)
(* Requests                                                                *)
(***************************************************************************)

(* The first half of RegisterRequest, under the router's lock.  A chain sends*)
(* while it runs; when the node shuts down it may still run after the router *)
(* has dropped it.                                                           *)
RegisterRequest(r) ==
  /\ sender[r] = "idle"
  /\ From[r] \in chainHandlers \/ (closing /\ From[r] \in removed)
  /\ sender' = [sender EXCEPT ![r] = IF closing THEN "armed" ELSE "registered"]
  /\ timedRequests' = IF closing THEN timedRequests ELSE timedRequests \cup {r}
  /\ UNCHANGED <<handled, timeoutHeap, firing, early, delivered, chainVars, peerVars>>

(* The second half: the timeout manager's Put.                               *)
RegisterTimeout(r) ==
  /\ sender[r] = "registered"
  /\ sender' = [sender EXCEPT ![r] = "armed"]
  /\ timeoutHeap' = timeoutHeap \cup {r}
  /\ UNCHANGED <<timedRequests, handled, firing, early, delivered, chainVars, peerVars>>

(* The request is sent; the sender reports a failure at once when it was not *)
(* sent or when the peer is benched by this chain, although it was sent.     *)
Send(r, sent) ==
  /\ sender[r] = "armed"
  /\ sender' = [sender EXCEPT ![r] = "done"]
  /\ early' = IF sent /\ To[r] \notin benchlist[From[r]] THEN early ELSE early \cup {r}
  /\ UNCHANGED <<timedRequests, handled, timeoutHeap, firing, delivered, chainVars, peerVars>>

(* The first checks of handleMessage: the message is dropped unless the      *)
(* router is open and routes to the chain.                                   *)
Routed(r) == ~closing /\ From[r] \in chainHandlers

(* A failure or answer of r that passes the checks is pushed to the chain    *)
(* unless the chain was told already.                                        *)
PushOnce(r) ==
  delivered' = [delivered EXCEPT ![r] = IF r \in handled THEN @ ELSE @ + 1]

Forget(r) ==
  /\ timedRequests' = timedRequests \ {r}
  /\ handled' = handled \ {r}

(* Faulty: an early failure does not mark the request as handled.            *)
EarlyFailureUnmarked(r) ==
  /\ r \in early
  /\ early' = early \ {r}
  /\ IF Routed(r) /\ r \in timedRequests THEN PushOnce(r) ELSE UNCHANGED delivered
  /\ UNCHANGED <<sender, timedRequests, handled, timeoutHeap, firing, chainVars, peerVars>>

(* handleMessage of an early failure: the request stays registered, and is   *)
(* marked.                                                                   *)
EarlyFailure(r) ==
  /\ r \in early
  /\ early' = early \ {r}
  /\ IF Routed(r) /\ r \in timedRequests
       THEN handled' = handled \cup {r} /\ PushOnce(r)
       ELSE UNCHANGED <<handled, delivered>>
  /\ UNCHANGED <<sender, timedRequests, timeoutHeap, firing, chainVars, peerVars>>

(* handleMessage of an AppError of the peer.                                 *)
ExternalFailure(r) ==
  /\ sender[r] # "idle"
  /\ Routed(r)
  /\ r \in timedRequests
  /\ timeoutHeap' = timeoutHeap \ {r}
  /\ Forget(r)
  /\ PushOnce(r)
  /\ UNCHANGED <<sender, firing, early, chainVars, peerVars>>

(* handleMessage of a response: dropped while the chain executes, and when   *)
(* no such request is registered.                                            *)
Response(r) ==
  /\ sender[r] # "idle"
  /\ Routed(r)
  /\ From[r] \notin executing
  /\ r \in timedRequests
  /\ timeoutHeap' = timeoutHeap \ {r}
  /\ Forget(r)
  /\ PushOnce(r)
  /\ UNCHANGED <<sender, firing, early, chainVars, peerVars>>

(* The timer goroutine takes a due timer off the heap and unlocks.           *)
Fire(r) ==
  /\ firing = {}
  /\ r \in timeoutHeap
  /\ timeoutHeap' = timeoutHeap \ {r}
  /\ firing' = {r}
  /\ UNCHANGED <<sender, timedRequests, handled, early, delivered, chainVars, peerVars>>

(* Faulty: a timeout is dropped, like a response, while the chain executes.  *)
TimeoutUnlessExecuting(r) ==
  /\ r \in firing
  /\ firing' = {}
  /\ IF Routed(r) /\ From[r] \notin executing /\ r \in timedRequests
       THEN Forget(r) /\ PushOnce(r)
       ELSE UNCHANGED <<timedRequests, handled, delivered>>
  /\ UNCHANGED <<sender, timeoutHeap, early, chainVars, peerVars>>

(* The callback: handleMessage of the failure, which clears the request.     *)
Timeout(r) ==
  /\ r \in firing
  /\ firing' = {}
  /\ IF Routed(r) /\ r \in timedRequests
       THEN Forget(r) /\ PushOnce(r)
       ELSE UNCHANGED <<timedRequests, handled, delivered>>
  /\ UNCHANGED <<sender, timeoutHeap, early, chainVars, peerVars>>

(***************************************************************************)
(* Peers                                                                   *)
(***************************************************************************)

(* Whether the router's messages about n concern chain c.                    *)
Tracks(n, c) == peers[n] # {} /\ (Subnet[c] \in peers[n] \/ ~sybilProtectionEnabled)

(* A Connected (+1) or Disconnected (-1) message of n to the chains cs.      *)
Push(cs, n, d) ==
  pushed' = [c \in Chains |-> [pushed[c] EXCEPT ![n] = IF c \in cs THEN @ + d ELSE @]]

NothingPushed == [n \in Nodes |-> 0]

(* A chain is created once.                                                  *)
AddChain(c) ==
  /\ ~closing
  /\ c \notin chainHandlers \cup removed
  /\ chainHandlers' = chainHandlers \cup {c}
  /\ pushed' = [pushed EXCEPT ![c] =
       [n \in Nodes |-> IF Tracks(n, c) /\ benched[n] = {} THEN @[n] + 1 ELSE @[n]]]
  /\ UNCHANGED <<requestVars, removed, executing, closing, sybilProtectionEnabled,
                 peers, benched, benchlist, work>>

(* The chain stopped; its queue and its flags go with it.                    *)
removeChain(c) ==
  /\ c \in chainHandlers
  /\ chainHandlers' = chainHandlers \ {c}
  /\ removed' = removed \cup {c}
  /\ executing' = executing \ {c}
  /\ pushed' = [pushed EXCEPT ![c] = NothingPushed]
  /\ UNCHANGED <<requestVars, closing, sybilProtectionEnabled, peers, benched, benchlist, work>>

Shutdown ==
  /\ ~closing
  /\ closing' = TRUE
  /\ chainHandlers' = {}
  /\ removed' = removed \cup chainHandlers
  /\ executing' = {}
  /\ pushed' = [c \in Chains |-> NothingPushed]
  /\ UNCHANGED <<requestVars, sybilProtectionEnabled, peers, benched, benchlist, work>>

(* ExecuteAll sets the chain's Executing flag, and takes it back at its end. *)
Execute(c) ==
  /\ c \in chainHandlers
  /\ executing' = IF c \in executing THEN executing \ {c} ELSE executing \cup {c}
  /\ UNCHANGED <<requestVars, chainHandlers, removed, closing, sybilProtectionEnabled, peerVars>>

(* The network reports a peer for the primary network first, then for the    *)
(* other subnets the peer tracks.                                            *)
Connected(n, s) ==
  /\ ~closing
  /\ s \notin peers[n]
  /\ peers[n] = {} <=> s = Primary
  /\ peers' = [peers EXCEPT ![n] = @ \cup {s}]
  /\ IF benched[n] = {} /\ (sybilProtectionEnabled \/ s = Primary)
       THEN Push({c \in chainHandlers : Subnet[c] = s \/ ~sybilProtectionEnabled}, n, 1)
       ELSE UNCHANGED pushed
  /\ UNCHANGED <<requestVars, chainVars, benched, benchlist, work>>

Disconnected(n) ==
  /\ ~closing
  /\ peers[n] # {}
  /\ peers' = [peers EXCEPT ![n] = {}]
  /\ IF benched[n] = {}
       THEN Push({c \in chainHandlers : Tracks(n, c)}, n, -1)
       ELSE UNCHANGED pushed
  /\ UNCHANGED <<requestVars, chainVars, benched, benchlist, work>>

(* Faulty: a peer that another chain benched already is disconnected again.  *)
BenchedAgain(c, n) ==
  /\ benched' = [benched EXCEPT ![n] = @ \cup {c}]
  /\ Push({d \in chainHandlers : Tracks(n, d)}, n, -1)

(* The router's Benched and Unbenched, called by the benchlist of c.         *)
Benched(c, n) ==
  /\ benched' = [benched EXCEPT ![n] = @ \cup {c}]
  /\ IF benched[n] = {}
       THEN Push({d \in chainHandlers : Tracks(n, d)}, n, -1)
       ELSE UNCHANGED pushed

Unbenched(c, n) ==
  /\ benched' = [benched EXCEPT ![n] = @ \ {c}]
  /\ IF benched[n] \ {c} = {}
       THEN Push({d \in chainHandlers : Tracks(n, d)}, n, 1)
       ELSE UNCHANGED pushed

(***************************************************************************)
(* Benchlists                                                              *)
(***************************************************************************)

(* processObservation: n crosses the benching threshold (and there is room   *)
(* for it, which tryMakeRoom may have made by unbenching others).            *)
Bench(c, n) ==
  /\ c \in chainHandlers \cup removed
  /\ work[c] = <<>>
  /\ n \notin benchlist[c]
  /\ benchlist' = [benchlist EXCEPT ![c] = @ \cup {n}]
  /\ work' = [work EXCEPT ![c] = <<"Benched", n>>]
  /\ UNCHANGED <<requestVars, chainVars, peers, benched, pushed>>

(* processObservation, processTimeouts or tryMakeRoom: n has recovered, sat  *)
(* out, or makes room for another peer.                                      *)
Unbench(c, n) ==
  /\ work[c] = <<>>
  /\ n \in benchlist[c]
  /\ benchlist' = [benchlist EXCEPT ![c] = @ \ {n}]
  /\ work' = [work EXCEPT ![c] = <<"Unbenched", n>>]
  /\ UNCHANGED <<requestVars, chainVars, peers, benched, pushed>>

(* The goroutine calls the router, which ignores the call when it is closing.*)
Notify(c) ==
  /\ work[c] # <<>>
  /\ work' = [work EXCEPT ![c] = <<>>]
  /\ \/ ~closing /\ work[c][1] = "Benched" /\ Benched(c, work[c][2])
     \/ ~closing /\ work[c][1] = "Unbenched" /\ Unbenched(c, work[c][2])
     \/ closing /\ UNCHANGED <<benched, pushed>>
  /\ UNCHANGED <<requestVars, chainVars, peers, benchlist>>

(***************************************************************************)
(* The specification                                                       *)
(***************************************************************************)

Init ==
  /\ sender = [r \in Requests |-> "idle"]
  /\ timedRequests = {}
  /\ handled = {}
  /\ timeoutHeap = {}
  /\ firing = {}
  /\ early = {}
  /\ delivered = [r \in Requests |-> 0]
  /\ chainHandlers = {}
  /\ removed = {}
  /\ executing = {}
  /\ closing = FALSE
  /\ sybilProtectionEnabled \in BOOLEAN
  /\ peers = [n \in Nodes |-> {}]
  /\ benched = [n \in Nodes |-> {}]
  /\ benchlist = [c \in Chains |-> {}]
  /\ work = [c \in Chains |-> <<>>]
  /\ pushed = [c \in Chains |-> NothingPushed]

Next ==
  \/ \E r \in Requests :
       \/ RegisterRequest(r)
       \/ RegisterTimeout(r)
       \/ \E sent \in BOOLEAN : Send(r, sent)
       \/ EarlyFailure(r)
       \/ ExternalFailure(r)
       \/ Response(r)
       \/ Fire(r)
       \/ Timeout(r)
  \/ \E c \in Chains :
       \/ AddChain(c)
       \/ removeChain(c)
       \/ Execute(c)
       \/ \E n \in Nodes :
            \/ Bench(c, n)
            \/ Unbench(c, n)
       \/ Notify(c)
  \/ \E n \in Nodes :
       \/ \E s \in Subnets : Connected(n, s)
       \/ Disconnected(n)
  \/ Shutdown

Spec == Init /\ [][Next]_vars

(* A sender that has registered a request goes on to send it, a goroutine    *)
(* started for an early failure runs, and the timer goroutine takes every    *)
(* timer off its heap and runs its callback.  Nothing is asked of the peers, *)
(* the chains or the benchlists.                                             *)
Fairness ==
  /\ \A r \in Requests :
       /\ WF_vars(RegisterTimeout(r))
       /\ WF_vars(\E sent \in BOOLEAN : Send(r, sent))
       /\ WF_vars(EarlyFailure(r))
       /\ SF_vars(Fire(r))
       /\ WF_vars(Timeout(r))

FairSpec == Spec /\ Fairness

(***************************************************************************)
(* Properties                                                              *)
(***************************************************************************)

(* A chain is told at most once how a request ended, whichever of response,  *)
(* AppError, early failure and timeout come, and in whatever order they race *)
(* (the handled flag and the deletions of handleMessage); and a request is   *)
(* forgotten only once its chain was told.                                   *)
ToldExactlyOnce ==
  /\ TypeOK
  /\ \A r \in Requests :
       /\ delivered[r] <= 1
       /\ r \in timedRequests => (delivered[r] = 1 <=> r \in handled)
       /\ r \notin timedRequests /\ sender[r] # "idle" /\ ~closing => delivered[r] = 1

(* A chain believes a peer connected exactly when it is connected for the    *)
(* chain's subnet and benched on no chain, and never hears Connected or      *)
(* Disconnected twice in a row: whatever the order in which connections,     *)
(* benches of several chains and the creation of chains reach the router.    *)
ConnectedUnlessBenched ==
  \A c \in chainHandlers, n \in Nodes :
    pushed[c][n] = IF Tracks(n, c) /\ benched[n] = {} THEN 1 ELSE 0

(* A chain is told how every request it registers ends, unless the chain or  *)
(* the node stops: a benched or silent peer, a response dropped while the    *)
(* chain executes, and races between them leave no request without an end.   *)
EveryRequestEnds ==
  \A r \in Requests :
    sender[r] # "idle" ~> (delivered[r] = 1 \/ closing \/ From[r] \in removed)

(* "Every registered request must be cleared either by receiving a valid     *)
(* reply and passing it to the appropriate chain or by a timeout" (the       *)
(* comment of RegisterRequest), while the node runs.                         *)
EveryRequestIsCleared ==
  \A r \in Requests : r \in timedRequests ~> (r \notin timedRequests \/ closing)

=============================================================================
