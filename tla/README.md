# Snowman in TLA+

A verification project for the part of AvalancheGo that decides and fetches
blocks: the TLA+ modules in this directory model `snow/consensus/snowball`,
`snow/consensus/snowman` with its polls, the engine in `snow/engine/snowman`, the
bootstrapper in `snow/engine/snowman/bootstrap`, and the request handling of
`snow/networking`. TLC checks them on small instances, and TLAPS proves theorems
about many of them for every value of their constants.
`PROJECT.json` lists the components, runs, mutants, hazards and theorems, and
maps every definition to the lines it models.

## The system

AvalancheGo is a blockchain node. For every chain it runs

| part | source | state | operations |
|---|---|---|---|
| snowball instances | `snow/consensus/snowball/*_snowflake.go`, `*_slush.go`, `*_snowball.go` | a preference, one confidence counter per termination condition, a final flag | `RecordPoll`, `RecordUnsuccessfulPoll`, `Extend` |
| snowball tree | `snow/consensus/snowball/tree.go` | a patricia tree over the bits of the choices, an instance and a pending-reset flag per node | `Add`, `RecordPoll`, `RecordUnsuccessfulPoll` |
| snowman consensus | `snow/consensus/snowman/topological.go`, `snowman_block.go` | the tree of processing blocks, a snowball tree per block with children, the last accepted block, the cached preferred branch | `Initialize`, `Add`, `RecordPoll` |
| polls | `snow/consensus/snowman/poll` | outstanding polls, oldest first; answers so far and validators waited for | `Add`, `Vote`, `Drop` |
| engine | `snow/engine/snowman` | blocks being fetched, blocks and votes that wait for others, outstanding polls | message handlers, `issue`, `deliver`, `repoll` |
| job scheduler | `snow/engine/snowman/job` | jobs by dependency | `Schedule`, `Fulfill`, `Abandon` |
| bootstrapper | `snow/engine/snowman/bootstrap` | fetched blocks and their intervals on disk, missing blocks, requests | `Start`, `startSyncing`, `Ancestors`, `tryStartExecuting`, `execute` |
| router, timeouts, benchlist, sender | `snow/networking`, `utils/timer` | outstanding requests, timers, chains, peers, benched peers | `RegisterRequest`, `handleMessage`, `Connected`, `Benched`, `AddChain`, ... |
| VMs | `vms/*`, `graft/*` | the ledgers | `BuildBlock`, `Verify`, `Accept`, `Reject` |
| everything else | `network`, `database`, `x`, `chains`, `node`, `api`, `wallet`, `simplex`, ... | see `PROJECT.json` | |

How they interact. The engine issues a verified block with `Topological.Add`,
samples K validators and adds a poll to the poll set. Each answer (or failed
query) becomes a `Vote` (or `Drop`) on the poll set, which hands over, oldest
first, the bags of votes of the polls that finished. The engine records each bag
with `Topological.RecordPoll`. That turns the votes for blocks into votes for
children along one branch and records them in the snowball tree of every block
of the branch. A tree passes the votes down to its instances. When the tree of
the last accepted block is final, its preferred child is accepted and the rest
is rejected. Accept and Reject are calls to the VM.

A block whose parent is unknown waits in the engine, as a job of the scheduler,
while the parent is asked for; so does a vote for a block that is not issued yet.
Issuing a block resolves the jobs that wait for it, which issues more blocks and
records more votes, inside the same call. Queries and block requests go through a
sender, which registers them with the router; the router delivers a response, or a
failure made by the sender, by the peer or by a timer. Before the engine runs, the
bootstrapper fetches and executes the blocks that the network has accepted.

What makes it hard:

- confidence has to be reset by every poll an instance does not win, but the
  code does not visit those instances. It marks a block (`shouldFalter`) or a
  node (`shouldReset`) and carries the reset out when a later poll gets there;
- blocks and choices are added between polls and split nodes that have counters
  and pending resets;
- one poll can finalize several instances and accept several blocks;
- the preferred branch is cached and repaired incrementally;
- polls overlap, finish out of order, and stop before all answers are in;
- delivering a block runs jobs that deliver blocks and decide others, the ones
  being delivered included;
- responses, failures and timers of one request race in goroutines of their own,
  and the code unlocks between its steps;
- the bootstrapper may crash between any two writes;
- Go map iteration makes the traversal order random.

What must be true: one chain of accepted blocks, each decision made once and
kept, nothing decided without beta consecutive polls for it, a preference that
is what the instances say, no lost or double-counted vote, no job or request that
nothing will end, the persisted intervals those of the persisted blocks, blocks
executed in order, and progress when the network agrees.

## Modules

| module | models | checked by |
|---|---|---|
| `Snowflake` | the instances as values; each operation maps an instance to the next one | |
| `SnowInstance` | one decision over its life, with the history of its polls | `instance`, `finalized_freezes` |
| `SnowballTree` | `tree.go`: nodes in a table indexed by the bits in front of them; a poll as an update of all nodes on its path | |
| `TreeInstance` | one tree over its life | `tree` |
| `TreeRecursion` | the recursive methods of `tree.go` as they are written, compared with `SnowballTree` | `tree` |
| `EagerTree` | abstract: one snowflake per bit and prefix, told of every poll | `tree` |
| `Chain` | the blocks a chain could have | |
| `Consensus` | abstract: what the engine may rely on; blocks are added, a poll accepts some and rejects what conflicts | `snowman` |
| `BlockTree` | what a poll means for each block | |
| `KahnTraversal` | `calculateInDegree` and `pushVotes` step by step, in every iteration order | `kahn` |
| `Topological` | `Topological` with its handlers `Add` and `RecordPoll` as actions | `snowman` |
| `TopologicalLoop` | the loop of `vote` as it is written, compared with `Topological` | `snowman_eager` |
| `EagerSnowman` | abstract: every instance is told of every poll, nothing is cached | `snowman_eager` |
| `SnowmanRefinement` | the mappings from `Topological` to `EagerSnowman` and `Consensus` | `snowman`, `snowman_eager` |
| `SnowmanLiveness` | `Topological` in a network that agrees from some moment on | `snowman` |
| `EarlyTermPoll` | `earlyTermPoll`: when a poll may stop | |
| `EarlyTermSound` | a poll that stops early, recorded in `Topological` | `early_termination` |
| `PollSet` | `poll.set`: overlapping polls | `poll_set` |
| `Engine` | the engine with its job scheduler and ancestor tree, over `Consensus` | `engine` |
| `Router` | the chain router with a sender, the timeout manager, the benchlists and the connections | `router`, `router_cleared` |
| `IntervalTree` | `interval.Tree` in memory and on disk | `bootstrap` |
| `Bootstrap` | the bootstrapper over its life, crashes included | `bootstrap` |
| `SnowInstanceProofs`, `ConsensusProofs`, `PollSetProofs`, `RouterProofs`, `IntervalTreeProofs`, `BootstrapProofs` | TLAPS proofs, see below | |
| `MC*` | constants and inputs for TLC | |

How state corresponds to code. A snowflake is the record of its fields. A
`SnowballTree` is `[root, shouldReset, nodes]`. The key of a node is the prefix
it assumes decided, so a child pointer is the key where the parent ends, and a
node that finalizes is replaced by its child by moving `root`. The variables of
`Topological` are the fields of the Go struct, plus the two sets `accepted` and
`rejected` of the blocks whose `Accept` or `Reject` was called. `RecordPoll` is
one action: the traversal, the votes, the acceptances, the rejections and the
repair of the preferred branch. The traversal is the set of blocks with
AlphaPreference votes above them (`Polled`), which `KahnTraversal` shows to be
what the code computes. The loop is described by sets (`Accepting`,
`NewlyRejected`, ...), which `TopologicalLoop` shows to be what the loop
computes. In `PollSet` a validator that was drawn twice holds two slots. The
linked hashmap is a sequence, and the results handed over are a history.

`Engine` replaces the Go call stack by the variable `stack`: the calls still to be
made, the next one first. A call is a step, so that a restart may come after each,
and a message is taken when the stack is empty, as the chain's lock has it. A job
is a record in `dependents`; a voter counts its dependencies in `unresolved`. The
outcome of a poll is any that `Consensus` allows, the outcome of `Verify`, the
connected stake and the sampled validators are open. `getProcessingAncestor`, which
moves a vote to the nearest processing ancestor, is thereby left out: it only has
a say in what a poll decides. Request ids are taken again once nothing refers to
them. `Router` counts in `delivered` what each request's chain was told, and in
`pushed` the Connected minus the Disconnected messages in a chain's queue. In
`Bootstrap` a block is its height, because the blocks the beacons report lie on
one chain; `intervals` and `blocks` are the database, `lastAccepted` is the VM's,
and all other variables are lost in a crash. A handler is split where it writes.

Operators under a comment that starts with "Faulty" are deliberate mistakes, one
for each property. Replacing the definition that follows by the faulty one must
make TLC find a violation of the property.

## Runs

| run | instance | what it shows |
|---|---|---|
| `instance` | K=5, AlphaPreference=3, conditions (3,4), (4,3), (5,2), two choices, five polls | the counters are exactly the current runs, a decision needs a run of beta, extending is seamless |
| `finalized_freezes` | the same | a violation: see Findings |
| `tree` | K=3, alphas 2 and 3, beta=2, up to three of four three-bit choices | shape, preferences, only the root decides, `tree.go`'s recursion agrees, and deferred resets and multi-bit nodes cannot be observed |
| `snowman` | K=3, alphas 2 and 3, beta=2, four blocks: two competing pairs, one on top of the other | correct preferred branch, nothing decided is left processing, `Topological` implements `Consensus`; once polls agree, the preference is accepted and every block is decided |
| `snowman_eager` | three blocks, beta=3 | the loop of `vote` agrees with `Topological`, calls to the VM come in order, and deferred falters, resets and the cached branch cannot be observed |
| `kahn` | K=4, AlphaPreference=3, up to seven blocks | the vote stack does not depend on the iteration order |
| `early_termination` | K=5, alphas 3 and 5, beta=1, three competing blocks, votes for the genesis as well | stopping early changes no instance |
| `poll_set` | two validators with three slots, two polls | results in order, once, with all the votes counted; every poll ends |
| `engine` | three blocks and the genesis: two competing blocks, one of them an oracle block with an option; one validator, two polls in flight, one concurrent repoll | no job waits for what nobody will bring, no vote is lost, no block is issued twice or left behind, the engine does not stop polling, one accepted chain across restarts |
| `router` | one peer, two chains on two subnets, one request, sybil protection on or off | each chain is told once how a request ended, and believes a peer connected exactly when it is |
| `router_cleared` | the same | a violation: see Findings |
| `bootstrap` | heights up to five, batches of two | the database is consistent at every crash, no gap is forgotten, blocks are executed in order, syncing ends |

Bounds. `MaxPolls` in `SnowInstance` bounds the history: five polls are enough to
build up, lose and rebuild a run of four, and to finalize by each of the three
conditions. `MaxAdded` and `MaxConfidence` bound a tree; counters above beta only
occur in a finalized unary leaf. Three bits are the fewest that give nodes with
several bits on both sides of a split, and the four choices split nodes at the first
bit, in the middle, and when one bit is left. `Topological` needs no bound: blocks are
finite and a final instance leaves the tree. With two competing pairs a poll can
accept two blocks or reject a subtree. `PollSet` has `MaxPolls`: with two polls the
younger can finish first and wait for the older.

`early_termination` has thresholds two apart: only then can the preference be reached
and the confidence be out of reach while answers are still outstanding. Its blocks all
compete on the genesis, so that two of them share a prefix that the third does not,
and votes are carried over one level only. Two competing blocks with a third on top of
one of them were run as well, and so was K=7 with alphas 4 and 6; both hold. The
latter is left out for its running time, as are `snowman_eager` with four blocks and
with alphaConfidence equal to AlphaPreference.

In `engine`, `MaxBuilds` bounds the blocks the VM builds, and `PollIDs` the queries in
flight: an id is taken again once nothing refers to it, and a query that finds none is
dropped, as it is when too little stake is connected. Two ids are enough for a poll
that ends behind an older one, and for a vote that waits while the results of another
poll are recorded. The oracle block is there because delivering it delivers its option
inside the same call, and the block that competes with it because a decision can then
reject the parent of a block that is about to be delivered. There is one validator to
keep the instance small; several answers to one poll are the subject of `poll_set`.
One poll at a time with two validators, over an oracle block with two options and a
child of one of them, was run as well and holds. The VM may build on any block, also
one that is pending, asked for or unknown. `router` has one request: requests do not
share state, but for the timer goroutine, and `RouterProofs` covers any number of
them. Two chains are enough for a peer benched by both. In `bootstrap`, `MaxHeight`
leaves room for two intervals with a gap, and for a batch that ends in the middle of
one. A request there is known by its block: a late answer to a request of an earlier
round is an answer to the one that was sent again.

Ballots are listed in ascending order, because the code only counts votes.
Deadlock is checked in `engine` and `bootstrap`, which never stop. The others stop
at their bound, when every block is decided or when the node is shut down.

Fairness.

- `poll_set` assumes that each query is answered or fails. Every request is
  registered with the timeout manager, which produces a failure message if no
  response arrives; `EveryRequestEnds` of `router` is that fact.
- `router` assumes that a sender that registered a request goes on to send it,
  that the goroutine of an early failure runs, and that the timer goroutine takes
  each due timer off its heap and runs its callback. Taking a timer is strongly
  fair, because the goroutine handles one at a time. Nothing is asked of the peers.
- `bootstrap` assumes that the bootstrapper's own steps go on, and that a block
  asked for again and again is answered at some time: `GetAncestorsFailed` sends
  the request again, to a peer that the peer tracker selects, without an end.
- `snowman` assumes that polls go on while the preference is not accepted
  (`Engine.repoll` is called after every poll that leaves a block processing,
  `voter.go:72`), and that the network agrees from some moment on. The second is
  not a promise of the code; without it nothing is decided, and the property is
  that nothing inside the node then stands in the way. `PollsGoOn` spells weak
  fairness out with the action's guard. The parity of `ts.pollNumber` makes every
  poll a step: without it the fairness would rule out the behaviour in which polls
  go on and change nothing, the one that the properties are there to exclude.

## Findings

`unary_snowflake.go:41` says that `finalized` "prevents the state from changing
after the required number of consecutive polls has been reached". The methods of
`unarySnowflake` do not look at it, and a decided unary instance goes on changing
its counters (`finalized_freezes`). The binary and n-ary types return early in
`RecordPoll`. Decisions are not affected: `DecisionIsFinal` holds and is proved.

`chain_router.go:148` says that "Every registered request must be cleared either by
receiving a valid reply and passing it to the appropriate chain or by a timeout."
`handleMessage` drops a message for a chain it does not know before it looks at the
request (`chain_router.go:265`), and `removeChain` leaves the requests of the chain
alone. A request that is outstanding when its chain stops stays in `timedRequests`
(`router_cleared`), where the health check goes on counting it.

Two observations without a run of their own. The comment at `engine.go:1126` says
that an ancestor other than the block voted for is guaranteed to be processing; the
root of an unverified tree can also be the last accepted block, and the loop below
the comment then drops the vote. When an option of an oracle block is itself a
pending block, delivering the oracle block first runs the option's job, which finds
the option processing and abandons what waits for it. The blocks that wait for the
option are then kept as unverified blocks instead of being issued, although the
option is processing.

## Proofs

`SnowInstanceProofs` proves, for every K, AlphaPreference, list of termination
conditions in the documented order, set of choices and length of history, that
one decision satisfies `TypeOK`, `ConfidenceOrdered`, `ConfidenceIsRun`,
`FinalizedByRun`, `PreferenceIsLast`, `SnowballPrefersStrongest`, `ExtendIsSeamless`
and `DecisionIsFinal`.

Assumptions: `ParametersVerify` (what `Parameters.Verify` checks and the order of
the conditions, with equal thresholds allowed) and `ChoicesAssumption`. TLC
evaluates both.

The argument. None of the properties is inductive alone: that a decision needs a
run of beta follows only from what the counters mean, and what they mean needs
their order, because the loop leaves at the first threshold that is missed. The
invariant `Inv` is the types, `ExtendIsSeamless`, and `Sound`. An undecided
instance has ordered counters, each the length of the run that ends with the last
poll, prefers the last successful choice, and has seen no run of beta; for a
decided one there was a run for its preference. The lemmas are about arbitrary
histories and counters: what one poll does to each counter (`UndecidedStep`), to
their order (`OrderedStep`), to the streaks (`StreakStep`), that a poll that does
not finalize completes no run (`NoRunStep`) and one that does completes one
(`FinalizingRun`). `NextInv` has one case per action, and in a successful poll for
another choice the cleared counters start a new streak. `StrengthTheorem` needs no
strengthening: `SuccessesStep` says by how much a poll changes the number of
successes in the history, and `SnowballCounts` that the counters follow.

`ConsensusProofs` proves, for every tree of blocks, that `ConsensusSpec` keeps
`AcceptedIsChain`: what was accepted is one chain up to the last accepted block, and
nothing on it was rejected. The assumption is `BlocksAssumption`: the blocks are a
tree, each with its height. That ancestors are lower, and that the ancestors of a
block lie on one line, is proved from it by induction over heights. The property does
not say why a rejected block cannot come back. `DecidedInv` does: processing blocks
lie above the last accepted block with everything in between, and a rejected block is
neither below the last accepted block nor above it, so its parent is never one that
`Add` takes. The run `snowman` checks on its instance that `Topological` implements
`ConsensusSpec`.

Induction over data. The library's induction theorems are out of the provers' reach,
because they take a predicate as a parameter. A set of numbers that is not empty has a
least element, though (`LeastNat`, from `WFMin`), so the exceptions to a claim, as a
set, have a lowest one (`LowestBlock`). The ancestors of a block, the length of a
finished front of polls and the fold with which a batch of blocks is added to the
interval tree (`FoldExists`, `AddAllAdds`) are reasoned about in this way.

`PollSetProofs` proves `HandedOverInOrder`, `ValidatorsCountOnce` and `VotesAreKept`
for every number of polls, slots, validators and blocks. The invariant `Inv` adds to
the types what a poll has not counted yet (`AsDrawn`): it still waits for the slots of
a validator as they were drawn, for all of them or for none, and never for one it has
counted. Without it an answer could count some of a validator's slots twice. Every
answer, dropped query or issued block changes the polls where they are (`AnsweredKeeps`,
`DroppedKeeps`), and then the finished ones at the front move to the results
(`FrontIs`, `MovesKeeps`).

`RouterProofs` proves `ToldExactlyOnce` and `ConnectedUnlessBenched` for any number
of peers, chains, subnets and requests, from `RouterAssumption` (types). The first
needs one more conjunct (`Told`): a request that was not registered is unknown and
nothing was delivered for it. The second needs two. A chain without a handler has
nothing in its queue, so that `AddChain` starts from zero. And the router agrees
with the benchlists, but for the call a benchlist's goroutine is about to make
(`BenchesAgree`): without it an `Unbenched` for a peer that is not benched would
connect the peer a second time. There is one lemma per conjunct, with one step per
action.

`IntervalTreeProofs` proves, for every well-formed tree, database and height, that
`Contains` decides membership, that `Add` and `Remove` change the set of heights by
exactly the height and keep the tree well formed, and that a tree read back after
the writes of either is the tree in memory. Heights are integers there, as in
the code's own terms: `AdjacentToLowerBound` and `AdjacentToUpperBound` exclude the
largest uint64 before they add one. The lemmas say that the one or two
intervals the code looks up are all those that matter (`HoldingIsAny`,
`NeighboursAreAny`), and what a database holds after some writes (`WrittenTree`).

`BootstrapProofs` proves `IntervalsMatchBlocks`, `GapsAreRequested` and
`ExecutesInOrder` for every height and batch size, crashes and restarts included. The
invariant has three parts. `StoreInv`: the intervals on disk are those of the blocks
on disk, and in the middle of a batch the open batch holds the intervals that the tree
in memory was read from. `SyncInv`: the gaps are missing and the missing blocks are
asked for. `OrderInv`: while blocks are executed there is no gap between the last
accepted block and the highest one, so that the next block of the iterator is the
child of the one before. `process` adds blocks by a fold over a set of heights, which
`AddAllAdds` reduces to `AddIsInsertion` and `AddIsPersisted`.

Only model-checked, and why.

- Liveness (`EveryPollEnds`, `EveryRequestEnds`, `SyncingEnds`, the properties of
  `SnowmanLiveness`): the prover has no rule for fairness and `ENABLED`.
- `TreeRecursion` and `TopologicalLoop`: they are written with recursive operators,
  which the prover cannot use.
- The invariants of `Engine`, but for `AcceptedIsChain`, which `ConsensusProofs` proves
  of the consensus that `Engine` is written over: they speak of the moments between
  two messages, and hold because of what is on the stack in the middle of one.
- `WellFormed`, `PreferencesAgree` and `OnlyRootFinalizes` of `TreeInstance`, the
  invariants of `Topological` and `KahnTraversal`, `EarlyTerminationIsSound`, and the
  refinements `EagerSpec` and `ConsensusSpec`: not proved yet. A poll there updates a
  table of nodes or a whole tree of blocks in one step, and a proof needs the theory
  of the operators of `SnowballTree` and `BlockTree` first.

## Not modelled

Errors of `Accept`, `Reject` or the block acceptor end the chain's engine, so the
state after them is never used. Metrics, logs and health checks change no
consensus state. The unary and binary snowball types are only created by
`SnowballFactory`, which the node does not use.

In the modelled parts. The polls with which the bootstrapper asks the beacons for
the frontier are one step with any outcome, and `execute`'s iterator, which is
opened again after a batch, sees the blocks that are left. A benchlist may bench
or unbench a peer at any time: its averages, its limit on benched stake and the
evictions that the limit causes are left out. Liveness of the whole engine is out of
TLC's reach; `DependenciesResolve`, `NoVoteIsLost` and `ProcessingIsPolled` are the
invariants behind it. What a change of the block tree does to a poll that has
stopped early and waits behind an older one is not covered: `early_termination`
looks at the tree of the moment of the decision.

The other components are listed in `PROJECT.json` with a reason.

## Plan

1. Validators, uptime, proposervm windows, shared memory between chains.
2. The engine over `Topological` and `PollSet` instead of `Consensus`, on a smaller
   instance.
3. Proofs: the invariants of `Engine`, the shape of a snowball tree (`WellFormed`,
   `OnlyRootFinalizes`), and `Topological` implements `Consensus`.
