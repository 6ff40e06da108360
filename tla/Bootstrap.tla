----------------------------- MODULE Bootstrap -----------------------------
(***************************************************************************)
(* The snowman bootstrapper (snow/engine/snowman/bootstrap): it learns from  *)
(* the beacons which blocks are accepted, fetches them and their ancestors   *)
(* down to its last accepted block, stores them, and when none is missing    *)
(* executes them from the lowest.  The node may crash between any two writes *)
(* and starts again from what the database and the VM kept.                  *)
(*                                                                           *)
(* The blocks the beacons report lie on one chain, so a block is its height. *)
(* The polls of the beacons are one step with any outcome.  A request is     *)
(* known by the block it asks for: the code has at most one at a time for a  *)
(* block, and drops answers to any other.  Handlers hold the chain's lock;   *)
(* a handler is split only where it writes the database or the VM, because a *)
(* crash can come there.                                                     *)
(***************************************************************************)
EXTENDS IntervalTree, FiniteSetsExt

CONSTANTS
  MaxHeight,         \* a bound: the highest block of the chain
  BatchWritePeriod

ASSUME BootstrapAssumption ==
  /\ MaxHeight \in Nat
  /\ BatchWritePeriod \in Nat \ {0}

VARIABLES
  lastAccepted,   \* of the VM, persisted
  blocks,         \* the heights whose block is in the database
  intervals,      \* the persisted intervals
  phase,
  tree,
  missing,        \* missingBlockIDs
  outstanding,    \* the blocks asked for: outstandingRequests
  toProcess,      \* startSyncing: the blocks found in the VM
  iterator,       \* execute: the heights left of the database's snapshot
  current,        \* execute: the block about to be accepted
  unwritten,      \* execute: the heights removed in the batch not yet written
  batch,          \* execute: the persisted intervals once it is written
  startedFrom,    \* execute: its lastAcceptedHeight
  toExecute,      \* numToExecute
  executed        \* executedStateTransitions

disk == <<lastAccepted, blocks, intervals>>
syncing == <<tree, missing, outstanding, toProcess>>
executing == <<iterator, current, unwritten, batch, startedFrom, toExecute>>
vars == <<disk, phase, syncing, executing, executed>>

AllHeights == 1 .. MaxHeight
MaxInt == 2 * MaxHeight + 2      \* stands for math.MaxInt: more than twice any tree

Empty == [u \in {} |-> 0]        \* no intervals

(* Faulty: a gap of one block is not noticed.                                *)
getMissingBlockIDsOffByOne(t, last) == {i.lower - 1 : i \in {j \in t : j.lower > last + 2}}

(* getMissingBlockIDs: the parents of the intervals above the next height.   *)
getMissingBlockIDs(t, last) == {i.lower - 1 : i \in {j \in t : j.lower > last + 1}}

(***************************************************************************)
(* Fetching                                                                *)
(***************************************************************************)

(* The heights process stores: from h downwards, while a block is new and    *)
(* its parent was sent along.                                                *)
Stored(t, last, h, ancestors) ==
  {k \in AllHeights : k <= h /\ \A j \in k .. h :
                        j > last /\ ~Contains(t, j) /\ (j = h \/ j \in ancestors)}

(* Faulty: the child of the last accepted block counts as known.             *)
NewMissingOffByOne(t, last, stored) ==
  {p \in AllHeights : p + 1 \in stored /\ p \notin stored /\ p > last + 1 /\ ~Contains(t, p)}

(* The parent that process then asks for.                                    *)
NewMissing(t, last, stored) ==
  {p \in AllHeights : p + 1 \in stored /\ p \notin stored /\ p # last /\ ~Contains(t, p)}

(* The tree and the persisted intervals after the heights hs, from the top.  *)
AddAll(hs, t, map) ==
  MapThenFoldSet(LAMBDA h, s : [tree |-> Add(s.tree, h),
                                map |-> Written(s.map, AddWrites(s.tree, h))],
                 [tree |-> t, map |-> map], LAMBDA h : h, Min, hs)

(* process of h, with the blocks sent along, its batch write included, and   *)
(* fetch of a newly missing block, beside the requests that are left.        *)
Processed(h, stored, added, new, requests) ==
  /\ tree' = added.tree
  /\ intervals' = added.map
  /\ blocks' = blocks \cup stored
  /\ missing' = (missing \ ({h} \cup stored)) \cup new
  /\ outstanding' = requests \cup new

process(h, stored, requests) ==
  Processed(h, stored, AddAll(stored, tree, intervals),
            NewMissing(tree, lastAccepted, stored), requests)

(* tryStartExecuting, once the blocks at hand are processed.                 *)
tryStartExecuting ==
  IF missing' # {}
    THEN phase' = "syncing" /\ UNCHANGED executing
    ELSE /\ phase' = "executing"
         /\ iterator' = blocks'
         /\ unwritten' = {}
         /\ batch' = intervals'
         /\ startedFrom' = lastAccepted
         /\ toExecute' = Cardinality(Heights(tree'))
         /\ UNCHANGED current

(* Start, with what the database kept.                                       *)
Start ==
  /\ phase = "down"
  /\ phase' = "polling"
  /\ tree' = NewTree(intervals)
  /\ missing' = getMissingBlockIDs(NewTree(intervals), lastAccepted)
  /\ executed' = MaxInt
  /\ UNCHANGED <<disk, outstanding, toProcess, executing>>

(* The polls of the beacons end and startSyncing begins: the missing blocks  *)
(* that the VM does not have are asked for.                                  *)
startSyncing(accepted, found) ==
  /\ phase = "polling"
  /\ found \subseteq missing \cup accepted
  /\ phase' = "processing"
  /\ missing' = missing \cup accepted
  /\ outstanding' = outstanding \cup ((missing \cup accepted) \ found)
  /\ toProcess' = found
  /\ UNCHANGED <<disk, tree, executing, executed>>

(* A block that the VM had, without its ancestors; fetch asks for its parent *)
(* unless that was asked for already.                                        *)
ProcessFound(h) ==
  /\ phase = "processing"
  /\ h \in toProcess
  /\ toProcess' = toProcess \ {h}
  /\ process(h, Stored(tree, lastAccepted, h, {}), outstanding)
  /\ UNCHANGED <<lastAccepted, phase, executing, executed>>

FinishProcessing ==
  /\ phase = "processing"
  /\ toProcess = {}
  /\ UNCHANGED <<disk, syncing, executed>>
  /\ tryStartExecuting

(* Faulty: an answer with nothing new does not try to start executing.       *)
AncestorsNothingNew(h, n) ==
  /\ phase \in {"syncing", "waiting"}
  /\ h \in outstanding
  /\ process(h, Stored(tree, lastAccepted, h, h - n .. h - 1), outstanding \ {h})
  /\ UNCHANGED <<lastAccepted, toProcess, executed>>
  /\ IF phase = "waiting" \/ Stored(tree, lastAccepted, h, h - n .. h - 1) = {}
       THEN UNCHANGED <<phase, executing>>
       ELSE tryStartExecuting

(* Ancestors: the block asked for, and n of its ancestors.                   *)
Ancestors(h, n) ==
  /\ phase \in {"syncing", "waiting"}
  /\ h \in outstanding
  /\ process(h, Stored(tree, lastAccepted, h, h - n .. h - 1), outstanding \ {h})
  /\ UNCHANGED <<lastAccepted, toProcess, executed>>
  /\ IF phase = "waiting" THEN UNCHANGED <<phase, executing>> ELSE tryStartExecuting

(* GetAncestorsFailed, or an answer without the block asked for: the block   *)
(* is asked for again.                                                       *)
GetAncestorsFailed(h) ==
  /\ phase \in {"syncing", "waiting"}
  /\ h \in outstanding
  /\ outstanding' = (outstanding \ {h}) \cup {h}
  /\ UNCHANGED <<disk, phase, tree, missing, toProcess, executing, executed>>

(***************************************************************************)
(* Executing                                                               *)
(***************************************************************************)

(* writeBatch, of the heights hs removed and the intervals map.              *)
WriteBatch(hs, map) ==
  /\ blocks' = blocks \ hs
  /\ intervals' = map
  /\ unwritten' = {}

(* The next block of the iterator is removed, before it is accepted; one     *)
(* that the VM had accepted is skipped.                                      *)
ExecuteNext(h) ==
  /\ phase = "executing"
  /\ h \in iterator
  /\ \A k \in iterator : h <= k
  /\ iterator' = iterator \ {h}
  /\ tree' = Remove(tree, h)
  /\ batch' = Written(batch, RemoveWrites(tree, h))
  /\ IF Cardinality(unwritten \cup {h}) >= BatchWritePeriod
       THEN WriteBatch(unwritten \cup {h}, batch')
       ELSE unwritten' = unwritten \cup {h} /\ UNCHANGED <<blocks, intervals>>
  /\ IF h <= startedFrom
       THEN UNCHANGED <<phase, current>>
       ELSE phase' = "accepting" /\ current' = h
  /\ UNCHANGED <<lastAccepted, missing, outstanding, toProcess, startedFrom, toExecute, executed>>

(* Verify and Accept.                                                        *)
Accept ==
  /\ phase = "accepting"
  /\ lastAccepted' = current
  /\ phase' = "executing"
  /\ current' = 0
  /\ UNCHANGED <<blocks, intervals, syncing, iterator, unwritten, batch, startedFrom,
                 toExecute, executed>>

(* restartBootstrapping forgets the requests.                                *)
restartBootstrapping ==
  /\ phase' = "polling"
  /\ outstanding' = {}

(* The end of execute and of tryStartExecuting; bootstrapped is whether the  *)
(* other chains of the subnet are.                                           *)
FinishExecuting(bootstrapped) ==
  /\ phase = "executing"
  /\ iterator = {}
  /\ WriteBatch(unwritten, batch)
  /\ executed' = toExecute
  /\ IF toExecute > 0 /\ toExecute < executed \div 2
       THEN restartBootstrapping
       ELSE /\ phase' = IF bootstrapped THEN "done" ELSE "waiting"
            /\ UNCHANGED outstanding
  /\ batch' = Empty /\ startedFrom' = 0 /\ toExecute' = 0
  /\ UNCHANGED <<lastAccepted, tree, missing, toProcess, iterator, current>>

Timeout(bootstrapped) ==
  /\ phase = "waiting"
  /\ IF bootstrapped THEN phase' = "done" /\ UNCHANGED outstanding ELSE restartBootstrapping
  /\ UNCHANGED <<disk, tree, missing, toProcess, executing, executed>>

(***************************************************************************)
(* Crashes, and what happens outside of bootstrapping                      *)
(***************************************************************************)

(* What a process loses when it ends.                                        *)
MemoryLost ==
  /\ phase' = "down"
  /\ tree' = {} /\ missing' = {} /\ outstanding' = {} /\ toProcess' = {}
  /\ iterator' = {} /\ current' = 0 /\ batch' = Empty
  /\ startedFrom' = 0 /\ toExecute' = 0 /\ executed' = 0

Crash ==
  /\ phase # "down"
  /\ MemoryLost
  /\ unwritten' = {}
  /\ UNCHANGED disk

(* The node shuts down while execute runs, which writes its batch first.     *)
Halt ==
  /\ phase = "executing"
  /\ WriteBatch(unwritten, batch)
  /\ MemoryLost
  /\ UNCHANGED lastAccepted

(* The node starts with state sync, before which Clear drops what was        *)
(* fetched, and accepts a later block without executing those before.        *)
StateSync(h) ==
  /\ phase = "down"
  /\ h >= lastAccepted
  /\ lastAccepted' = h
  /\ blocks' = {}
  /\ intervals' = Empty
  /\ UNCHANGED <<phase, syncing, executing, executed>>

(* acceptPreferredChild: consensus accepts blocks after bootstrapping.       *)
NormalOp ==
  /\ phase = "done"
  /\ lastAccepted < MaxHeight
  /\ lastAccepted' = lastAccepted + 1
  /\ UNCHANGED <<blocks, intervals, phase, syncing, executing, executed>>

Init ==
  /\ lastAccepted = 0
  /\ blocks = {}
  /\ intervals = Empty
  /\ phase = "down"
  /\ tree = {} /\ missing = {} /\ outstanding = {} /\ toProcess = {}
  /\ iterator = {} /\ current = 0 /\ unwritten = {} /\ batch = Empty
  /\ startedFrom = 0 /\ toExecute = 0 /\ executed = 0

Step ==
  \/ \E h \in AllHeights : ProcessFound(h) \/ ExecuteNext(h)
  \/ FinishProcessing
  \/ Accept
  \/ \E bootstrapped \in BOOLEAN : FinishExecuting(bootstrapped)

Next ==
  \/ Start
  \/ \E accepted \in SUBSET AllHeights, found \in SUBSET AllHeights :
       startSyncing(accepted, found)
  \/ \E h \in AllHeights :
       \/ \E n \in 0 .. h - 1 : Ancestors(h, n)
       \/ GetAncestorsFailed(h)
       \/ StateSync(h)
  \/ Step
  \/ \E bootstrapped \in BOOLEAN : Timeout(bootstrapped)
  \/ Crash
  \/ Halt
  \/ NormalOp

Spec == Init /\ [][Next]_vars

(* The handlers run to their end, and a block that is asked for again and    *)
(* again is sent some day, with or without ancestors.                        *)
Fairness ==
  /\ WF_vars(Step)
  /\ \A h \in AllHeights : SF_vars(\E n \in 0 .. h - 1 : Ancestors(h, n))

FairSpec == Spec /\ Fairness

(***************************************************************************)
(* Properties                                                              *)
(***************************************************************************)

(* Types; a block taken off the iterator is not seen again.                  *)
TypeOK ==
  /\ lastAccepted \in 0 .. MaxHeight
  /\ blocks \subseteq AllHeights
  /\ DOMAIN intervals \subseteq AllHeights
  /\ phase \in {"down", "polling", "processing", "syncing", "executing", "accepting",
                "waiting", "done"}
  /\ missing \subseteq AllHeights
  /\ outstanding \subseteq AllHeights
  /\ toProcess \subseteq missing
  /\ unwritten \cap iterator = {}

(* Whenever the node may crash, the persisted intervals are those of the     *)
(* blocks in the database, and the tree in memory is the one that NewTree    *)
(* would read once the open batch is written (Tree.Add, Tree.Remove and the  *)
(* batches of process and execute).                                          *)
IntervalsMatchBlocks ==
  /\ TypeOK
  /\ WellFormed(NewTree(intervals))
  /\ Heights(NewTree(intervals)) = blocks
  /\ phase # "down" =>
       tree = NewTree(IF phase \in {"executing", "accepting"} THEN batch ELSE intervals)

(* While blocks are fetched, every gap between the last accepted block and   *)
(* the fetched ones is known to be missing, and every missing block is asked *)
(* for: no order of answers, failures, restarts and crashes leaves a block   *)
(* that nobody will fetch.                                                   *)
GapsAreRequested ==
  phase \in {"polling", "processing", "syncing", "waiting", "done"} =>
    /\ getMissingBlockIDs(tree, lastAccepted) \subseteq missing
    /\ phase # "polling" => missing \subseteq outstanding \cup toProcess

(* The block handed to the VM is the child of its last accepted block:       *)
(* execute's assumption "getMissingBlockIDs would return an empty set" holds *)
(* whenever it runs, also after a crash between a batch write and an accept. *)
ExecutesInOrder == phase = "accepting" => current = lastAccepted + 1

(* Fetching and executing end, unless the node stops: every missing block    *)
(* arrives, and then the blocks are executed.                                *)
SyncingEnds ==
  phase \in {"processing", "syncing", "executing", "accepting"} ~>
    phase \in {"polling", "waiting", "done", "down"}

=============================================================================
