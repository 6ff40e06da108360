------------------------------- MODULE Engine -------------------------------
(***************************************************************************)
(* snow/engine/snowman Engine: blocks, votes and queries on their way      *)
(* between the network and consensus, with the job scheduler that makes    *)
(* blocks wait for their parents and votes for their blocks.               *)
(*                                                                         *)
(* A handler runs under the chain's lock.  Delivering a block resolves     *)
(* dependencies, which runs jobs, which deliver blocks or record polls:    *)
(* stack holds the calls that are still to be made, the next one first.    *)
(* Every call is a step; a message is taken when the stack is empty.       *)
(*                                                                         *)
(* Left open: the outcome of Verify, when a poll ends early, what polls    *)
(* decide, and whether a query finds enough connected stake.  A reply to a *)
(* Get that the engine no longer waits for is handled like a PushQuery.    *)
(***************************************************************************)
EXTENDS Consensus, Sequences

CONSTANTS
    Options,            \* Options[b]: the children an oracle block brings along
    Validators,
    PollIDs,            \* bound: the queries in flight at a time
    ConcurrentRepolls,
    OptimalProcessing,
    MaxBuilds           \* bound: pendingBuildBlocks

ASSUME EngineAssumption ==
    /\ Options \in [Blocks -> Seq(Blocks)]
    /\ \A b \in Blocks : \A i \in DOMAIN Options[b] :
          Options[b][i] # Genesis /\ Parent[Options[b][i]] = b
    /\ PollIDs \subseteq Nat
    /\ ConcurrentRepolls \in Nat \ {0}
    /\ OptimalProcessing \in Nat
    /\ MaxBuilds \in Nat

VARIABLES
    pending,     \* blocks queued to be issued
    blkReqs,     \* blocks the engine has asked for
    gets,        \* Get requests that the network will answer or fail
    unverified,  \* unverifiedIDToAncestor: the blocks whose parent it knows
    cache,       \* unverifiedBlockCache
    dependents,  \* blocked: dependency -> jobs waiting for it
    unresolved,  \* numUnresolved of the waiting voters
    polls,       \* outstanding polls, oldest first: [id, waiting, finished]
    queries,     \* <<id, validator>>: queries that will be answered or fail
    builds,      \* pendingBuildBlocks
    starved,     \* the last query was dropped
    stack

evars == <<pending, blkReqs, gets, unverified, cache, dependents, unresolved, polls,
           queries, builds, starved, stack>>

vars == <<cvars, evars>>

-----------------------------------------------------------------------------
(* The calls *)

Issue(b, known, own) == [op |-> "issue", blk |-> b, known |-> known, own |-> own]
Deliver(b)           == [op |-> "deliver", blk |-> b]
Option(b, added)     == [op |-> "option", blk |-> b, added |-> added]
Forget(b)            == [op |-> "forget", blk |-> b]
Resolve(b, ok)       == [op |-> "resolve", blk |-> b, ok |-> ok]
Run(job, ok)         == [op |-> "run", job |-> job, ok |-> ok]
Schedule(voter)      == [op |-> "schedule", voter |-> voter]
Vote(voter)          == [op |-> "vote", voter |-> voter]
Query                == [op |-> "query"]
Repoll               == [op |-> "repoll"]
Build                == [op |-> "build"]

(* The jobs *)
Issuer(b)               == [blk |-> b]
Voter(id, vdr, choices) == [id |-> id, vdr |-> vdr, choices |-> choices]
IsIssuer(job)           == "blk" \in DOMAIN job

Call(op) == stack # << >> /\ Head(stack).op = op

Return(calls) == stack' = calls \o Tail(stack)

(* A message is handled when the last one is done; executeDeferredWork is  *)
(* the end of every handler.                                               *)
Handle(calls) == stack = << >> /\ stack' = Append(calls, Build)

-----------------------------------------------------------------------------
getBlock(b) == b \in pending \cup cache \cup processing \cup accepted

isDecided(b) ==
    \/ Height[b] <= Height[lastAccepted]
    \/ Height[b] - 1 = Height[lastAccepted] /\ Parent[b] # lastAccepted

(* Faulty: a pending block is issued again. *)
shouldIssueAgain(b) == ~isDecided(b) /\ b \notin processing

shouldIssueBlock(b) == ~isDecided(b) /\ b \notin pending \cup processing

canDependOn(b) == b \in pending \cup blkReqs

canIssueChildOn(b) == b \in processing \cup {lastAccepted}

(* A reply to a request that was given up is like an unasked block. *)
SetRequests(requested) == blkReqs' = requested /\ gets' = gets \cap requested

(* Tree.GetAncestor *)
GetAncestor(b) ==
    CHOOSE a \in Upto(b) \ unverified :
        \A c \in Upto(b) : a \in Ancestors[c] => c \in unverified

(* markAsUnverified, once processing is as given; the cache may make room. *)
MarkAsUnverified(blks, inConsensus, tree, kept) ==
    LET marked == {b \in blks \ inConsensus : Parent[b] \in tree \cup inConsensus}
    IN  /\ unverified' = tree \cup marked
        /\ IF marked = {} THEN cache' = kept
           ELSE \E c \in SUBSET kept : cache' = c \cup marked

(* Tree.RemoveDescendants *)
RemoveDescendants(tree, b) ==
    {c \in tree : b \notin Upto(c) \/ \E d \in Upto(c) : b \in Ancestors[d] /\ d \notin tree}
        \ {b}

(* Faulty: Reject forgets nothing. *)
AfterAcceptances(tree, newlyAccepted, newlyRejected) ==
    {c \in tree : \A a \in newlyAccepted : c \in RemoveDescendants(tree, Parent[a])}

(* memoryBlock.Accept and Reject, for the blocks a poll decides. *)
AfterDecisions(tree, newlyAccepted, newlyRejected) ==
    {c \in tree : /\ \A a \in newlyAccepted : c \in RemoveDescendants(tree, Parent[a])
                  /\ \A r \in newlyRejected : c \in RemoveDescendants(tree, r)}

-----------------------------------------------------------------------------
(* Scheduler.Schedule: job waits for the blocks of on. *)
Blocked(deps, on, job) ==
    [d \in DOMAIN deps \cup on |->
        IF d \notin on THEN deps[d] ELSE IF d \in DOMAIN deps THEN Append(deps[d], job) ELSE <<job>>]

Without(f, S) == [x \in DOMAIN f \ S |-> f[x]]

(* resolveDependency: the jobs are taken out before the first one is run. *)
ResolveStep ==
    /\ Call("resolve")
    /\ LET b == Head(stack).blk
           jobs == IF b \in DOMAIN dependents THEN dependents[b] ELSE << >>
       IN  /\ Return([i \in DOMAIN jobs |-> Run(jobs[i], Head(stack).ok)])
           /\ dependents' = Without(dependents, {b})
    /\ UNCHANGED <<cvars, pending, blkReqs, gets, unverified, cache, unresolved, polls,
                   queries, builds, starved>>

(* issuer.Execute *)
RunIssuer ==
    /\ Call("run")
    /\ IsIssuer(Head(stack).job)
    /\ LET b == Head(stack).job.blk IN
       IF Head(stack).ok
       THEN Return(<<Deliver(b)>>) /\ UNCHANGED <<pending, unverified, cache>>
       ELSE /\ pending' = pending \ {b}
            /\ MarkAsUnverified({b}, processing, unverified, cache)
            /\ Return(<<Resolve(b, FALSE)>>)
    /\ UNCHANGED <<cvars, blkReqs, gets, dependents, unresolved, polls, queries, builds, starved>>

(* Faulty: the dependency at hand is counted among the unresolved ones. *)
NoDependency(v) == unresolved[v] = 0

LastDependency(v) == unresolved[v] = 1

RunVoter ==
    /\ Call("run")
    /\ ~IsIssuer(Head(stack).job)
    /\ LET v == Head(stack).job IN
       IF LastDependency(v)
       THEN unresolved' = Without(unresolved, {v}) /\ Return(<<Vote(v)>>)
       ELSE unresolved' = [unresolved EXCEPT ![v] = @ - 1] /\ Return(<< >>)
    /\ UNCHANGED <<cvars, pending, blkReqs, gets, unverified, cache, dependents, polls,
                   queries, builds, starved>>

-----------------------------------------------------------------------------
(* issueFrom and issueWithAncestors, one block of the loop at a time.      *)

(* Faulty: what waits for b is not told. *)
IssueDoneQuietly(b) ==
    /\ Return(<< >>)
    /\ IF Head(stack).own THEN UNCHANGED <<blkReqs, gets>> ELSE SetRequests(blkReqs \ {b})

(* The end of the loop: nothing may go on waiting for b. *)
IssueDone(b) ==
    IF Head(stack).own
    THEN /\ Return(IF b \in blkReqs THEN << >> ELSE <<Resolve(b, FALSE)>>)
         /\ UNCHANGED <<blkReqs, gets>>
    ELSE /\ Return(IF b \in pending THEN << >> ELSE <<Resolve(b, FALSE)>>)
         /\ SetRequests(blkReqs \ {b})

(* sendRequest *)
SendRequest(b) ==
    /\ Return(<< >>)
    /\ blkReqs' = blkReqs \cup {b}
    /\ gets' = IF b \in blkReqs THEN gets ELSE gets \cup {b}

(* issue; the parent is next. *)
IssueBlock(b) ==
    /\ pending' = pending \cup {b}
    /\ SetRequests(blkReqs \ {b})
    /\ LET next == <<Issue(Parent[b], FALSE, Head(stack).own)>> IN
       IF canIssueChildOn(Parent[b])
       THEN Return(<<Deliver(b)>> \o next) /\ UNCHANGED dependents
       ELSE Return(next) /\ dependents' = Blocked(dependents, {Parent[b]}, Issuer(b))

IssueStep ==
    /\ Call("issue")
    /\ LET b == Head(stack).blk
           known == Head(stack).known \/ getBlock(b)
       IN  \/ known /\ shouldIssueBlock(b) /\ IssueBlock(b)
           \/ /\ known /\ ~shouldIssueBlock(b) /\ IssueDone(b)
              /\ UNCHANGED <<pending, dependents>>
           \/ /\ ~known
              /\ IF Head(stack).own THEN IssueDone(b) ELSE SendRequest(b)
              /\ UNCHANGED <<pending, dependents>>
    /\ UNCHANGED <<cvars, unverified, cache, unresolved, polls, queries, builds, starved>>

-----------------------------------------------------------------------------
(* Faulty: what issue saw of the parent is trusted. *)
DeliverableOnce(b) == b \notin processing

(* The parent may have been decided since the block became pending. *)
Deliverable(b) == canIssueChildOn(Parent[b]) /\ b \notin processing

(* deliver: the block cannot be added, or does not verify. *)
DeliverAbandoned ==
    /\ Call("deliver")
    /\ LET b == Head(stack).blk IN
       /\ pending' = pending \ {b}
       /\ Return(<<Resolve(b, FALSE)>>)
       /\ IF Deliverable(b)
          THEN MarkAsUnverified({b}, processing, unverified, cache)
          ELSE UNCHANGED <<unverified, cache>>
    /\ UNCHANGED <<cvars, blkReqs, gets, dependents, unresolved, polls, queries, builds, starved>>

OptionSet(b) == {Options[b][i] : i \in DOMAIN Options[b]}

(* The members of blks on list, in the order of list. *)
Those(list, blks) ==
    LET upto[i \in 0 .. Len(list)] ==
            IF i = 0 THEN << >>
            ELSE IF list[i] \in blks THEN Append(upto[i - 1], list[i]) ELSE upto[i - 1]
    IN  upto[Len(list)]

(* The block and those of its options that verify are added; then their    *)
(* dependents are resolved, one after the other.                           *)
DeliverAdded ==
    /\ Call("deliver")
    /\ LET b == Head(stack).blk IN
       /\ Deliverable(b)
       /\ pending' = pending \ {b}
       /\ \E ok \in SUBSET OptionSet(b) :
             LET added == Those(Options[b], ok)
                 dropped == Those(Options[b], OptionSet(b) \ ok)
                 extended == Extended(lastAccepted, preferredIDs, b)
             IN  /\ processing' = processing \cup {b} \cup ok
                 /\ preferredIDs' = IF b \in extended /\ added # << >>
                                    THEN extended \cup {Head(added)} ELSE extended
                 /\ MarkAsUnverified(OptionSet(b) \ ok, processing \cup {b} \cup ok,
                                     unverified \ ({b} \cup ok), cache \ ({b} \cup ok))
                 /\ Return((IF b \in extended THEN <<Query>> ELSE << >>)
                           \o <<Resolve(b, TRUE)>>
                           \o [i \in DOMAIN added |-> Option(added[i], TRUE)]
                           \o [i \in DOMAIN dropped |-> Option(dropped[i], FALSE)]
                           \o <<Repoll>>)
    /\ UNCHANGED <<lastAccepted, accepted, rejected, blkReqs, gets, dependents, unresolved,
                   polls, queries, builds, starved>>

OptionStep ==
    /\ Call("option")
    /\ LET b == Head(stack).blk
           added == Head(stack).added
       IN  /\ pending' = pending \ {b}
           /\ Return((IF added /\ IsPreferred(b) THEN <<Query>> ELSE << >>)
                     \o <<Resolve(b, added), Forget(b)>>)
    /\ UNCHANGED <<cvars, blkReqs, gets, unverified, cache, dependents, unresolved, polls,
                   queries, builds, starved>>

ForgetStep ==
    /\ Call("forget")
    /\ SetRequests(blkReqs \ {Head(stack).blk})
    /\ Return(<< >>)
    /\ UNCHANGED <<cvars, pending, unverified, cache, dependents, unresolved, polls, queries,
                   builds, starved>>

-----------------------------------------------------------------------------
FreeIDs ==
    PollIDs \ ({polls[i].id : i \in DOMAIN polls} \cup {q[1] : q \in queries}
               \cup {v.id : v \in DOMAIN unresolved}
               \cup {stack[i].voter.id : i \in {i \in DOMAIN stack : stack[i].op = "schedule"}})

(* The code counts request ids up without an end; here one is taken again  *)
(* once nothing refers to it, and a query that finds none is dropped.      *)
NextID(free) == CHOOSE i \in free : \A j \in free : i <= j

(* sendQuery *)
QuerySent ==
    /\ Call("query")
    /\ FreeIDs # {}
    /\ \E sample \in SUBSET Validators \ {{}} :
          LET id == NextID(FreeIDs) IN
          /\ polls' = Append(polls, [id |-> id, waiting |-> sample, finished |-> FALSE])
          /\ queries' = queries \cup ({id} \X sample)
    /\ starved' = FALSE
    /\ Return(<< >>)
    /\ UNCHANGED <<cvars, pending, blkReqs, gets, unverified, cache, dependents, unresolved,
                   builds>>

(* Not enough connected stake, or no validators to sample. *)
QueryDropped ==
    /\ Call("query")
    /\ starved' = TRUE
    /\ Return(<< >>)
    /\ UNCHANGED <<cvars, pending, blkReqs, gets, unverified, cache, dependents, unresolved,
                   polls, queries, builds>>

(* Faulty: one poll too few. *)
FewerRepolls(outstanding) == ConcurrentRepolls - outstanding - 1

NumRepolls(outstanding) == ConcurrentRepolls - outstanding

(* repoll, behind the test of NumProcessing *)
RepollStep ==
    /\ Call("repoll")
    /\ Return(IF processing = {} THEN << >>
              ELSE [i \in 1 .. NumRepolls(Len(polls)) |-> Query])
    /\ UNCHANGED <<cvars, pending, blkReqs, gets, unverified, cache, dependents, unresolved,
                   polls, queries, builds, starved>>

(* The end of Chits: the voter waits for the blocks it can depend on. *)
Dependencies(choices) == {b \in {choices[i] : i \in DOMAIN choices} : canDependOn(b)}

ScheduleStep ==
    /\ Call("schedule")
    /\ LET v == Head(stack).voter
           deps == Dependencies(v.choices)
       IN  IF deps = {}
           THEN Return(<<Vote(v)>>) /\ UNCHANGED <<dependents, unresolved>>
           ELSE /\ Return(<< >>)
                /\ dependents' = Blocked(dependents, deps, v)
                /\ unresolved' = [w \in DOMAIN unresolved \cup {v} |->
                                     IF w = v THEN Cardinality(deps) ELSE unresolved[w]]
    /\ UNCHANGED <<cvars, pending, blkReqs, gets, unverified, cache, polls, queries, builds,
                   starved>>

(* poll.Set Vote and Drop: the poll no longer waits for the validator.  It *)
(* ends with the last answer, or earlier.                                  *)
Answers(id, vdr) ==
    {[i \in DOMAIN polls |->
        IF polls[i].id # id THEN polls[i]
        ELSE [polls[i] EXCEPT !.waiting = @ \ {vdr},
                              !.finished = @ \/ ends \/ polls[i].waiting \subseteq {vdr}]] :
     ends \in BOOLEAN}

(* voter.Execute: no results to record *)
VoteCounted ==
    /\ Call("vote")
    /\ \E after \in Answers(Head(stack).voter.id, Head(stack).voter.vdr) :
          /\ after # << >> => ~after[1].finished
          /\ polls' = after
    /\ Return(<< >>)
    /\ UNCHANGED <<cvars, pending, blkReqs, gets, unverified, cache, dependents, unresolved,
                   queries, builds, starved>>

(* The results of the first n polls are recorded. *)
VoteRecorded ==
    /\ Call("vote")
    /\ \E after \in Answers(Head(stack).voter.id, Head(stack).voter.vdr) :
       \E n \in DOMAIN after :
          /\ \E i \in DOMAIN after : after[i].id = Head(stack).voter.id /\ after[i].finished
          /\ n < Len(after) => ~after[n + 1].finished
          /\ polls' = SubSeq(after, n + 1, Len(after))
    /\ \E b \in Blocks : RecordPoll(b)
    /\ unverified' = AfterDecisions(unverified, accepted' \ accepted,
                                    {b \in processing : b \notin accepted' \cup processing'})
    /\ Return(<<Repoll>>)
    /\ UNCHANGED <<pending, blkReqs, gets, cache, dependents, unresolved, queries, builds,
                   starved>>

(* buildBlocks: the VM fails, or builds on any block.  The preference is   *)
(* what it should build on, but the engine takes other blocks as well.     *)
BuildStep ==
    /\ Call("build")
    /\ IF builds > 0 /\ Cardinality(processing) < OptimalProcessing
       THEN /\ builds' = builds - 1
            /\ \/ Return(<< >>)
               \/ \E b \in Blocks \ {Genesis} : Return(<<Issue(b, TRUE, TRUE), Build>>)
       ELSE Return(<< >>) /\ UNCHANGED builds
    /\ UNCHANGED <<cvars, pending, blkReqs, gets, unverified, cache, dependents, unresolved,
                   polls, queries, starved>>

Step ==
    \/ ResolveStep \/ RunIssuer \/ RunVoter \/ IssueStep \/ DeliverAbandoned \/ DeliverAdded
    \/ OptionStep \/ ForgetStep \/ QuerySent \/ QueryDropped \/ RepollStep \/ ScheduleStep
    \/ VoteCounted \/ VoteRecorded \/ BuildStep

-----------------------------------------------------------------------------
(* The handlers *)

others == <<pending, unverified, cache, dependents, unresolved, polls, starved>>

Put(b) ==
    /\ b \in gets
    /\ Handle(<<Issue(b, TRUE, FALSE)>>)
    /\ gets' = gets \ {b}
    /\ UNCHANGED <<cvars, others, blkReqs, queries, builds>>

(* Also a Put with another block or with none. *)
GetFailed(b) ==
    /\ b \in gets
    /\ Handle(<<Resolve(b, FALSE)>>)
    /\ SetRequests(blkReqs \ {b})
    /\ UNCHANGED <<cvars, others, queries, builds>>

PullQuery(b) ==
    /\ Handle(<<Issue(b, FALSE, FALSE)>>)
    /\ UNCHANGED <<cvars, others, blkReqs, gets, queries, builds>>

PushQuery(b) ==
    /\ Handle(<<Issue(b, TRUE, FALSE)>>)
    /\ UNCHANGED <<cvars, others, blkReqs, gets, queries, builds>>

(* preferred, and then the preferred block at the height asked for *)
Chits(id, vdr, choices) ==
    /\ <<id, vdr>> \in queries
    /\ Handle([i \in DOMAIN choices |-> Issue(choices[i], FALSE, FALSE)]
              \o <<Schedule(Voter(id, vdr, choices))>>)
    /\ queries' = queries \ {<<id, vdr>>}
    /\ UNCHANGED <<cvars, others, blkReqs, gets, builds>>

(* The validator's last accepted block stands in for its answer, if it is  *)
(* known.                                                                  *)
QueryFailed(id, vdr) == Chits(id, vdr, << >>) \/ \E b \in Blocks : Chits(id, vdr, <<b>>)

Notify ==
    /\ builds < MaxBuilds
    /\ Handle(<< >>)
    /\ builds' = builds + 1
    /\ UNCHANGED <<cvars, others, blkReqs, gets, queries>>

(* A repoll, or a query that belongs to no poll. *)
Gossip ==
    /\ stack = << >>
    /\ IF processing # {}
       THEN stack' = <<Repoll>> /\ UNCHANGED queries
       ELSE /\ FreeIDs # {}
            /\ \E vdr \in Validators : queries' = queries \cup {<<NextID(FreeIDs), vdr>>}
            /\ UNCHANGED stack
    /\ UNCHANGED <<cvars, others, blkReqs, gets, builds>>

StartCalls(last) == Append([i \in DOMAIN Options[last] |-> Deliver(Options[last][i])], Build)

Start ==
    /\ processing' = {} /\ preferredIDs' = {}
    /\ pending' = {} /\ blkReqs' = {} /\ gets' = {} /\ unverified' = {} /\ cache' = {}
    /\ dependents' = << >> /\ unresolved' = << >> /\ polls' = << >> /\ queries' = {}
    /\ builds' = 0 /\ starved' = FALSE
    /\ stack' = StartCalls(lastAccepted)
    /\ UNCHANGED <<lastAccepted, accepted, rejected>>

Answer(id, vdr) ==
    \/ QueryFailed(id, vdr)
    \/ \E b, c \in Blocks : b # c /\ Chits(id, vdr, <<b, c>>)

Handler ==
    \/ \E b \in Blocks : Put(b) \/ GetFailed(b) \/ PullQuery(b) \/ PushQuery(b)
    \/ \E id \in PollIDs, vdr \in Validators : Answer(id, vdr)
    \/ Notify
    \/ Gossip

Init ==
    /\ ConsensusInit
    /\ pending = {} /\ blkReqs = {} /\ gets = {} /\ unverified = {} /\ cache = {}
    /\ dependents = << >> /\ unresolved = << >> /\ polls = << >> /\ queries = {}
    /\ builds = 0 /\ starved = FALSE
    /\ stack = StartCalls(Genesis)

(* Start is also the restart of the node, which may stop at any point: a   *)
(* crash, or an error that ends the chain in the middle of a handler.      *)
Next == Step \/ Handler \/ Start

Spec == Init /\ [][Next]_vars

-----------------------------------------------------------------------------
Jobs == [blk : Blocks] \cup [id : PollIDs, vdr : Validators, choices : Seq(Blocks)]

(* Types; only what was asked for is answered. *)
TypeOK ==
    /\ pending \cup blkReqs \cup unverified \subseteq Blocks \ {Genesis}
    /\ gets \subseteq blkReqs
    /\ cache \subseteq Blocks
    /\ DOMAIN dependents \subseteq Blocks
    /\ \A d \in DOMAIN dependents : dependents[d] \in Seq(Jobs) \ {<< >>}
    /\ \A v \in DOMAIN unresolved : unresolved[v] \in {1, 2}
    /\ queries \subseteq PollIDs \X Validators
    /\ builds \in 0 .. MaxBuilds

Idle == stack = << >>

(* How often job waits for d. *)
Waits(d, job) ==
    IF d \in DOMAIN dependents
    THEN Cardinality({i \in DOMAIN dependents[d] : dependents[d][i] = job}) ELSE 0

(* Schedule's condition, "all dependencies must eventually either be       *)
(* fulfilled or abandoned": between two messages, whatever a job waits for *)
(* is itself waiting for its parent or was asked for, and every request    *)
(* will still be answered.                                                 *)
DependenciesResolve ==
    /\ TypeOK
    /\ Idle => (\A d \in DOMAIN dependents : canDependOn(d)) /\ blkReqs = gets

(* A pending block waits, once, for a parent that is not in consensus yet: *)
(* no block is left behind when its parent is issued, and none is issued   *)
(* twice.                                                                  *)
PendingBlocksWait ==
    Idle =>
        /\ \A b \in pending : Waits(Parent[b], Issuer(b)) = 1 /\ ~canIssueChildOn(Parent[b])
        /\ \A b \in Blocks \ pending : \A d \in DOMAIN dependents : Waits(d, Issuer(b)) = 0
        /\ pending \cap (processing \cup blkReqs) = {}

(* Between two messages, every validator that a poll waits for has a query *)
(* to answer or a vote that is blocked, never both, and a blocked vote     *)
(* waits for exactly as many blocks as it counts, at least one.            *)
NoVoteIsLost ==
    Idle =>
        /\ \A i \in DOMAIN polls : \A vdr \in polls[i].waiting :
              (<<polls[i].id, vdr>> \in queries)
                 # (\E v \in DOMAIN unresolved : v.id = polls[i].id /\ v.vdr = vdr)
        /\ \A v \in DOMAIN unresolved :
              /\ unresolved[v] > 0
              /\ Cardinality({d \in DOMAIN dependents : Waits(d, v) = 1}) = unresolved[v]

(* The blocks kept to bubble votes are not decided and not in consensus,   *)
(* and their oldest known ancestor is: memoryBlock forgets all others.     *)
UnverifiedTree ==
    Idle => \A b \in unverified :
              ~isDecided(b) /\ b \notin processing /\ canIssueChildOn(GetAncestor(b))

(* While blocks are processing there is a poll, unless the last query was  *)
(* dropped: the engine does not stop asking.                               *)
ProcessingIsPolled == Idle /\ processing # {} => polls # << >> \/ starved
=============================================================================
