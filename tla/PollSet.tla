------------------------------ MODULE PollSet -------------------------------
(***************************************************************************)
(* snow/consensus/snowman/poll set: the outstanding polls, oldest first.   *)
(* Every handler ends by handing over the results of the finished polls at *)
(* the front.                                                              *)
(*                                                                         *)
(* A poll is [requestID, polled, votes, finished]: polled maps the slots   *)
(* still waited for to their validator, votes the answered ones to a block.*)
(*                                                                         *)
(* issued is what Topological.GetParent knows; it grows while polls are    *)
(* outstanding.                                                            *)
(***************************************************************************)
EXTENDS EarlyTermPoll

CONSTANTS
    Validators,
    Samples,    \* the draws: functions from Slots to Validators
    MaxPolls    \* bound: the number of polls ever added

ASSUME SamplesAssumption ==
    /\ Samples \subseteq [Slots -> Validators]
    /\ MaxPolls \in Nat

VARIABLES
    issued,
    polls,      \* s.polls, in the order of the linked hashmap
    requestID,  \* the engine's counter: the last request id used
    sampled,    \* history: the draw of every request
    results     \* history: the bags handed over, [requestID, votes]

vars == <<issued, polls, requestID, sampled, results>>

Init ==
    /\ issued = {Genesis}
    /\ polls = << >>
    /\ requestID = 0
    /\ sampled = << >>
    /\ results = << >>

-----------------------------------------------------------------------------
Remaining(p) == Cardinality(DOMAIN p.polled)

(* p.Finished(), with the cached flag. *)
Finished(p) == p.finished \/ Finishes(issued, p.votes, Remaining(p))

(* Faulty: one slot at a time. *)
OneSlotOf(p, vdr) ==
    LET S == {s \in DOMAIN p.polled : p.polled[s] = vdr}
    IN  {s \in S : \A t \in S : s <= t}

(* polled.Count(vdr) and polled.Remove(vdr) *)
SlotsOf(p, vdr) == {s \in DOMAIN p.polled : p.polled[s] = vdr}

Without(polled, S) == [s \in DOMAIN polled \ S |-> polled[s]]

(* earlyTermPoll.Vote: all the slots of vdr that have not been answered. *)
Answered(p, vdr, b) ==
    LET S == SlotsOf(p, vdr)
    IN  [p EXCEPT !.polled = Without(@, S),
                  !.votes = [s \in DOMAIN @ \cup S |-> IF s \in S THEN b ELSE @[s]]]

(* Faulty: starts the poll over. *)
DroppedAll(p, vdr) ==
    [p EXCEPT !.polled = Without(@, SlotsOf(p, vdr)), !.votes = Without(@, DOMAIN @)]

(* earlyTermPoll.Drop *)
Dropped(p, vdr) == [p EXCEPT !.polled = Without(@, SlotsOf(p, vdr))]

(* Faulty: one poll at a time. *)
FinishedFirst(ps) == IF Finished(ps[1]) THEN 1 ELSE 0

(* processFinishedPolls *)
FinishedFront(ps) ==
    CHOOSE n \in 0 .. Len(ps) :
        /\ \A i \in 1 .. n : Finished(ps[i])
        /\ n < Len(ps) => ~Finished(ps[n + 1])

(* Faulty: a finished poll does not wait for the older ones. *)
HandOverAny(ps, n) ==
    LET done == SelectSeq(ps, Finished)
    IN  /\ polls' = SelectSeq(ps, LAMBDA p : ~Finished(p))
        /\ results' = results \o [i \in DOMAIN done |-> [requestID |-> done[i].requestID,
                                                        votes     |-> done[i].votes]]

HandOver(ps, n) ==
    /\ polls' = SubSeq(ps, n + 1, Len(ps))
    /\ results' = results \o [i \in 1 .. n |-> [requestID |-> ps[i].requestID,
                                                votes     |-> ps[i].votes]]

(* The common end of Vote and Drop, for polls with the poll looked at. *)
Settle(ps, finished) ==
    /\ IF finished THEN HandOver(ps, FinishedFront(ps))
       ELSE polls' = ps /\ UNCHANGED results
    /\ UNCHANGED <<issued, requestID, sampled>>

Update(i, p) ==
    Settle([polls EXCEPT ![i] = [p EXCEPT !.finished = Finished(p)]], Finished(p))

-----------------------------------------------------------------------------
(* Engine.sendQuery takes a new request id for every poll. *)
Add(draw) ==
    /\ requestID < MaxPolls
    /\ requestID' = requestID + 1
    /\ polls' = Append(polls, [requestID |-> requestID + 1,
                               polled    |-> draw,
                               votes     |-> [s \in {} |-> Genesis],
                               finished  |-> FALSE])
    /\ sampled' = Append(sampled, draw)
    /\ UNCHANGED <<issued, results>>

(* An answer to an unknown poll, a second answer or one of a validator     *)
(* that was not asked changes no votes, but the poll is looked at again.   *)
Vote(i, vdr, b) == i \in DOMAIN polls /\ Update(i, Answered(polls[i], vdr, b))

Drop(i, vdr) == i \in DOMAIN polls /\ Update(i, Dropped(polls[i], vdr))

(* Topological.Add, as far as GetParent can tell. *)
Issue(b) ==
    /\ b \notin issued
    /\ Parent[b] \in issued
    /\ issued' = issued \cup {b}
    /\ UNCHANGED <<polls, requestID, sampled, results>>

(* An acceptance: what does not extend b leaves ts.blocks. *)
Decide(b) ==
    /\ b \in issued
    /\ \E a \in issued : Parent[b] = a /\ \A c \in issued : a \in Upto(c)
    /\ issued' = {c \in issued : b \in Upto(c)}
    /\ UNCHANGED <<polls, requestID, sampled, results>>

Next ==
    \/ \E draw \in Samples : Add(draw)
    \/ \E i \in 1 .. MaxPolls, vdr \in Validators, b \in Blocks : Vote(i, vdr, b)
    \/ \E i \in 1 .. MaxPolls, vdr \in Validators : Drop(i, vdr)
    \/ \E b \in Blocks \ {Genesis} : Issue(b) \/ Decide(b)

Spec == Init /\ [][Next]_vars

(* ChainRouter.RegisterRequest: every query sent is answered or fails by   *)
(* its timer; voter.Execute then calls Vote or Drop for the validator.     *)
Respond(id, vdr) ==
    \E i \in DOMAIN polls :
        /\ polls[i].requestID = id
        /\ \E s \in DOMAIN polls[i].polled : polls[i].polled[s] = vdr
        /\ Drop(i, vdr) \/ \E b \in Blocks : Vote(i, vdr, b)

FairSpec == Spec /\ \A id \in 1 .. MaxPolls, vdr \in Validators : WF_vars(Respond(id, vdr))

-----------------------------------------------------------------------------
(* Types; a poll waits for and counts the slots of its draw only. *)
TypeOK ==
    /\ issued \subseteq Blocks
    /\ requestID \in 0 .. MaxPolls
    /\ sampled \in Seq(Samples)
    /\ \A i \in DOMAIN polls :
          LET p == polls[i] IN
          /\ p.requestID \in 1 .. requestID
          /\ DOMAIN p.polled \cup DOMAIN p.votes \subseteq Slots
          /\ DOMAIN p.polled \cap DOMAIN p.votes = {}
          /\ \A s \in DOMAIN p.polled : p.polled[s] \in Validators
          /\ \A s \in DOMAIN p.votes : p.votes[s] \in Blocks
          /\ p.finished \in BOOLEAN

(* Every request is handed over exactly once, in the order in which the    *)
(* polls were added, whatever the order in which they finish; and a        *)
(* finished poll never waits at the front: one that has to wait for an     *)
(* older poll is handed over with it.                                      *)
HandedOverInOrder ==
    /\ Len(results) + Len(polls) = requestID
    /\ \A i \in DOMAIN results : results[i].requestID = i
    /\ \A i \in DOMAIN polls : polls[i].requestID = Len(results) + i
    /\ polls # << >> => ~polls[1].finished

(* "make sure that a validator can't respond multiple times"               *)
(* (early_term_traversal.go:146): a validator that was drawn several times *)
(* counts with all its slots for one block, or with none.                  *)
CountsOnce(draw, votes) ==
    \A s, t \in Slots : draw[s] = draw[t] =>
        /\ s \in DOMAIN votes <=> t \in DOMAIN votes
        /\ s \in DOMAIN votes => votes[s] = votes[t]

ValidatorsCountOnce ==
    /\ TypeOK
    /\ \A i \in DOMAIN polls : CountsOnce(sampled[polls[i].requestID], polls[i].votes)
    /\ \A i \in DOMAIN results : CountsOnce(sampled[results[i].requestID], results[i].votes)

(* The votes counted for request id, in an outstanding poll or a result. *)
VotesOf(id, ps, rs) ==
    {ps[j].votes : j \in {j \in DOMAIN ps : ps[j].requestID = id}}
        \cup {rs[j].votes : j \in {j \in DOMAIN rs : rs[j].requestID = id}}

KeepsVotes ==
    \A i \in DOMAIN polls : \E votes \in VotesOf(polls[i].requestID, polls', results') :
        \A s \in DOMAIN polls[i].votes : s \in DOMAIN votes /\ votes[s] = polls[i].votes[s]

(* What a poll has counted is neither lost nor changed, not even while it  *)
(* waits, finished, for an older one; the result has it all.               *)
VotesAreKept == [][KeepsVotes]_vars

(* Every poll ends and its result is recorded, although it may have to     *)
(* wait for older polls.                                                   *)
EveryPollEnds == \A id \in 1 .. MaxPolls : (requestID >= id) ~> (Len(results) >= id)
=============================================================================
