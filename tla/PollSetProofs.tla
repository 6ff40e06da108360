--------------------------- MODULE PollSetProofs ----------------------------
(***************************************************************************)
(* The set of outstanding polls, for every number of polls, validators and *)
(* draws: results come out once and in order, a validator counts once, and *)
(* no vote is lost.                                                        *)
(***************************************************************************)
EXTENDS PollSet, SequenceTheorems, WellFoundedInduction, TLAPS

Partial(V) == UNION {[S -> V] : S \in SUBSET Slots}

OutstandingPoll == [requestID : Nat, polled : Partial(Validators), votes : Partial(Blocks),
                    finished : BOOLEAN]

Result == [requestID : Nat, votes : Partial(Blocks)]

(* Of the draw, p waits for all the slots of a validator or for none, and  *)
(* has counted all of them or none.                                        *)
AsDrawn(p, draw) ==
    /\ DOMAIN p.polled \cap DOMAIN p.votes = {}
    /\ \A s \in DOMAIN p.polled : p.polled[s] = draw[s]
    /\ \A s, t \in Slots : draw[s] = draw[t] => (s \in DOMAIN p.polled <=> t \in DOMAIN p.polled)
    /\ CountsOnce(draw, p.votes)

(* The inductive invariant. *)
Inv ==
    /\ issued \subseteq Blocks
    /\ requestID \in 0 .. MaxPolls
    /\ sampled \in Seq(Samples) /\ Len(sampled) = requestID
    /\ polls \in Seq(OutstandingPoll)
    /\ results \in Seq(Result)
    /\ HandedOverInOrder
    /\ \A i \in DOMAIN polls : AsDrawn(polls[i], sampled[polls[i].requestID])
    /\ \A i \in DOMAIN results : CountsOnce(sampled[results[i].requestID], results[i].votes)

(* votes has all that old has. *)
Extends(votes, old) == \A s \in DOMAIN old : s \in DOMAIN votes /\ votes[s] = old[s]
-----------------------------------------------------------------------------
LEMMA LeastNat ==
    ASSUME NEW S \in SUBSET Nat, S # {}
    PROVE  \E m \in S : \A k \in S : m <= k
<1>1. PICK m \in S : \A k \in S : <<k, m>> \notin OpToRel(<, Nat)
  BY NatLessThanWellFounded, WFMin, Zenon
<1>2. \A k \in S : ~(k < m)
  BY <1>1, Zenon DEF OpToRel
<1>. QED  BY <1>2

LEMMA SuffixIs ==
    ASSUME NEW S, NEW s \in Seq(S), NEW n \in 0 .. Len(s)
    PROVE  /\ SubSeq(s, n + 1, Len(s)) \in Seq(S)
           /\ Len(SubSeq(s, n + 1, Len(s))) = Len(s) - n
           /\ \A j \in 1 .. (Len(s) - n) : SubSeq(s, n + 1, Len(s))[j] = s[n + j]
<1>. DEFINE m == n + 1
            k == Len(s)
            t == SubSeq(s, m, k)
<1>1. n \in Int /\ m \in Int /\ k \in Int /\ m = n + 1 /\ 0 <= n /\ n <= k
  OBVIOUS
<1>2. \A j \in m .. k : s[j] \in S
  OBVIOUS
<1>. HIDE DEF m, k
<1>3. /\ t \in Seq(S) /\ Len(t) = IF m <= k THEN k - m + 1 ELSE 0
      /\ \A j \in 1 .. k - m + 1 : t[j] = s[m + j - 1]
  BY <1>1, <1>2, SubSeqProperties
<1>. HIDE DEF t
<1>4. Len(t) = k - n /\ k - m + 1 = k - n /\ \A j \in Int : m + j - 1 = n + j
  BY <1>1, <1>3
<1>5. \A j \in 1 .. (k - n) : t[j] = s[n + j]
  BY <1>1, <1>3, <1>4
<1>. QED  BY <1>3, <1>4, <1>5, Zenon DEF m, k, t

LEMMA FrontIs ==
    ASSUME NEW ps, Len(ps) \in Nat
    PROVE  /\ FinishedFront(ps) \in 0 .. Len(ps)
           /\ \A j \in 1 .. FinishedFront(ps) : Finished(ps[j])
           /\ FinishedFront(ps) < Len(ps) => ~Finished(ps[FinishedFront(ps) + 1])
<1>. DEFINE stops == {k \in 0 .. Len(ps) : k < Len(ps) => ~Finished(ps[k + 1])}
<1>1. PICK n \in stops : \A k \in stops : n <= k
  <2>1. Len(ps) \in stops /\ stops \in SUBSET Nat
    OBVIOUS
  <2>. HIDE DEF stops
  <2>. QED  BY <2>1, LeastNat
<1>2. \A j \in 1 .. n : Finished(ps[j])
  <2>. SUFFICES ASSUME NEW j \in 1 .. n  PROVE Finished(ps[j])
    OBVIOUS
  <2>1. j - 1 \in 0 .. Len(ps) /\ j - 1 < Len(ps) /\ (j - 1) + 1 = j /\ ~(n <= j - 1)
    BY <1>1
  <2>2. j - 1 \notin stops
    BY <1>1, <2>1
  <2>. QED  BY <2>1, <2>2
<1>3. n \in 0 .. Len(ps) /\ (n < Len(ps) => ~Finished(ps[n + 1]))
  BY <1>1
<1>. DEFINE Front(k) == /\ \A j \in 1 .. k : Finished(ps[j])
                        /\ k < Len(ps) => ~Finished(ps[k + 1])
<1>4. FinishedFront(ps) = CHOOSE k \in 0 .. Len(ps) : Front(k)
  BY DEF FinishedFront
<1>5. \E k \in 0 .. Len(ps) : Front(k)
  BY <1>2, <1>3
<1>6. FinishedFront(ps) \in 0 .. Len(ps) /\ Front(FinishedFront(ps))
  <2>. HIDE DEF Front
  <2>. QED  BY <1>4, <1>5, Zenon
<1>. QED  BY <1>6

LEMMA AnsweredKeeps ==
    ASSUME NEW p \in OutstandingPoll, NEW draw \in [Slots -> Validators], AsDrawn(p, draw),
           NEW vdr, NEW b \in Blocks
    PROVE  LET q == Answered(p, vdr, b)
           IN  /\ q \in OutstandingPoll /\ AsDrawn(q, draw)
               /\ q.requestID = p.requestID /\ q.finished = p.finished
               /\ Extends(q.votes, p.votes)
<1>. DEFINE S == SlotsOf(p, vdr)
            q == Answered(p, vdr, b)
<1>1. /\ DOMAIN p.polled \subseteq Slots /\ DOMAIN p.votes \subseteq Slots
      /\ p.polled \in [DOMAIN p.polled -> Validators] /\ p.votes \in [DOMAIN p.votes -> Blocks]
      /\ p.requestID \in Nat /\ p.finished \in BOOLEAN
  BY DEF OutstandingPoll, Partial
<1>2. S \subseteq DOMAIN p.polled /\ \A s \in DOMAIN p.polled : s \in S <=> draw[s] = vdr
  BY DEF SlotsOf, AsDrawn
<1>3. /\ q.requestID = p.requestID /\ q.finished = p.finished
      /\ q.polled = [s \in DOMAIN p.polled \ S |-> p.polled[s]]
      /\ q.votes = [s \in DOMAIN p.votes \cup S |-> IF s \in S THEN b ELSE p.votes[s]]
      /\ q = [requestID |-> q.requestID, polled |-> q.polled, votes |-> q.votes,
              finished |-> q.finished]
  <2>. DEFINE polled == Without(p.polled, S)
              votes == [s \in DOMAIN p.votes \cup S |-> IF s \in S THEN b ELSE p.votes[s]]
  <2>1. q = [p EXCEPT !.polled = polled, !.votes = votes]
    BY DEF Answered
  <2>2. polled = [s \in DOMAIN p.polled \ S |-> p.polled[s]]
    BY DEF Without
  <2>. HIDE DEF q, polled, votes, S
  <2>3. q = [requestID |-> p.requestID, polled |-> polled, votes |-> votes,
             finished |-> p.finished]
    BY <2>1, Zenon DEF OutstandingPoll
  <2>. QED  BY <2>2, <2>3 DEF votes
<1>. HIDE DEF S, q
<1>4. q.polled \in [DOMAIN p.polled \ S -> Validators]
  BY <1>1, <1>3
<1>5. q.votes \in [DOMAIN p.votes \cup S -> Blocks]
  BY <1>1, <1>3
<1>6. q.polled \in Partial(Validators) /\ q.votes \in Partial(Blocks)
  BY <1>1, <1>2, <1>4, <1>5 DEF Partial
<1>7. q \in OutstandingPoll
  BY <1>1, <1>3, <1>6 DEF OutstandingPoll
<1>8. AsDrawn(q, draw)
  <2>1. DOMAIN q.polled = DOMAIN p.polled \ S /\ DOMAIN q.votes = DOMAIN p.votes \cup S
    BY <1>3
  <2>2. DOMAIN q.polled \cap DOMAIN q.votes = {}
    BY <2>1, <1>2 DEF AsDrawn
  <2>3. \A s \in DOMAIN q.polled : q.polled[s] = draw[s]
    BY <1>3 DEF AsDrawn
  <2>4. \A s, t \in Slots : draw[s] = draw[t] => (s \in S <=> t \in S)
    BY <1>2 DEF AsDrawn
  <2>5. \A s, t \in Slots : draw[s] = draw[t] => (s \in DOMAIN q.polled <=> t \in DOMAIN q.polled)
    BY <2>1, <2>4 DEF AsDrawn
  <2>6. CountsOnce(draw, q.votes)
    BY <1>3, <2>1, <2>4 DEF AsDrawn, CountsOnce
  <2>. QED  BY <2>2, <2>3, <2>5, <2>6 DEF AsDrawn
<1>9. Extends(q.votes, p.votes)
  BY <1>2, <1>3 DEF Extends, AsDrawn
<1>. QED  BY <1>3, <1>7, <1>8, <1>9 DEF q

LEMMA DroppedKeeps ==
    ASSUME NEW p \in OutstandingPoll, NEW draw \in [Slots -> Validators], AsDrawn(p, draw),
           NEW vdr
    PROVE  LET q == Dropped(p, vdr)
           IN  /\ q \in OutstandingPoll /\ AsDrawn(q, draw)
               /\ q.requestID = p.requestID /\ q.finished = p.finished
               /\ Extends(q.votes, p.votes)
<1>. DEFINE S == SlotsOf(p, vdr)
            q == Dropped(p, vdr)
<1>1. /\ DOMAIN p.polled \subseteq Slots /\ DOMAIN p.votes \subseteq Slots
      /\ p.polled \in [DOMAIN p.polled -> Validators] /\ p.votes \in [DOMAIN p.votes -> Blocks]
      /\ p.requestID \in Nat /\ p.finished \in BOOLEAN
  BY DEF OutstandingPoll, Partial
<1>2. S \subseteq DOMAIN p.polled /\ \A s \in DOMAIN p.polled : s \in S <=> draw[s] = vdr
  BY DEF SlotsOf, AsDrawn
<1>3. /\ q.requestID = p.requestID /\ q.finished = p.finished
      /\ q.polled = [s \in DOMAIN p.polled \ S |-> p.polled[s]] /\ q.votes = p.votes
      /\ q = [requestID |-> q.requestID, polled |-> q.polled, votes |-> q.votes,
              finished |-> q.finished]
  BY DEF Dropped, Without, OutstandingPoll
<1>. HIDE DEF S, q
<1>4. q.polled \in Partial(Validators)
  <2>1. q.polled \in [DOMAIN p.polled \ S -> Validators]
    BY <1>1, <1>3
  <2>. QED  BY <1>1, <2>1 DEF Partial
<1>5. q \in OutstandingPoll
  BY <1>3, <1>4 DEF OutstandingPoll
<1>6. AsDrawn(q, draw)
  <2>1. DOMAIN q.polled = DOMAIN p.polled \ S
    BY <1>3
  <2>2. \A s, t \in Slots : draw[s] = draw[t] => (s \in DOMAIN q.polled <=> t \in DOMAIN q.polled)
    BY <2>1, <1>2 DEF AsDrawn
  <2>. QED  BY <1>3, <2>1, <2>2 DEF AsDrawn
<1>7. Extends(q.votes, p.votes)
  BY <1>3 DEF Extends
<1>. QED  BY <1>3, <1>5, <1>6, <1>7 DEF q
-----------------------------------------------------------------------------
(* ps is the queue with what was counted since. *)
Counted(ps) ==
    /\ ps \in Seq(OutstandingPoll) /\ Len(ps) = Len(polls)
    /\ \A j \in 1 .. Len(ps) :
          /\ ps[j].requestID = Len(results) + j
          /\ AsDrawn(ps[j], sampled[ps[j].requestID])
          /\ Extends(ps[j].votes, polls[j].votes)

(* The first n polls of ps become results, the others stay. *)
Moves(ps, n) ==
    /\ polls' \in Seq(OutstandingPoll) /\ Len(polls') = Len(ps) - n
    /\ \A j \in 1 .. (Len(ps) - n) : polls'[j] = ps[n + j]
    /\ results' \in Seq(Result) /\ Len(results') = Len(results) + n
    /\ \A j \in 1 .. Len(results) : results'[j] = results[j]
    /\ \A j \in 1 .. n : results'[Len(results) + j]
                            = [requestID |-> ps[j].requestID, votes |-> ps[j].votes]

LEMMA MovesKeeps ==
    ASSUME Inv, NEW ps, Counted(ps), NEW n \in 0 .. Len(ps), Moves(ps, n),
           n < Len(ps) => ~ps[n + 1].finished,
           UNCHANGED <<issued, requestID, sampled>>
    PROVE  Inv' /\ KeepsVotes
<1>1. /\ Len(ps) \in Nat /\ Len(results) \in Nat /\ Len(polls) = Len(ps)
      /\ DOMAIN polls = 1 .. Len(ps) /\ DOMAIN results = 1 .. Len(results)
      /\ DOMAIN polls' = 1 .. Len(ps) - n /\ DOMAIN results' = 1 .. Len(results) + n
  BY DEF Inv, Counted, Moves
<1>2. \A j \in 1 .. Len(ps) - n :
        /\ polls'[j] = ps[n + j] /\ n + j \in 1 .. Len(ps)
        /\ ps[n + j].requestID = Len(results) + (n + j)
        /\ AsDrawn(ps[n + j], sampled[ps[n + j].requestID])
  BY <1>1 DEF Moves, Counted
<1>3. \A j \in 1 .. Len(results) + n :
        \/ j \in 1 .. Len(results) /\ results'[j] = results[j]
        \/ \E k \in 1 .. n : /\ j = Len(results) + k /\ k \in 1 .. Len(ps)
                             /\ results'[j].requestID = ps[k].requestID
                             /\ results'[j].votes = ps[k].votes
  <2>. SUFFICES ASSUME NEW j \in 1 .. Len(results) + n, j \notin 1 .. Len(results)
                PROVE  \E k \in 1 .. n : /\ j = Len(results) + k /\ k \in 1 .. Len(ps)
                                         /\ results'[j].requestID = ps[k].requestID
                                         /\ results'[j].votes = ps[k].votes
    BY Zenon DEF Moves
  <2>1. j - Len(results) \in 1 .. n /\ j = Len(results) + (j - Len(results))
    BY <1>1
  <2>2. results'[j] = [requestID |-> ps[j - Len(results)].requestID,
                       votes |-> ps[j - Len(results)].votes]
    BY <2>1, Zenon DEF Moves
  <2>. QED  BY <1>1, <2>1, <2>2
<1>4. HandedOverInOrder'
  <2>1. Len(results') + Len(polls') = requestID'
    <3>1. Len(results) + Len(polls) = requestID /\ requestID' = requestID
      BY DEF Inv, HandedOverInOrder
    <3>2. Len(polls') = Len(ps) - n /\ Len(results') = Len(results) + n
      BY DEF Moves
    <3>. QED  BY <1>1, <3>1, <3>2
  <2>2. \A j \in DOMAIN results' : results'[j].requestID = j
    <3>1. \A j \in 1 .. Len(results) : results[j].requestID = j
      BY <1>1, Zenon DEF Inv, HandedOverInOrder
    <3>2. \A k \in 1 .. Len(ps) : ps[k].requestID = Len(results) + k
      BY DEF Counted
    <3>3. ASSUME NEW j \in DOMAIN results'
          PROVE  results'[j].requestID = j
      <4>1. j \in 1 .. Len(results) + n
        BY <1>1, <3>3
      <4>2. CASE j \in 1 .. Len(results) /\ results'[j] = results[j]
        BY <3>1, <4>2, Zenon
      <4>3. ASSUME NEW k \in 1 .. n, j = Len(results) + k, k \in 1 .. Len(ps),
                   results'[j].requestID = ps[k].requestID
            PROVE  results'[j].requestID = j
        BY <3>2, <4>3, Zenon
      <4>. QED  BY <1>3, <4>1, <4>2, <4>3, Zenon
    <3>. QED  BY <3>3
  <2>3. \A j \in DOMAIN polls' : polls'[j].requestID = Len(results') + j
    <3>1. \A j \in 1 .. Len(ps) - n : Len(results) + (n + j) = (Len(results) + n) + j
      BY <1>1
    <3>2. Len(results') = Len(results) + n
      BY DEF Moves
    <3>. QED  BY <1>1, <1>2, <3>1, <3>2, Zenon
  <2>4. polls' # << >> => ~polls'[1].finished
    <3>1. polls' # << >> => 1 \in 1 .. Len(ps) - n /\ n < Len(ps)
      BY <1>1 DEF Moves
    <3>. QED  BY <1>2, <3>1
  <2>. QED  BY <2>1, <2>2, <2>3, <2>4 DEF HandedOverInOrder
<1>5. \A j \in DOMAIN polls' : AsDrawn(polls'[j], sampled'[polls'[j].requestID])
  BY <1>1, <1>2
<1>6. \A j \in DOMAIN results' : CountsOnce(sampled'[results'[j].requestID], results'[j].votes)
  <2>1. \A k \in 1 .. Len(ps) : CountsOnce(sampled[ps[k].requestID], ps[k].votes)
    BY DEF Counted, AsDrawn
  <2>2. \A j \in 1 .. Len(results) : CountsOnce(sampled[results[j].requestID], results[j].votes)
    BY <1>1 DEF Inv
  <2>. QED  BY <1>1, <1>3, <2>1, <2>2, Zenon
<1>7. KeepsVotes
  <2>. SUFFICES ASSUME NEW j \in 1 .. Len(ps)
                PROVE  \E votes \in VotesOf(polls[j].requestID, polls', results') :
                          Extends(votes, polls[j].votes)
    BY <1>1 DEF KeepsVotes, Extends
  <2>1. /\ ps[j].requestID = polls[j].requestID /\ ps[j].requestID = Len(results) + j
        /\ Extends(ps[j].votes, polls[j].votes)
    BY <1>1, Zenon DEF Inv, HandedOverInOrder, Counted
  <2>2. CASE j <= n
    <3>1. j \in 1 .. n /\ Len(results) + j \in DOMAIN results'
      BY <1>1, <2>2
    <3>2. /\ results'[Len(results) + j].requestID = polls[j].requestID
          /\ results'[Len(results) + j].votes = ps[j].votes
      <4>1. results'[Len(results) + j] = [requestID |-> ps[j].requestID, votes |-> ps[j].votes]
        BY <3>1, Zenon DEF Moves
      <4>. QED  BY <2>1, <4>1
    <3>3. ps[j].votes \in VotesOf(polls[j].requestID, polls', results')
      BY <3>1, <3>2 DEF VotesOf
    <3>. QED  BY <2>1, <3>3
  <2>3. CASE ~(j <= n)
    <3>1. j - n \in 1 .. Len(ps) - n /\ n + (j - n) = j
      BY <1>1, <2>3
    <3>2. polls'[j - n] = ps[j] /\ j - n \in DOMAIN polls'
      BY <1>1, <1>2, <3>1
    <3>3. ps[j].votes \in VotesOf(polls[j].requestID, polls', results')
      BY <2>1, <3>2 DEF VotesOf
    <3>. QED  BY <2>1, <3>3
  <2>. QED  BY <2>2, <2>3
<1>8. /\ issued' \subseteq Blocks /\ requestID' \in 0 .. MaxPolls
      /\ sampled' \in Seq(Samples) /\ Len(sampled') = requestID'
      /\ polls' \in Seq(OutstandingPoll) /\ results' \in Seq(Result)
  BY DEF Inv, Moves
<1>. QED  BY <1>4, <1>5, <1>6, <1>7, <1>8 DEF Inv

LEMMA UpdateKeeps ==
    ASSUME Inv, NEW i \in DOMAIN polls, NEW p \in OutstandingPoll,
           p.requestID = polls[i].requestID, p.finished = polls[i].finished,
           AsDrawn(p, sampled[p.requestID]), Extends(p.votes, polls[i].votes),
           Update(i, p)
    PROVE  Inv' /\ KeepsVotes
<1>. DEFINE r == [p EXCEPT !.finished = Finished(p)]
            ps == [polls EXCEPT ![i] = r]
<1>1. /\ r.requestID = p.requestID /\ r.polled = p.polled /\ r.votes = p.votes
      /\ r.finished = Finished(p) /\ r \in OutstandingPoll
  <2>1. Finished(p) \in BOOLEAN
    BY DEF Finished
  <2>. QED  BY <2>1 DEF OutstandingPoll
<1>2. AsDrawn(r, sampled[r.requestID])
  <2>. HIDE DEF r
  <2>. QED  BY <1>1 DEF AsDrawn
<1>3. Len(polls) \in Nat /\ DOMAIN polls = 1 .. Len(polls)
  BY DEF Inv
<1>4. /\ ps \in Seq(OutstandingPoll) /\ Len(ps) = Len(polls)
      /\ ps[i] = r /\ \A j \in 1 .. Len(polls) : j # i => ps[j] = polls[j]
  <2>. HIDE DEF r
  <2>. QED  BY <1>1, <1>3 DEF Inv
<1>. HIDE DEF r, ps
<1>5. Counted(ps)
  <2>. SUFFICES ASSUME NEW j \in 1 .. Len(polls)
                PROVE  /\ ps[j].requestID = Len(results) + j
                       /\ AsDrawn(ps[j], sampled[ps[j].requestID])
                       /\ Extends(ps[j].votes, polls[j].votes)
    BY <1>4 DEF Counted
  <2>1. polls[j].requestID = Len(results) + j /\ AsDrawn(polls[j], sampled[polls[j].requestID])
    BY <1>3, Zenon DEF Inv, HandedOverInOrder
  <2>2. Extends(polls[j].votes, polls[j].votes)
    BY DEF Extends
  <2>. QED  BY <1>1, <1>2, <1>4, <2>1, <2>2
<1>6. Settle(ps, Finished(p))
  BY DEF Update, ps, r
<1>7. UNCHANGED <<issued, requestID, sampled>>
  BY <1>6 DEF Settle
<1>8. CASE Finished(p)
  <2>. DEFINE n == FinishedFront(ps)
              done == [j \in 1 .. n |-> [requestID |-> ps[j].requestID, votes |-> ps[j].votes]]
  <2>1. n \in 0 .. Len(ps) /\ (n < Len(ps) => ~Finished(ps[n + 1]))
    BY <1>3, <1>4, FrontIs
  <2>2. polls' = SubSeq(ps, n + 1, Len(ps)) /\ results' = results \o done
    BY <1>6, <1>8, Zenon DEF Settle, HandOver
  <2>. HIDE DEF n
  <2>3. n < Len(ps) => ~ps[n + 1].finished
    BY <2>1 DEF Finished
  <2>4. /\ polls' \in Seq(OutstandingPoll) /\ Len(polls') = Len(ps) - n
        /\ \A j \in 1 .. (Len(ps) - n) : polls'[j] = ps[n + j]
    BY <1>4, <2>1, <2>2, SuffixIs, Zenon
  <2>5. done \in Seq(Result) /\ Len(done) = n
    <3>1. \A j \in 1 .. n : ps[j] \in OutstandingPoll
      BY <1>3, <1>4, <2>1
    <3>2. \A j \in 1 .. n : [requestID |-> ps[j].requestID, votes |-> ps[j].votes] \in Result
      BY <3>1 DEF OutstandingPoll, Result
    <3>. QED  BY <2>1, <3>2, IsASeq
  <2>6. \A j \in 1 .. n : done[j] = [requestID |-> ps[j].requestID, votes |-> ps[j].votes]
    OBVIOUS
  <2>. HIDE DEF done
  <2>7. /\ results' \in Seq(Result) /\ Len(results') = Len(results) + n
        /\ \A j \in 1 .. Len(results) : results'[j] = results[j]
        /\ \A j \in 1 .. n : results'[Len(results) + j] = done[j]
    <3>1. results \in Seq(Result)
      BY DEF Inv
    <3>2. /\ results \o done \in Seq(Result) /\ Len(results \o done) = Len(results) + Len(done)
          /\ \A j \in 1 .. Len(results) : (results \o done)[j] = results[j]
          /\ \A j \in 1 .. Len(done) : (results \o done)[Len(results) + j] = done[j]
      BY <2>5, <3>1
    <3>. QED  BY <2>2, <2>5, <3>2, Zenon
  <2>8. Moves(ps, n)
    BY <2>4, <2>6, <2>7 DEF Moves
  <2>. QED  BY <1>5, <1>7, <2>1, <2>3, <2>8, MovesKeeps
<1>9. CASE ~Finished(p)
  <2>1. polls' = ps /\ results' = results
    BY <1>6, <1>9 DEF Settle
  <2>2. Moves(ps, 0)
    BY <1>3, <1>4, <2>1 DEF Moves, Inv
  <2>3. 0 < Len(ps) => ~ps[0 + 1].finished
    <3>1. 0 < Len(ps) => polls # << >> /\ 1 \in 1 .. Len(polls)
      BY <1>3, <1>4
    <3>2. polls # << >> => ~polls[1].finished
      BY DEF Inv, HandedOverInOrder
    <3>3. CASE i = 1
      BY <1>1, <1>4, <1>9, <3>3
    <3>4. CASE i # 1
      BY <1>4, <3>1, <3>2, <3>4
    <3>. QED  BY <3>3, <3>4
  <2>. QED  BY <1>3, <1>4, <1>5, <1>7, <2>2, <2>3, MovesKeeps
<1>. QED  BY <1>8, <1>9
-----------------------------------------------------------------------------
LEMMA InitInv == Init => Inv
<1>. SUFFICES ASSUME Init  PROVE Inv
  OBVIOUS
<1>1. issued \subseteq Blocks
  BY BlocksAssumption DEF Init
<1>2. requestID \in 0 .. MaxPolls
  BY SamplesAssumption DEF Init
<1>3. HandedOverInOrder
  BY DEF Init, HandedOverInOrder
<1>. QED  BY <1>1, <1>2, <1>3 DEF Init, Inv

(* The requests in the queue are requests that were sampled. *)
LEMMA DrawIs ==
    ASSUME Inv, NEW i \in DOMAIN polls
    PROVE  /\ polls[i].requestID \in 1 .. requestID /\ polls[i] \in OutstandingPoll
           /\ sampled[polls[i].requestID] \in [Slots -> Validators]
           /\ AsDrawn(polls[i], sampled[polls[i].requestID])
<1>1. Len(results) \in Nat /\ Len(polls) \in Nat /\ i \in 1 .. Len(polls)
  BY DEF Inv
<1>2. polls[i].requestID \in 1 .. requestID
  BY <1>1 DEF Inv, HandedOverInOrder
<1>3. sampled[polls[i].requestID] \in Samples
  BY <1>2 DEF Inv
<1>. QED  BY <1>1, <1>2, <1>3, SamplesAssumption DEF Inv

LEMMA AddKeeps ==
    ASSUME Inv, NEW draw \in Samples, Add(draw)
    PROVE  Inv' /\ KeepsVotes
<1>. DEFINE p == [requestID |-> requestID + 1, polled |-> draw,
                  votes |-> [s \in {} |-> Genesis], finished |-> FALSE]
<1>1. /\ requestID \in Nat /\ Len(polls) \in Nat /\ Len(results) \in Nat
      /\ Len(results) + Len(polls) = requestID /\ Len(sampled) = requestID
      /\ DOMAIN polls = 1 .. Len(polls) /\ DOMAIN results = 1 .. Len(results)
  BY SamplesAssumption DEF Inv, HandedOverInOrder
<1>2. draw \in [Slots -> Validators]
  BY SamplesAssumption
<1>3. p \in OutstandingPoll
  <2>1. [s \in {} |-> Genesis] \in [{} -> Blocks] /\ {} \subseteq Slots
    OBVIOUS
  <2>2. [s \in {} |-> Genesis] \in Partial(Blocks) /\ draw \in Partial(Validators)
    BY <1>2, <2>1, Zenon DEF Partial
  <2>. QED  BY <1>1, <2>2 DEF OutstandingPoll
<1>4. AsDrawn(p, draw)
  BY <1>2 DEF AsDrawn, CountsOnce
<1>5. p.requestID = requestID + 1 /\ ~p.finished
  OBVIOUS
<1>6. polls' = Append(polls, p)
  BY DEF Add
<1>. HIDE DEF p
<1>7. /\ polls' \in Seq(OutstandingPoll) /\ DOMAIN polls' = 1 .. Len(polls) + 1
      /\ Len(polls') = Len(polls) + 1 /\ polls'[Len(polls) + 1] = p
      /\ \A i \in 1 .. Len(polls) : polls'[i] = polls[i]
  BY <1>1, <1>3, <1>6 DEF Inv
<1>8. /\ sampled' \in Seq(Samples) /\ Len(sampled') = requestID + 1
      /\ sampled'[requestID + 1] = draw
      /\ \A id \in 1 .. requestID : sampled'[id] = sampled[id]
  BY <1>1 DEF Add, Inv
<1>9. requestID' = requestID + 1 /\ requestID' \in 0 .. MaxPolls
  BY <1>1, SamplesAssumption DEF Add
<1>10. HandedOverInOrder'
  <2>1. \A i \in 1 .. Len(polls) + 1 : polls'[i].requestID = Len(results) + i
    <3>1. \A i \in 1 .. Len(polls) : polls'[i].requestID = Len(results) + i
      <4>1. \A i \in 1 .. Len(polls) : polls[i].requestID = Len(results) + i
        BY <1>1, Zenon DEF Inv, HandedOverInOrder
      <4>. QED  BY <1>7, <4>1, Zenon
    <3>2. polls'[Len(polls) + 1].requestID = Len(results) + (Len(polls) + 1)
      BY <1>1, <1>5, <1>7
    <3>3. \A i \in 1 .. Len(polls) + 1 : i \in 1 .. Len(polls) \/ i = Len(polls) + 1
      BY <1>1
    <3>. QED  BY <3>1, <3>2, <3>3, Zenon
  <2>2. ~polls'[1].finished
    <3>1. CASE Len(polls) = 0
      BY <1>5, <1>7, <3>1
    <3>2. CASE Len(polls) # 0
      <4>1. polls # << >> /\ 1 \in 1 .. Len(polls)
        BY <1>1, <3>2
      <4>. QED  BY <1>7, <4>1 DEF Inv, HandedOverInOrder
    <3>. QED  BY <3>1, <3>2
  <2>3. results' = results
    BY DEF Add
  <2>4. \A i \in DOMAIN results : results[i].requestID = i
    BY DEF Inv, HandedOverInOrder
  <2>. QED  BY <1>1, <1>7, <1>9, <2>1, <2>2, <2>3, <2>4 DEF HandedOverInOrder
<1>11. \A i \in DOMAIN polls' : AsDrawn(polls'[i], sampled'[polls'[i].requestID])
  <2>1. \A i \in 1 .. Len(polls) : AsDrawn(polls'[i], sampled'[polls'[i].requestID])
    <3>. SUFFICES ASSUME NEW i \in 1 .. Len(polls)
                  PROVE  AsDrawn(polls'[i], sampled'[polls'[i].requestID])
      OBVIOUS
    <3>1. polls[i].requestID \in 1 .. requestID /\ AsDrawn(polls[i], sampled[polls[i].requestID])
      BY <1>1, DrawIs, Zenon
    <3>. QED  BY <1>7, <1>8, <3>1, Zenon
  <2>2. AsDrawn(polls'[Len(polls) + 1], sampled'[polls'[Len(polls) + 1].requestID])
    BY <1>4, <1>5, <1>7, <1>8
  <2>. QED  BY <1>1, <1>7, <2>1, <2>2
<1>12. \A i \in DOMAIN results' : CountsOnce(sampled'[results'[i].requestID], results'[i].votes)
  <2>1. \A i \in DOMAIN results : results[i].requestID = i /\ i \in 1 .. requestID
    BY <1>1 DEF Inv, HandedOverInOrder
  <2>. QED  BY <1>8, <2>1 DEF Add, Inv
<1>13. KeepsVotes
  <2>. SUFFICES ASSUME NEW i \in DOMAIN polls
                PROVE  polls[i].votes \in VotesOf(polls[i].requestID, polls', results')
    BY DEF KeepsVotes
  <2>1. i \in DOMAIN polls' /\ polls'[i] = polls[i]
    BY <1>1, <1>7
  <2>. QED  BY <2>1 DEF VotesOf
<1>. QED  BY <1>7, <1>8, <1>9, <1>10, <1>11, <1>12, <1>13, Zenon DEF Inv, Add

LEMMA StepKeeps == Inv /\ [Next]_vars => Inv' /\ [KeepsVotes]_vars
<1>. SUFFICES ASSUME Inv, [Next]_vars  PROVE Inv' /\ [KeepsVotes]_vars
  OBVIOUS
<1>1. ASSUME NEW draw \in Samples, Add(draw)  PROVE Inv' /\ KeepsVotes
  BY <1>1, AddKeeps
<1>2. ASSUME NEW i, NEW vdr, NEW b \in Blocks, Vote(i, vdr, b)  PROVE Inv' /\ KeepsVotes
  <2>. DEFINE p == Answered(polls[i], vdr, b)
  <2>1. i \in DOMAIN polls /\ Update(i, p)
    BY <1>2 DEF Vote
  <2>2. /\ p \in OutstandingPoll /\ AsDrawn(p, sampled[polls[i].requestID])
        /\ p.requestID = polls[i].requestID /\ p.finished = polls[i].finished
        /\ Extends(p.votes, polls[i].votes)
    BY <2>1, DrawIs, AnsweredKeeps, Zenon
  <2>. HIDE DEF p
  <2>. QED  BY <2>1, <2>2, UpdateKeeps
<1>3. ASSUME NEW i, NEW vdr, Drop(i, vdr)  PROVE Inv' /\ KeepsVotes
  <2>. DEFINE p == Dropped(polls[i], vdr)
  <2>1. i \in DOMAIN polls /\ Update(i, p)
    BY <1>3 DEF Drop
  <2>2. /\ p \in OutstandingPoll /\ AsDrawn(p, sampled[polls[i].requestID])
        /\ p.requestID = polls[i].requestID /\ p.finished = polls[i].finished
        /\ Extends(p.votes, polls[i].votes)
    BY <2>1, DrawIs, DroppedKeeps, Zenon
  <2>. HIDE DEF p
  <2>. QED  BY <2>1, <2>2, UpdateKeeps
<1>4. ASSUME UNCHANGED <<polls, requestID, sampled, results>>, issued' \subseteq Blocks
      PROVE  Inv' /\ KeepsVotes
  <2>1. HandedOverInOrder'
    BY <1>4 DEF Inv, HandedOverInOrder
  <2>2. Inv'
    BY <1>4, <2>1 DEF Inv
  <2>3. \A i \in DOMAIN polls : polls[i].votes \in VotesOf(polls[i].requestID, polls', results')
    BY <1>4 DEF VotesOf
  <2>. QED  BY <2>2, <2>3 DEF KeepsVotes
<1>5. ASSUME NEW b \in Blocks, Issue(b) \/ Decide(b)  PROVE Inv' /\ KeepsVotes
  <2>1. UNCHANGED <<polls, requestID, sampled, results>>
    BY <1>5 DEF Issue, Decide
  <2>2. issued' \subseteq Blocks
    BY <1>5 DEF Issue, Decide, Inv
  <2>. QED  BY <1>4, <2>1, <2>2
<1>6. CASE UNCHANGED vars
  BY <1>4, <1>6 DEF vars, Inv
<1>. QED  BY <1>1, <1>2, <1>3, <1>5, <1>6 DEF Next

LEMMA Invariance == Spec => []Inv
BY InitInv, StepKeeps, PTL DEF Spec

(* set.Vote and set.Drop: whatever the order of the answers and failures,  *)
(* every request is handed over once and in the order in which it was      *)
(* added, and a finished poll never waits at the front of the queue.       *)
THEOREM ResultsAreInOrder == Spec => []HandedOverInOrder
<1>1. Inv => HandedOverInOrder
  BY DEF Inv
<1>. QED  BY <1>1, Invariance, PTL

(* earlyTermPoll.Vote and Drop: a validator is counted with all its slots  *)
(* for one block or with none, in the poll and in the result handed over,  *)
(* however often it answers and whatever it answers.                       *)
THEOREM CountedOnce == Spec => []ValidatorsCountOnce
<1>1. ASSUME Inv  PROVE ValidatorsCountOnce
  <2>1. TypeOK
    <3>. SUFFICES ASSUME NEW i \in DOMAIN polls
                  PROVE  LET p == polls[i] IN
                         /\ p.requestID \in 1 .. requestID
                         /\ DOMAIN p.polled \cup DOMAIN p.votes \subseteq Slots
                         /\ DOMAIN p.polled \cap DOMAIN p.votes = {}
                         /\ \A s \in DOMAIN p.polled : p.polled[s] \in Validators
                         /\ \A s \in DOMAIN p.votes : p.votes[s] \in Blocks
                         /\ p.finished \in BOOLEAN
      BY <1>1 DEF Inv, TypeOK
    <3>1. polls[i].requestID \in 1 .. requestID /\ polls[i] \in OutstandingPoll
      BY <1>1, DrawIs
    <3>2. DOMAIN polls[i].polled \cap DOMAIN polls[i].votes = {}
      BY <1>1, DrawIs DEF AsDrawn
    <3>. QED  BY <3>1, <3>2 DEF OutstandingPoll, Partial
  <2>2. \A i \in DOMAIN polls : CountsOnce(sampled[polls[i].requestID], polls[i].votes)
    BY <1>1 DEF Inv, AsDrawn
  <2>. QED  BY <1>1, <2>1, <2>2 DEF Inv, ValidatorsCountOnce
<1>. QED  BY <1>1, Invariance, PTL

(* No step loses or changes a vote a poll has counted: the poll still has  *)
(* it, or the result handed over has it.                                   *)
THEOREM NoVoteIsDropped == Spec => VotesAreKept
BY Invariance, StepKeeps, PTL DEF Spec, VotesAreKept
=============================================================================
