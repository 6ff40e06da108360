------------------------ MODULE SnowInstanceProofs -------------------------
(***************************************************************************)
(* Proofs about the life of a decision, for every K, AlphaPreference, list *)
(* of termination conditions, set of choices and length of history.        *)
(***************************************************************************)
EXTENDS SnowInstance, FiniteSetTheorems, TLAPS

(* The conditions are numbered 1 .. Len(Terminations); their thresholds are *)
(* naturals in the documented order.                                        *)
LEMMA ConditionFacts ==
    /\ Conditions = 1 .. Len(Terminations)
    /\ Len(Terminations) \in Nat
    /\ \A i \in Conditions :
          /\ i \in Nat
          /\ 1 .. i \subseteq Conditions
          /\ Terminations[i].alphaConfidence \in Nat
          /\ Terminations[i].beta \in Nat
          /\ Terminations[i].beta > 0
          /\ AlphaPreference <= Terminations[i].alphaConfidence
    /\ \A i, j \in Conditions : i <= j =>
          Terminations[i].alphaConfidence <= Terminations[j].alphaConfidence
<1>1. Conditions = 1 .. Len(Terminations) /\ Len(Terminations) \in Nat
  BY ParametersVerify DEF Conditions
<1>2. \A i \in Conditions : Terminations[i] \in TerminationCondition
  BY ParametersVerify, <1>1
<1> QED
  BY ParametersVerify, <1>1, <1>2, SMTT(30) DEF TerminationCondition

(* With ascending thresholds, the loop passes condition i exactly when the *)
(* count reaches the i-th threshold.                                       *)
LEMMA ReachesThreshold ==
    ASSUME NEW count \in Nat, NEW i \in Conditions
    PROVE  Reaches(count, i) <=> count >= Terminations[i].alphaConfidence
BY ConditionFacts, ParametersVerify DEF Reaches

(* Recording a poll keeps the counters naturals. *)
LEMMA NextConfidenceType ==
    ASSUME NEW confidence \in Confidences, NEW count \in Nat
    PROVE  /\ NextConfidence(confidence, count) \in Confidences
           /\ Finalizes(confidence, count) \in BOOLEAN
BY ConditionFacts DEF NextConfidence, Confidences, Finalizes

(* What a poll that does not finalize does to each counter. *)
LEMMA UndecidedStep ==
    ASSUME NEW confidence \in Confidences, NEW count \in Nat,
           ~Finalizes(confidence, count), NEW i \in Conditions
    PROVE  /\ count >= Terminations[i].alphaConfidence =>
                 /\ NextConfidence(confidence, count)[i] = confidence[i] + 1
                 /\ confidence[i] + 1 < Terminations[i].beta
           /\ ~(count >= Terminations[i].alphaConfidence) =>
                 NextConfidence(confidence, count)[i] = 0
<1>1. \A j \in Conditions : ~FinalizesAt(confidence, count, j)
  BY DEF Finalizes
<1>2. NextConfidence(confidence, count)[i] =
         IF Reaches(count, i) THEN confidence[i] + 1 ELSE 0
  BY <1>1, ConditionFacts DEF NextConfidence
<1>3. confidence[i] \in Nat
  BY DEF Confidences
<1>4. Reaches(count, i) => confidence[i] + 1 < Terminations[i].beta
  BY <1>1, <1>3, ConditionFacts DEF FinalizesAt
<1> QED
  BY <1>2, <1>4, ReachesThreshold

-----------------------------------------------------------------------------
(* The counters stay ordered when a poll does not finalize. *)
LEMMA OrderedStep ==
    ASSUME NEW confidence \in Confidences, NEW count \in Nat,
           ~Finalizes(confidence, count),
           \A i, j \in Conditions : i <= j => confidence[i] >= confidence[j]
    PROVE  \A i, j \in Conditions : i <= j =>
              NextConfidence(confidence, count)[i] >= NextConfidence(confidence, count)[j]
<1> SUFFICES ASSUME NEW i \in Conditions, NEW j \in Conditions, i <= j
             PROVE  NextConfidence(confidence, count)[i] >= NextConfidence(confidence, count)[j]
  OBVIOUS
<1>1. confidence[i] \in Nat /\ confidence[j] \in Nat /\ confidence[i] >= confidence[j]
  BY DEF Confidences
<1>2. Terminations[i].alphaConfidence <= Terminations[j].alphaConfidence
  BY ConditionFacts
<1>3. /\ Terminations[i].alphaConfidence \in Nat
      /\ Terminations[j].alphaConfidence \in Nat
  BY ConditionFacts
<1>4. NextConfidence(confidence, count)[i] \in Nat
  BY NextConfidenceType DEF Confidences
<1>5. CASE count >= Terminations[j].alphaConfidence
  <2>1. count >= Terminations[i].alphaConfidence
    BY <1>2, <1>3, <1>5
  <2> QED
    BY <1>1, <1>5, <2>1, UndecidedStep
<1>6. CASE ~(count >= Terminations[j].alphaConfidence)
  <2>1. NextConfidence(confidence, count)[j] = 0
    BY <1>6, UndecidedStep
  <2> QED
    BY <2>1, <1>4
<1> QED
  BY <1>5, <1>6

-----------------------------------------------------------------------------
(* Appending a poll to a history. *)
LEMMA AppendFacts ==
    ASSUME NEW p \in Poll, NEW h \in Seq(Poll)
    PROVE  /\ Append(h, p) \in Seq(Poll)
           /\ Len(h) \in Nat
           /\ Len(Append(h, p)) = Len(h) + 1
           /\ \A k \in 1 .. Len(h) : Append(h, p)[k] = h[k]
           /\ Append(h, p)[Len(h) + 1] = p
OBVIOUS

(* A poll leaves the earlier polls as good as they were. *)
LEMMA GoodAppend ==
    ASSUME NEW p \in Poll, NEW h \in Seq(Poll), NEW i \in Conditions, NEW c \in Choices
    PROVE  /\ \A k \in 1 .. Len(h) : Good(Append(h, p), i, c, k) <=> Good(h, i, c, k)
           /\ Good(Append(h, p), i, c, Len(h) + 1)
                 <=> p.choice = c /\ p.count >= Terminations[i].alphaConfidence
BY AppendFacts DEF Good

(* A run that has occurred stays in the history. *)
LEMMA RunAppend ==
    ASSUME NEW p \in Poll, NEW h \in Seq(Poll), NEW i \in Conditions, NEW c \in Choices,
           NEW k \in 1 .. Len(h), NEW n \in Nat
    PROVE  Run(Append(h, p), i, c, k, n) <=> Run(h, i, c, k, n)
<1>1. Len(h) \in Nat
  BY AppendFacts
<1>2. n <= k => \A m \in (k - n + 1) .. k : m \in 1 .. Len(h)
  BY <1>1
<1> QED
  BY <1>2, GoodAppend DEF Run

(* A poll for c that does not finalize extends a streak for c by one or    *)
(* ends it, condition by condition.                                        *)
LEMMA StreakStep ==
    ASSUME NEW c \in Choices, NEW count \in 0 .. K, NEW confidence \in Confidences,
           NEW h \in Seq(Poll), Streak(h, c, confidence),
           ~Finalizes(confidence, count)
    PROVE  Streak(Append(h, [choice |-> c, count |-> count]), c,
                  NextConfidence(confidence, count))
<1> DEFINE p == [choice |-> c, count |-> count]
           g == Append(h, p)
           next == NextConfidence(confidence, count)
<1>1. p \in Poll /\ count \in Nat
  BY ParametersVerify DEF Poll
<1>2. Len(h) \in Nat /\ Len(g) = Len(h) + 1
  BY <1>1, AppendFacts
<1> SUFFICES ASSUME NEW i \in Conditions
             PROVE  /\ Run(g, i, c, Len(g), next[i])
                    /\ next[i] < Len(g) => ~Good(g, i, c, Len(g) - next[i])
  BY DEF Streak
<1>3. /\ \A k \in 1 .. Len(h) : Good(g, i, c, k) <=> Good(h, i, c, k)
      /\ Good(g, i, c, Len(h) + 1) <=> count >= Terminations[i].alphaConfidence
  BY <1>1, GoodAppend
<1>4. confidence[i] \in Nat
  BY DEF Confidences
<1>5. /\ confidence[i] <= Len(h)
      /\ \A k \in (Len(h) - confidence[i] + 1) .. Len(h) : Good(h, i, c, k)
      /\ confidence[i] < Len(h) => ~Good(h, i, c, Len(h) - confidence[i])
  BY DEF Streak, Run
<1>6. CASE count >= Terminations[i].alphaConfidence
  <2>1. next[i] = confidence[i] + 1
    BY <1>1, <1>6, UndecidedStep
  <2>2. \A k \in (Len(h) - confidence[i] + 1) .. (Len(h) + 1) : Good(g, i, c, k)
    BY <1>2, <1>3, <1>4, <1>5, <1>6
  <2>3. confidence[i] < Len(h) => ~Good(g, i, c, Len(h) - confidence[i])
    BY <1>2, <1>3, <1>4, <1>5
  <2>4. /\ Len(g) - next[i] = Len(h) - confidence[i]
        /\ Len(g) - next[i] + 1 = Len(h) - confidence[i] + 1
        /\ next[i] < Len(g) <=> confidence[i] < Len(h)
        /\ next[i] <= Len(g)
    BY <1>2, <1>4, <1>5, <2>1, SMTT(30)
  <2> HIDE DEF g, next
  <2> QED
    BY <1>2, <2>2, <2>3, <2>4 DEF Run
<1>7. CASE ~(count >= Terminations[i].alphaConfidence)
  <2>1. next[i] = 0
    BY <1>1, <1>7, UndecidedStep
  <2>2. ~Good(g, i, c, Len(h) + 1)
    BY <1>3, <1>7
  <2> HIDE DEF g, next
  <2> QED
    BY <1>2, <2>1, <2>2 DEF Run
<1> QED
  BY <1>6, <1>7

(* A poll for c that does not finalize completes no run. *)
LEMMA NoRunStep ==
    ASSUME NEW c \in Choices, NEW count \in 0 .. K, NEW confidence \in Confidences,
           NEW h \in Seq(Poll), Streak(h, c, confidence), NoRun(h),
           ~Finalizes(confidence, count)
    PROVE  NoRun(Append(h, [choice |-> c, count |-> count]))
<1> DEFINE p == [choice |-> c, count |-> count]
           g == Append(h, p)
<1>1. p \in Poll /\ count \in Nat
  BY ParametersVerify DEF Poll
<1>2. Len(h) \in Nat /\ Len(g) = Len(h) + 1
  BY <1>1, AppendFacts
<1> SUFFICES ASSUME NEW i \in Conditions, NEW d \in Choices, NEW k \in 1 .. Len(g),
                    Run(g, i, d, k, Terminations[i].beta)
             PROVE  FALSE
  BY DEF NoRun
<1>3. Terminations[i].beta \in Nat /\ Terminations[i].beta > 0
  BY ConditionFacts
<1>4. CASE k <= Len(h)
  <2>1. k \in 1 .. Len(h)
    BY <1>2, <1>4
  <2> QED
    BY <1>1, <1>3, <2>1, RunAppend DEF NoRun
<1>5. CASE k = Len(h) + 1
  <2> DEFINE n == confidence[i]
             b == Terminations[i].beta
  <2>1. b <= k /\ \A m \in (k - b + 1) .. k : Good(g, i, d, m)
    BY DEF Run
  <2>2. Good(g, i, d, Len(h) + 1)
    BY <1>2, <1>3, <1>5, <2>1
  <2>3. d = c /\ count >= Terminations[i].alphaConfidence
    BY <1>1, <2>2, GoodAppend
  <2>4. n \in Nat /\ n + 1 < b
    BY <1>1, <2>3, UndecidedStep DEF Confidences
  <2>5. n < Len(h) /\ Len(h) - n \in (k - b + 1) .. k /\ Len(h) - n \in 1 .. Len(h)
    BY <1>2, <1>3, <1>5, <2>1, <2>4
  <2>6. ~Good(h, i, c, Len(h) - n)
    BY <2>5 DEF Streak
  <2>7. Good(g, i, d, Len(h) - n)
    BY <2>1, <2>5
  <2>8. Good(h, i, d, Len(h) - n)
    BY <1>1, <2>5, <2>7, GoodAppend
  <2> QED
    BY <2>3, <2>6, <2>8
<1> QED
  BY <1>2, <1>4, <1>5

(* Where the last b of l + 1 polls lie, but for the newest: among the last *)
(* m of the first l.                                                       *)
LEMMA WithinStreak ==
    ASSUME NEW l \in Nat, NEW m \in Nat, NEW b \in Nat, m <= l, m + 1 >= b,
           NEW k \in (l + 1 - b + 1) .. (l + 1), k # l + 1
    PROVE  k \in (l - m + 1) .. l /\ k \in 1 .. l
  OBVIOUS

(* A poll that finalizes completes a run for its choice. *)
LEMMA FinalizingRun ==
    ASSUME NEW c \in Choices, NEW count \in 0 .. K, NEW confidence \in Confidences,
           NEW h \in Seq(Poll), Streak(h, c, confidence),
           Finalizes(confidence, count)
    PROVE  \E i \in Conditions : Run(Append(h, [choice |-> c, count |-> count]), i, c,
                                     Len(h) + 1, Terminations[i].beta)
<1> DEFINE p == [choice |-> c, count |-> count]
           g == Append(h, p)
<1>1. p \in Poll /\ count \in Nat
  BY ParametersVerify DEF Poll
<1>2. PICK i \in Conditions : FinalizesAt(confidence, count, i)
  BY DEF Finalizes
<1>3. count >= Terminations[i].alphaConfidence /\ confidence[i] + 1 >= Terminations[i].beta
  BY <1>1, <1>2, ReachesThreshold DEF FinalizesAt
<1>4. /\ Len(h) \in Nat
      /\ confidence[i] \in Nat
      /\ Terminations[i].beta \in Nat
      /\ Terminations[i].beta > 0
  BY <1>1, AppendFacts, ConditionFacts DEF Confidences
<1>5. /\ confidence[i] <= Len(h)
      /\ \A k \in (Len(h) - confidence[i] + 1) .. Len(h) : Good(h, i, c, k)
  BY DEF Streak, Run
<1>6. \A k \in (Len(h) + 1 - Terminations[i].beta + 1) .. (Len(h) + 1) : Good(g, i, c, k)
  <2>1. /\ \A k \in 1 .. Len(h) : Good(g, i, c, k) <=> Good(h, i, c, k)
        /\ Good(g, i, c, Len(h) + 1)
    BY <1>1, <1>3, GoodAppend
  <2> HIDE DEF g
  <2> SUFFICES ASSUME NEW k \in (Len(h) + 1 - Terminations[i].beta + 1) .. (Len(h) + 1),
                      k # Len(h) + 1
               PROVE  Good(g, i, c, k)
    BY <2>1
  <2>2. k \in (Len(h) - confidence[i] + 1) .. Len(h) /\ k \in 1 .. Len(h)
    BY <1>3, <1>4, <1>5, WithinStreak
  <2> QED
    BY <1>5, <2>1, <2>2
<1>7. Terminations[i].beta <= Len(h) + 1
  BY <1>3, <1>4, <1>5
<1>8. Run(g, i, c, Len(h) + 1, Terminations[i].beta)
  <2> HIDE DEF g
  <2> QED
    BY <1>4, <1>6, <1>7, SMTT(30) DEF Run
<1> QED
  BY <1>8

-----------------------------------------------------------------------------
(* Everything a decision owes to its history h: undecided, the counters    *)
(* measure the current run, the preference won the last successful poll    *)
(* and no run is complete; decided, some run for the preference is.        *)
Sound(h, finalized, preference, confidence) ==
    IF finalized
    THEN \E i \in Conditions, k \in 1 .. Len(h) :
            Run(h, i, preference, k, Terminations[i].beta)
    ELSE /\ \A i, j \in Conditions : i <= j => confidence[i] >= confidence[j]
         /\ Streak(h, preference, confidence)
         /\ LastSuccess(h, preference)
         /\ NoRun(h)

(* A decided instance stays sound whatever it is told. *)
LEMMA SoundDecided ==
    ASSUME NEW h \in Seq(Poll), NEW p \in Poll, NEW c \in Choices,
           NEW confidence, NEW after, Sound(h, TRUE, c, confidence)
    PROVE  Sound(Append(h, p), TRUE, c, after)
<1>1. PICK i \in Conditions, k \in 1 .. Len(h) : Run(h, i, c, k, Terminations[i].beta)
  BY DEF Sound
<1>2. Run(Append(h, p), i, c, k, Terminations[i].beta)
  BY <1>1, RunAppend, ConditionFacts
<1>3. k \in 1 .. Len(Append(h, p))
  BY AppendFacts
<1> QED
  BY <1>2, <1>3 DEF Sound

(* A poll without AlphaPreference votes clears the counters. *)
LEMMA SoundUnsuccessful ==
    ASSUME NEW h \in Seq(Poll), NEW p \in Poll, NEW c \in Choices,
           NEW confidence \in Confidences, p.count < AlphaPreference,
           Sound(h, FALSE, c, confidence)
    PROVE  Sound(Append(h, p), FALSE, c, NoConfidence)
<1> DEFINE g == Append(h, p)
<1>1. /\ Len(h) \in Nat
      /\ Len(g) = Len(h) + 1
      /\ \A k \in 1 .. Len(h) : g[k] = h[k]
      /\ g[Len(h) + 1] = p
  BY AppendFacts
<1>2. p.count \in Nat /\ AlphaPreference \in Nat
  BY ParametersVerify DEF Poll
<1>3. \A i \in Conditions, d \in Choices : ~Good(g, i, d, Len(h) + 1)
  BY <1>2, GoodAppend, ConditionFacts
<1>4. Streak(g, c, NoConfidence)
  <2>1. \A i \in Conditions : NoConfidence[i] = 0
    BY DEF NoConfidence
  <2> HIDE DEF g
  <2> QED
    BY <1>1, <1>3, <2>1 DEF Streak, Run
<1>5. NoRun(g)
  <2> SUFFICES ASSUME NEW i \in Conditions, NEW d \in Choices, NEW k \in 1 .. Len(g),
                      Run(g, i, d, k, Terminations[i].beta)
               PROVE  FALSE
    BY DEF NoRun
  <2>1. Terminations[i].beta \in Nat /\ Terminations[i].beta > 0
    BY ConditionFacts
  <2>2. Good(g, i, d, k)
    BY <1>1, <2>1 DEF Run
  <2>3. k \in 1 .. Len(h)
    BY <1>1, <1>3, <2>2
  <2> QED
    BY <2>1, <2>3, RunAppend DEF Sound, NoRun
<1>6. LastSuccess(g, c)
  <2> SUFFICES ASSUME NEW k \in 1 .. Len(g), g[k].count >= AlphaPreference,
                      \A m \in (k + 1) .. Len(g) : g[m].count < AlphaPreference
               PROVE  g[k].choice = c
    BY DEF LastSuccess
  <2>1. k \in 1 .. Len(h)
    BY <1>1, <1>2
  <2>2. \A m \in (k + 1) .. Len(h) : h[m].count < AlphaPreference
    BY <1>1
  <2>3. h[k].count >= AlphaPreference
    BY <1>1, <2>1
  <2>4. h[k].choice = c
    BY <2>1, <2>2, <2>3 DEF Sound, LastSuccess
  <2> QED
    BY <1>1, <2>1, <2>4
<1>7. \A i, j \in Conditions : NoConfidence[i] >= NoConfidence[j]
  BY DEF NoConfidence
<1> QED
  BY <1>4, <1>5, <1>6, <1>7 DEF Sound

(* A poll with AlphaPreference votes for d, told to the instance's counters *)
(* or, when d is not the preference, to cleared ones.                       *)
LEMMA SoundSuccessful ==
    ASSUME NEW h \in Seq(Poll), NEW c \in Choices, NEW d \in Choices,
           NEW count \in 0 .. K, count >= AlphaPreference,
           NEW confidence \in Confidences, Sound(h, FALSE, c, confidence),
           NEW before, before = IF d = c THEN confidence ELSE NoConfidence
    PROVE  Sound(Append(h, [choice |-> d, count |-> count]),
                 Finalizes(before, count), d, NextConfidence(before, count))
<1> DEFINE p == [choice |-> d, count |-> count]
           g == Append(h, p)
<1>1. p \in Poll /\ count \in Nat
  BY ParametersVerify DEF Poll
<1>2. /\ Len(h) \in Nat
      /\ Len(g) = Len(h) + 1
      /\ \A k \in 1 .. Len(h) : g[k] = h[k]
      /\ g[Len(h) + 1] = p
  BY <1>1, AppendFacts
<1>3. before \in Confidences
  BY DEF Confidences, NoConfidence
<1>4. Streak(h, d, before)
  <2>1. CASE d = c
    BY <2>1 DEF Sound
  <2>2. CASE d # c
    <3> SUFFICES ASSUME NEW i \in Conditions, Len(h) > 0, Good(h, i, d, Len(h))
                 PROVE  FALSE
      BY <1>2, <2>2 DEF Streak, Run, NoConfidence
    <3>1. h[Len(h)].choice = d /\ h[Len(h)].count >= AlphaPreference
      <4>1. h[Len(h)] \in Poll
        BY <1>2
      <4> QED
        BY <4>1, ConditionFacts, ParametersVerify, SMTT(30) DEF Good, Poll
    <3>2. h[Len(h)].choice = c
      BY <1>2, <3>1 DEF Sound, LastSuccess
    <3> QED
      BY <2>2, <3>1, <3>2
  <2> QED
    BY <2>1, <2>2
<1>5. CASE Finalizes(before, count)
  <2>1. PICK i \in Conditions : Run(g, i, d, Len(h) + 1, Terminations[i].beta)
    BY <1>3, <1>4, <1>5, FinalizingRun
  <2>2. Len(h) + 1 \in 1 .. Len(g)
    BY <1>2
  <2>3. \E j \in Conditions, k \in 1 .. Len(g) :
           Run(g, j, d, k, Terminations[j].beta)
    BY <2>1, <2>2
  <2>4. Finalizes(before, count) = TRUE
    BY <1>5, <1>1, <1>3, NextConfidenceType
  <2> QED
    BY <2>3, <2>4 DEF Sound
<1>6. CASE ~Finalizes(before, count)
  <2>1. Streak(g, d, NextConfidence(before, count))
    BY <1>3, <1>4, <1>6, StreakStep
  <2>2. NoRun(g)
    BY <1>3, <1>4, <1>6, NoRunStep DEF Sound
  <2>3. LastSuccess(g, d)
    <3> SUFFICES ASSUME NEW k \in 1 .. Len(g),
                        \A m \in (k + 1) .. Len(g) : g[m].count < AlphaPreference
                 PROVE  k = Len(h) + 1
      BY <1>2 DEF LastSuccess
    <3>1. ~(g[Len(h) + 1].count < AlphaPreference)
      BY <1>1, <1>2, ParametersVerify
    <3> QED
      BY <1>2, <3>1
  <2>4. \A i, j \in Conditions : i <= j => before[i] >= before[j]
    BY DEF Sound, NoConfidence
  <2>5. \A i, j \in Conditions : i <= j =>
           NextConfidence(before, count)[i] >= NextConfidence(before, count)[j]
    BY <1>1, <1>3, <1>6, <2>4, OrderedStep
  <2>6. Sound(g, FALSE, d, NextConfidence(before, count))
    BY <2>1, <2>2, <2>3, <2>5 DEF Sound
  <2>7. Finalizes(before, count) = FALSE
    BY <1>6, <1>1, <1>3, NextConfidenceType
  <2> QED
    BY <2>6, <2>7
<1> QED
  BY <1>5, <1>6

-----------------------------------------------------------------------------
(* The inductive invariant. *)
Inv ==
    /\ TypeOK
    /\ Sound(polls, sf.finalized, Preference, sf.confidence)
    /\ ExtendIsSeamless

(* A snowball's types survive a poll. *)
LEMMA SnowballType ==
    ASSUME NEW s \in Snowballs, NEW count \in 0 .. K, NEW c \in Choices
    PROVE  /\ SnowballRecordPoll(s, count, c) \in Snowballs
           /\ SnowballRecordUnsuccessfulPoll(s) \in Snowballs
           /\ SnowballRecordPoll(s, count, c).snowflake = RecordPoll(s.snowflake, count, c)
           /\ SnowballRecordUnsuccessfulPoll(s).snowflake = RecordUnsuccessfulPoll(s.snowflake)
<1>1. count \in Nat
  BY ParametersVerify
<1>2. NoConfidence \in Confidences
  BY DEF NoConfidence, Confidences
<1>3. s.snowflake \in Snowflakes
  BY DEF Snowballs
<1>4. RecordUnsuccessfulPoll(s.snowflake) \in Snowflakes
  BY <1>2, <1>3 DEF Snowflakes, RecordUnsuccessfulPoll
<1>5. RecordPoll(s.snowflake, count, c) \in Snowflakes
  <2>1. \A before \in Confidences :
           /\ NextConfidence(before, count) \in Confidences
           /\ Finalizes(before, count) \in BOOLEAN
    BY <1>1, NextConfidenceType
  <2> QED
    BY <1>2, <1>3, <1>4, <2>1
       DEF Snowflakes, RecordPoll, RecordSuccessfulPoll, SlushRecordSuccessfulPoll, ConfidenceIn
<1> QED
  BY <1>4, <1>5 DEF Snowballs, Stronger, SnowballRecordPoll, SnowballRecordUnsuccessfulPoll

(* A new instance has seen nothing and satisfies the invariant. *)
LEMMA InitInv == Init => Inv
<1> SUFFICES ASSUME Init PROVE Inv
  OBVIOUS
<1>1. NoConfidence \in Confidences /\ \A i \in Conditions : NoConfidence[i] = 0
  BY DEF NoConfidence, Confidences
<1>2. TypeOK
  <2>1. sf \in UnarySnowflakes /\ extended = FALSE
    BY <1>1 DEF Init, newUnarySnowflake, UnarySnowflakes
  <2>2. newSnowflake(Initial) \in Snowflakes
    BY <1>1, ChoicesAssumption DEF newSnowflake, Snowflakes
  <2>3. sb \in Snowballs
    BY <2>2, ChoicesAssumption DEF Init, newSnowball, Snowballs
  <2>4. polls \in Seq(Poll)
    BY DEF Init
  <2> QED
    BY <2>1, <2>3, <2>4 DEF TypeOK
<1>3. polls = << >> /\ Len(polls) = 0
  BY DEF Init
<1>4. Sound(polls, FALSE, Initial, NoConfidence)
  BY <1>1, <1>3 DEF Sound, Streak, Run, LastSuccess, NoRun
<1>5. sf.finalized = FALSE /\ Preference = Initial /\ sf.confidence = NoConfidence
  BY DEF Init, newUnarySnowflake, Preference
<1>6. ExtendIsSeamless
  BY <1>5 DEF Init, ExtendIsSeamless, newSnowball, newSnowflake
<1> QED
  BY <1>2, <1>4, <1>5, <1>6 DEF Inv

(* One step preserves the invariant and never revokes a decision. *)
LEMMA NextInv == Inv /\ Next => Inv' /\ (sf.finalized => sf'.finalized /\ Preference' = Preference)
<1> SUFFICES ASSUME Inv, Next
             PROVE  Inv' /\ (sf.finalized => sf'.finalized /\ Preference' = Preference)
  OBVIOUS
<1> DEFINE flake == sb.snowflake
<1>t. /\ extended \in BOOLEAN
      /\ sf.confidence \in Confidences
      /\ sf.finalized \in BOOLEAN
      /\ Preference \in Choices
      /\ extended => sf \in Snowflakes
      /\ ~extended => sf \in UnarySnowflakes /\ Preference = Initial
      /\ sb \in Snowballs
      /\ flake \in Snowflakes
      /\ polls \in Seq(Poll)
  BY ChoicesAssumption
     DEF Inv, TypeOK, Preference, Snowflakes, UnarySnowflakes, Snowballs
<1>n. NoConfidence \in Confidences
  BY DEF NoConfidence, Confidences
<1>p. \A count \in 0 .. K, c \in Choices :
         /\ [choice |-> c, count |-> count] \in Poll
         /\ Append(polls, [choice |-> c, count |-> count]) \in Seq(Poll)
         /\ count \in Nat
  BY <1>t, ParametersVerify DEF Poll
<1>1. ASSUME NEW count \in 0 .. K, UnaryPoll(count)
      PROVE  Inv' /\ (sf.finalized => sf'.finalized /\ Preference' = Preference)
  <2> DEFINE p == [choice |-> Initial, count |-> count]
  <2>1. /\ extended = FALSE
        /\ extended' = FALSE
        /\ Preference = Initial
        /\ Preference' = Initial
        /\ sb' = SnowballRecordPoll(sb, count, Initial)
        /\ polls' = Append(polls, p)
    BY <1>1, <1>t DEF UnaryPoll, Preference
  <2>2. sb' \in Snowballs /\ sb'.snowflake = RecordPoll(flake, count, Initial)
    BY <1>t, <2>1, SnowballType, ChoicesAssumption
  <2>3. flake.preference = Initial /\ flake.finalized = sf.finalized
    BY <2>1 DEF Inv, ExtendIsSeamless
  <2>4. CASE count < AlphaPreference
    <3>1. sf'.confidence = NoConfidence /\ sf'.finalized = sf.finalized /\ sf' \in UnarySnowflakes
      BY <1>1, <1>t, <1>n, <2>1, <2>4 DEF UnaryPoll, UnaryRecordUnsuccessfulPoll, UnarySnowflakes
    <3>2. Sound(polls', sf'.finalized, Preference', sf'.confidence)
      <4>1. CASE sf.finalized = TRUE
        BY <4>1, <1>t, <1>p, <2>1, <3>1, SoundDecided, ChoicesAssumption DEF Inv
      <4>2. CASE sf.finalized = FALSE
        <5>1. p \in Poll /\ p.count < AlphaPreference
          BY <1>p, <2>4, ChoicesAssumption
        <5>2. Sound(polls, FALSE, Initial, sf.confidence)
          BY <4>2, <2>1 DEF Inv
        <5>3. Sound(Append(polls, p), FALSE, Initial, NoConfidence)
          BY <5>1, <5>2, <1>t, SoundUnsuccessful, ChoicesAssumption
        <5> QED
          BY <4>2, <2>1, <3>1, <5>3
      <4> QED
        BY <4>1, <4>2, <1>t
    <3>3. ExtendIsSeamless'
      BY <1>t, <2>1, <2>2, <2>3, <2>4, <3>1
         DEF ExtendIsSeamless, RecordPoll, RecordSuccessfulPoll, SlushRecordSuccessfulPoll,
             ConfidenceIn, RecordUnsuccessfulPoll, Snowflakes
    <3>4. TypeOK'
      BY <1>p, <2>1, <2>2, <3>1, ChoicesAssumption DEF TypeOK
    <3> QED
      BY <2>1, <3>1, <3>2, <3>3, <3>4 DEF Inv
  <2>5. CASE ~(count < AlphaPreference)
    <3>f. Finalizes(sf.confidence, count) \in BOOLEAN
      BY <1>t, <1>p, NextConfidenceType, ChoicesAssumption
    <3>1. /\ sf'.confidence = NextConfidence(sf.confidence, count)
          /\ sf'.finalized = (sf.finalized \/ Finalizes(sf.confidence, count))
          /\ sf' \in UnarySnowflakes
      <4>1. sf' = UnaryRecordPoll(sf, count)
        BY <1>1, <2>5 DEF UnaryPoll
      <4>2. /\ NextConfidence(sf.confidence, count) \in Confidences
            /\ Finalizes(sf.confidence, count) \in BOOLEAN
        BY <1>t, <1>p, NextConfidenceType, ChoicesAssumption
      <4> QED
        BY <4>1, <4>2, <1>t DEF UnaryRecordPoll, UnarySnowflakes
    <3>2. Sound(polls', sf'.finalized, Preference', sf'.confidence)
      <4>1. CASE sf.finalized = TRUE
        <5>1. sf'.finalized = TRUE
          BY <4>1, <3>1
        <5> QED
          BY <4>1, <5>1, <1>t, <1>p, <2>1, SoundDecided, ChoicesAssumption DEF Inv
      <4>2. CASE sf.finalized = FALSE
        <5>1. sf'.finalized = Finalizes(sf.confidence, count)
          BY <4>2, <3>1, <3>f
        <5>2. Sound(polls, FALSE, Initial, sf.confidence)
          BY <4>2, <2>1 DEF Inv
        <5>3. count >= AlphaPreference
          BY <1>p, <2>5, ParametersVerify
        <5>4. Sound(Append(polls, p), Finalizes(sf.confidence, count), Initial,
                    NextConfidence(sf.confidence, count))
          BY <1>t, <5>2, <5>3, SoundSuccessful, ChoicesAssumption
        <5> QED
          BY <2>1, <3>1, <5>1, <5>4
      <4> QED
        BY <4>1, <4>2, <1>t
    <3>3. ExtendIsSeamless'
      <4>1. CASE sf.finalized = TRUE
        BY <4>1, <1>t, <2>1, <2>2, <2>3, <3>1
           DEF ExtendIsSeamless, RecordPoll, RecordSuccessfulPoll, SlushRecordSuccessfulPoll,
               ConfidenceIn
      <4>2. CASE sf.finalized = FALSE
        <5>1. flake.confidence = sf.confidence
          BY <4>2 DEF Inv, ExtendIsSeamless
        <5>2. RecordPoll(flake, count, Initial) =
                [preference |-> Initial,
                 confidence |-> NextConfidence(sf.confidence, count),
                 finalized  |-> Finalizes(sf.confidence, count)]
          BY <4>2, <5>1, <2>3, <2>5
             DEF RecordPoll, RecordSuccessfulPoll, SlushRecordSuccessfulPoll, ConfidenceIn
        <5>3. sf'.finalized = Finalizes(sf.confidence, count)
          BY <4>2, <3>1, <3>f
        <5> QED
          BY <5>2, <5>3, <2>1, <2>2, <3>1 DEF ExtendIsSeamless
      <4> QED
        BY <4>1, <4>2, <1>t
    <3>4. TypeOK'
      BY <1>p, <2>1, <2>2, <3>1, ChoicesAssumption DEF TypeOK
    <3> QED
      BY <2>1, <3>1, <3>2, <3>3, <3>4 DEF Inv
  <2> QED
    BY <2>4, <2>5
<1>2. CASE Extend
  <2>1. /\ extended = FALSE
        /\ extended' = TRUE
        /\ sf.finalized = FALSE
        /\ sf' = UnaryExtend(sf, Initial)
        /\ sb' = sb
        /\ polls' = polls
    BY <1>2, <1>t DEF Extend
  <2>2. /\ sf' \in Snowflakes
        /\ sf'.finalized = sf.finalized
        /\ sf'.confidence = sf.confidence
        /\ Preference = Initial
        /\ Preference' = Initial
    BY <1>t, <2>1, ChoicesAssumption DEF UnaryExtend, Snowflakes, Preference
  <2> QED
    BY <1>t, <2>1, <2>2 DEF Inv, TypeOK, ExtendIsSeamless
<1>3. ASSUME NEW count \in 0 .. K, NEW c \in Choices, Record(count, c)
      PROVE  Inv' /\ (sf.finalized => sf'.finalized /\ Preference' = Preference)
  <2> DEFINE p == [choice |-> c, count |-> count]
  <2>1. /\ extended = TRUE
        /\ extended' = TRUE
        /\ Preference = sf.preference
        /\ Preference' = sf'.preference
        /\ sf' = RecordPoll(sf, count, c)
        /\ sb' = SnowballRecordPoll(sb, count, c)
        /\ polls' = Append(polls, p)
    BY <1>3, <1>t DEF Record, Preference
  <2>2. sb' \in Snowballs /\ sb'.snowflake = RecordPoll(flake, count, c)
    BY <1>t, <2>1, SnowballType
  <2>3. /\ flake.preference = sf.preference
        /\ flake.finalized = sf.finalized
        /\ ~sf.finalized => flake.confidence = sf.confidence
    BY <2>1 DEF Inv, ExtendIsSeamless
  <2>4. CASE sf.finalized = TRUE
    <3>1. sf' = sf /\ RecordPoll(flake, count, c) = flake
      BY <2>1, <2>3, <2>4
         DEF RecordPoll, RecordSuccessfulPoll, SlushRecordSuccessfulPoll, ConfidenceIn
    <3>2. Sound(polls', sf'.finalized, Preference', sf'.confidence)
      BY <2>1, <2>4, <3>1, <1>t, <1>p, SoundDecided DEF Inv
    <3> QED
      BY <1>t, <1>p, <2>1, <2>2, <2>3, <2>4, <3>1, <3>2 DEF Inv, TypeOK, ExtendIsSeamless
  <2>5. CASE sf.finalized = FALSE /\ count < AlphaPreference
    <3>1. /\ sf' = [sf EXCEPT !.confidence = NoConfidence]
          /\ RecordPoll(flake, count, c) = [flake EXCEPT !.confidence = NoConfidence]
      BY <2>1, <2>3, <2>5
         DEF RecordPoll, RecordSuccessfulPoll, SlushRecordSuccessfulPoll, ConfidenceIn,
             RecordUnsuccessfulPoll
    <3>2. /\ sf' \in Snowflakes
          /\ sf'.confidence = NoConfidence
          /\ sf'.finalized = FALSE
          /\ sf'.preference = sf.preference
      BY <1>t, <1>n, <2>1, <2>5, <3>1 DEF Snowflakes
    <3>3. Sound(polls, FALSE, Preference, sf.confidence)
      BY <2>5 DEF Inv
    <3>4. Sound(Append(polls, p), FALSE, Preference, NoConfidence)
      BY <1>t, <1>p, <2>5, <3>3, SoundUnsuccessful
    <3>5. ExtendIsSeamless'
      BY <1>t, <2>1, <2>2, <2>3, <2>5, <3>1, <3>2 DEF ExtendIsSeamless, Snowflakes
    <3> QED
      BY <1>p, <2>1, <2>2, <2>5, <3>2, <3>4, <3>5 DEF Inv, TypeOK
  <2>6. CASE sf.finalized = FALSE /\ ~(count < AlphaPreference)
    <3> DEFINE before == IF c = sf.preference THEN sf.confidence ELSE NoConfidence
    <3>1. /\ sf' = [preference |-> c,
                    confidence |-> NextConfidence(before, count),
                    finalized  |-> Finalizes(before, count)]
          /\ RecordPoll(flake, count, c) = sf'
      BY <2>1, <2>3, <2>6
         DEF RecordPoll, RecordSuccessfulPoll, SlushRecordSuccessfulPoll, ConfidenceIn
    <3>2. before \in Confidences
      BY <1>t, <1>n
    <3>3. sf' \in Snowflakes
      BY <1>p, <3>1, <3>2, NextConfidenceType DEF Snowflakes
    <3>4. Sound(polls, FALSE, sf.preference, sf.confidence)
      BY <2>1, <2>6 DEF Inv
    <3>5. count >= AlphaPreference
      BY <1>p, <2>6, ParametersVerify
    <3>6. sf.preference \in Choices
      BY <1>t, <2>1
    <3>7. Sound(Append(polls, p), Finalizes(before, count), c, NextConfidence(before, count))
      BY <1>t, <3>4, <3>5, <3>6, SoundSuccessful
    <3>8. Sound(polls', sf'.finalized, Preference', sf'.confidence)
      <4> HIDE DEF before, p
      <4>1. /\ sf'.preference = c
            /\ sf'.confidence = NextConfidence(before, count)
            /\ sf'.finalized = Finalizes(before, count)
        BY <3>1
      <4>2. Preference' = c /\ polls' = Append(polls, p)
        BY <2>1, <4>1
      <4> QED
        BY <3>7, <4>1, <4>2
    <3>9. ExtendIsSeamless'
      BY <2>1, <2>2, <3>1 DEF ExtendIsSeamless
    <3> QED
      BY <1>p, <2>1, <2>2, <2>6, <3>3, <3>8, <3>9 DEF Inv, TypeOK
  <2> QED
    BY <1>t, <2>4, <2>5, <2>6
<1>4. CASE Unsuccessful
  <2> DEFINE p == [choice |-> Initial, count |-> 0]
  <2>1. /\ sf' = [sf EXCEPT !.confidence = NoConfidence]
        /\ extended' = extended
        /\ sb' = SnowballRecordUnsuccessfulPoll(sb)
        /\ polls' = Append(polls, p)
    BY <1>4 DEF Unsuccessful, RecordUnsuccessfulPoll, UnaryRecordUnsuccessfulPoll
  <2>2. 0 \in 0 .. K
    BY ParametersVerify
  <2>3. sb' \in Snowballs /\ sb'.snowflake = [flake EXCEPT !.confidence = NoConfidence]
    BY <1>t, <2>1, <2>2, SnowballType, ChoicesAssumption DEF RecordUnsuccessfulPoll
  <2>4. /\ extended => sf' \in Snowflakes
        /\ ~extended => sf' \in UnarySnowflakes
        /\ sf'.confidence = NoConfidence
        /\ sf'.finalized = sf.finalized
        /\ Preference' = Preference
    BY <1>t, <1>n, <2>1 DEF Snowflakes, UnarySnowflakes, Preference
  <2>5. Sound(polls', sf'.finalized, Preference', sf'.confidence)
    <3>1. p \in Poll /\ p.count < AlphaPreference
      BY <1>p, <2>2, ParametersVerify, ChoicesAssumption
    <3>2. CASE sf.finalized = TRUE
      BY <3>1, <3>2, <1>t, <2>1, <2>4, SoundDecided DEF Inv
    <3>3. CASE sf.finalized = FALSE
      <4>1. Sound(polls, FALSE, Preference, sf.confidence)
        BY <3>3 DEF Inv
      <4>2. Sound(Append(polls, p), FALSE, Preference, NoConfidence)
        BY <3>1, <4>1, <1>t, SoundUnsuccessful
      <4> QED
        BY <3>3, <2>1, <2>4, <4>2
    <3> QED
      BY <1>t, <3>2, <3>3
  <2>6. ExtendIsSeamless'
    <3>1. /\ flake.preference = Preference
          /\ flake.finalized = sf.finalized
      BY DEF Inv, ExtendIsSeamless
    <3> QED
      BY <1>t, <2>3, <2>4, <3>1 DEF ExtendIsSeamless, Snowflakes
  <2>7. polls' \in Seq(Poll)
    BY <1>p, <2>1, <2>2, ChoicesAssumption
  <2>8. TypeOK'
    BY <1>t, <2>1, <2>3, <2>4, <2>7 DEF TypeOK
  <2> QED
    BY <2>4, <2>5, <2>6, <2>8 DEF Inv
<1> QED
  BY <1>1, <1>2, <1>3, <1>4 DEF Next

(* A stuttering step changes nothing. *)
LEMMA StutterInv == Inv /\ UNCHANGED vars => Inv'
BY DEF Inv, vars, TypeOK, ExtendIsSeamless, Preference

(* The inductive invariant holds throughout the life of a decision. *)
THEOREM InstanceInvariant == Spec => []Inv
<1>1. Inv /\ [Next]_vars => Inv'
  BY NextInv, StutterInv
<1> QED
  BY InitInv, <1>1, PTL DEF Spec

(* Types: the instances and the history stay well formed. *)
THEOREM TypeCorrect == Spec => []TypeOK
<1>1. Inv => TypeOK
  BY DEF Inv
<1> QED
  BY InstanceInvariant, <1>1, PTL

(* The documented order of the confidence counters, for any list of        *)
(* termination conditions.                                                 *)
THEOREM OrderTheorem == Spec => []ConfidenceOrdered
<1>1. Inv => ConfidenceOrdered
  BY DEF Inv, Sound, ConfidenceOrdered
<1> QED
  BY InstanceInvariant, <1>1, PTL

(* An instance is decided exactly when one choice had beta consecutive     *)
(* polls at some threshold.                                                *)
THEOREM DecisionTheorem == Spec => []FinalizedByRun
<1>1. Inv => FinalizedByRun
  BY DEF Inv, Sound, FinalizedByRun
<1> QED
  BY InstanceInvariant, <1>1, PTL

(* An undecided instance's counters are exactly the lengths of the current *)
(* runs of polls.                                                          *)
THEOREM RunTheorem == Spec => []ConfidenceIsRun
<1>1. Inv => ConfidenceIsRun
  BY DEF Inv, Sound, ConfidenceIsRun
<1> QED
  BY InstanceInvariant, <1>1, PTL

(* The slush rule: an undecided instance prefers the choice of the last    *)
(* successful poll.                                                        *)
THEOREM SlushTheorem == Spec => []PreferenceIsLast
<1>1. Inv => PreferenceIsLast
  BY DEF Inv, Sound, PreferenceIsLast
<1> QED
  BY InstanceInvariant, <1>1, PTL

(* Extending a unary instance to a binary one is seamless. *)
THEOREM SeamlessTheorem == Spec => []ExtendIsSeamless
<1>1. Inv => ExtendIsSeamless
  BY DEF Inv
<1> QED
  BY InstanceInvariant, <1>1, PTL

(* A poll adds itself to the successes of its choice, if it is one. *)
LEMMA SuccessesStep ==
    ASSUME polls \in Seq(Poll), NEW p \in Poll, polls' = Append(polls, p), NEW c
    PROVE  /\ Cardinality(Successes(c)) \in Nat
           /\ Cardinality(Successes(c)')
                = IF p.choice = c /\ p.count >= AlphaPreference
                  THEN Cardinality(Successes(c)) + 1 ELSE Cardinality(Successes(c))
<1>1. /\ Len(polls) \in Nat /\ Len(polls') = Len(polls) + 1
      /\ polls'[Len(polls) + 1] = p /\ \A k \in 1 .. Len(polls) : polls'[k] = polls[k]
  OBVIOUS
<1>2. Successes(c) \subseteq 1 .. Len(polls)
  BY DEF Successes
<1>3. IsFiniteSet(Successes(c))
  <2>1. IsFiniteSet(1 .. Len(polls))
    BY <1>1, FS_Interval
  <2> QED
    BY <1>2, <2>1, FS_Subset
<1>4. Cardinality(Successes(c)) \in Nat
  BY <1>3, FS_CardinalityType
<1>5. CASE p.choice = c /\ p.count >= AlphaPreference
  <2>1. Successes(c)' = Successes(c) \cup {Len(polls) + 1}
    BY <1>1, <1>5 DEF Successes
  <2>2. Len(polls) + 1 \notin Successes(c)
    BY <1>1, <1>2
  <2> QED
    BY <1>3, <1>4, <1>5, <2>1, <2>2, FS_AddElement
<1>6. CASE ~(p.choice = c /\ p.count >= AlphaPreference)
  <2>1. Successes(c)' = Successes(c)
    BY <1>1, <1>6 DEF Successes
  <2> QED
    BY <1>4, <1>6, <2>1
<1> QED
  BY <1>5, <1>6

(* nnarySnowball.RecordPoll counts a successful poll for its choice. *)
LEMMA SnowballCounts ==
    ASSUME TypeOK, SnowballPrefersStrongest, NEW count \in 0 .. K, NEW choice \in Choices,
           sb' = SnowballRecordPoll(sb, count, choice),
           polls' = Append(polls, [choice |-> choice, count |-> count])
    PROVE  SnowballPrefersStrongest'
<1> DEFINE strength == sb.preferenceStrength
<1>1. /\ strength \in [Choices -> Nat] /\ sb.maxStrength \in Nat /\ sb.preference \in Choices
      /\ \A c \in Choices : strength[c] <= sb.maxStrength
      /\ strength[sb.preference] = sb.maxStrength
      /\ \A c \in Choices : strength[c] = Cardinality(Successes(c))
  BY DEF TypeOK, Snowballs, SnowballPrefersStrongest
<1>2. \A c : /\ Cardinality(Successes(c)) \in Nat
            /\ Cardinality(Successes(c)')
                 = IF choice = c /\ count >= AlphaPreference
                   THEN Cardinality(Successes(c)) + 1 ELSE Cardinality(Successes(c))
  <2>1. [choice |-> choice, count |-> count] \in Poll /\ polls \in Seq(Poll)
    BY DEF Poll, TypeOK
  <2> QED
    BY <2>1, SuccessesStep
<1>3. CASE count >= AlphaPreference
  <2>1. /\ sb'.preferenceStrength = [strength EXCEPT ![choice] = strength[choice] + 1]
        /\ sb'.preference = IF strength[choice] + 1 > sb.maxStrength THEN choice ELSE sb.preference
        /\ sb'.maxStrength = IF strength[choice] + 1 > sb.maxStrength THEN strength[choice] + 1
                             ELSE sb.maxStrength
    BY <1>3 DEF SnowballRecordPoll, Stronger
  <2>2. \A c \in Choices : sb'.preferenceStrength[c] = Cardinality(Successes(c)')
    BY <1>1, <1>2, <1>3, <2>1
  <2>3. \A c \in Choices : sb'.preferenceStrength[c] <= sb'.maxStrength
    <3>0. TAKE c \in Choices
    <3>1. sb'.preferenceStrength[c] = IF c = choice THEN strength[choice] + 1 ELSE strength[c]
      BY <1>1, <2>1
    <3>2. /\ strength[c] \in Nat /\ strength[choice] \in Nat /\ sb.maxStrength \in Nat
          /\ strength[c] <= sb.maxStrength
      BY <1>1
    <3>. QED  BY <2>1, <3>1, <3>2
  <2>4. sb'.preferenceStrength[sb'.preference] = sb'.maxStrength
    BY <1>1, <2>1
  <2> QED
    BY <2>2, <2>3, <2>4 DEF SnowballPrefersStrongest
<1>4. CASE ~(count >= AlphaPreference)
  <2>1. /\ sb'.preferenceStrength = strength /\ sb'.preference = sb.preference
        /\ sb'.maxStrength = sb.maxStrength
    BY <1>4 DEF SnowballRecordPoll, Stronger
  <2>2. \A c \in Choices : sb'.preferenceStrength[c] = Cardinality(Successes(c)')
    BY <1>1, <1>2, <1>4, <2>1
  <2> QED
    BY <1>1, <2>1, <2>2 DEF SnowballPrefersStrongest
<1> QED
  BY <1>3, <1>4

(* The strengths of a snowball count exactly the successful polls of each  *)
(* choice, and its preference is a strongest choice, after any polls.      *)
THEOREM StrengthTheorem == Spec => []SnowballPrefersStrongest
<1>1. Init => SnowballPrefersStrongest
  <2> SUFFICES ASSUME Init PROVE SnowballPrefersStrongest
    OBVIOUS
  <2>1. \A c : Successes(c) = {}
    BY DEF Init, Successes
  <2>2. \A c : Cardinality(Successes(c)) = 0
    BY <2>1, FS_EmptySet
  <2> QED
    BY <2>2, ChoicesAssumption DEF Init, newSnowball, SnowballPrefersStrongest
<1>2. TypeOK /\ SnowballPrefersStrongest /\ [Next]_vars => SnowballPrefersStrongest'
  <2> SUFFICES ASSUME TypeOK, SnowballPrefersStrongest, [Next]_vars
               PROVE  SnowballPrefersStrongest'
    OBVIOUS
  <2>1. ASSUME NEW count \in 0 .. K, UnaryPoll(count)  PROVE SnowballPrefersStrongest'
    BY <2>1, SnowballCounts, ChoicesAssumption DEF UnaryPoll
  <2>2. ASSUME NEW count \in 0 .. K, NEW choice \in Choices, Record(count, choice)
        PROVE  SnowballPrefersStrongest'
    BY <2>2, SnowballCounts DEF Record
  <2>3. CASE Unsuccessful
    <3> DEFINE none == [choice |-> Initial, count |-> 0]
    <3>1. none \in Poll /\ ~(none.count >= AlphaPreference)
      BY ChoicesAssumption, ParametersVerify DEF Poll
    <3>2. polls' = Append(polls, none) /\ polls \in Seq(Poll)
      BY <2>3 DEF Unsuccessful, TypeOK
    <3> HIDE DEF none
    <3>3. \A c : Cardinality(Successes(c)') = Cardinality(Successes(c))
      BY <3>1, <3>2, SuccessesStep
    <3>4. /\ sb'.preferenceStrength = sb.preferenceStrength /\ sb'.preference = sb.preference
          /\ sb'.maxStrength = sb.maxStrength
      BY <2>3 DEF Unsuccessful, TypeOK, Snowballs, SnowballRecordUnsuccessfulPoll
    <3> QED
      BY <3>3, <3>4 DEF SnowballPrefersStrongest
  <2>4. CASE Extend \/ UNCHANGED vars
    <3>1. sb' = sb /\ polls' = polls
      BY <2>4 DEF Extend, vars
    <3> QED
      BY <3>1 DEF SnowballPrefersStrongest, Successes
  <2> QED
    BY <2>1, <2>2, <2>3, <2>4 DEF Next
<1> QED
  BY <1>1, <1>2, TypeCorrect, PTL DEF Spec

(* A decision is never revoked nor changed. *)
THEOREM FinalTheorem == Spec => DecisionIsFinal
<1>1. Inv /\ [Next]_vars => [sf.finalized => sf'.finalized /\ Preference' = Preference]_vars
  BY NextInv
<1> QED
  BY InstanceInvariant, <1>1, PTL DEF Spec, DecisionIsFinal
=============================================================================
