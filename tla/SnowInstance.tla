---------------------------- MODULE SnowInstance ----------------------------
(***************************************************************************)
(* The life of one decision.  sf is the instance a Tree node owns: a unary *)
(* snowflake while a single choice is known (unaryNode), extended to a     *)
(* binary snowflake when a second one appears (unaryNode.Add).  sb is the  *)
(* snowball instance of Flat, given the same polls.  polls is a history    *)
(* variable: the polls recorded so far, an unsuccessful one as a poll in   *)
(* which no choice had a vote.                                             *)
(***************************************************************************)
EXTENDS Snowflake, Integers, FiniteSets

CONSTANTS
    Choices,   \* the choices of the decision
    Initial,   \* the choice the instance is created with
    MaxPolls   \* bound on the length of the history

ASSUME ChoicesAssumption == Initial \in Choices /\ MaxPolls \in Nat

VARIABLES sf, extended, sb, polls

vars == <<sf, extended, sb, polls>>

Poll == [choice : Choices, count : 0 .. K]

-----------------------------------------------------------------------------
Init ==
    /\ sf = newUnarySnowflake
    /\ extended = FALSE
    /\ sb = newSnowball(Choices, Initial)
    /\ polls = << >>

(* unaryNode.RecordPoll consults the snowflake only for a poll with        *)
(* AlphaPreference votes, and records an unsuccessful one otherwise.       *)
UnaryPoll(count) ==
    /\ ~extended
    /\ Len(polls) < MaxPolls
    /\ sf' = IF count < AlphaPreference
             THEN UnaryRecordUnsuccessfulPoll(sf)
             ELSE UnaryRecordPoll(sf, count)
    /\ sb' = SnowballRecordPoll(sb, count, Initial)
    /\ polls' = Append(polls, [choice |-> Initial, count |-> count])
    /\ UNCHANGED extended

(* unaryNode.Add leaves a finalized node alone. *)
Extend ==
    /\ ~extended
    /\ ~sf.finalized
    /\ sf' = UnaryExtend(sf, Initial)
    /\ extended' = TRUE
    /\ UNCHANGED <<sb, polls>>

Record(count, choice) ==
    /\ extended
    /\ Len(polls) < MaxPolls
    /\ sf' = RecordPoll(sf, count, choice)
    /\ sb' = SnowballRecordPoll(sb, count, choice)
    /\ polls' = Append(polls, [choice |-> choice, count |-> count])
    /\ UNCHANGED extended

Unsuccessful ==
    /\ Len(polls) < MaxPolls
    /\ sf' = IF extended THEN RecordUnsuccessfulPoll(sf)
             ELSE UnaryRecordUnsuccessfulPoll(sf)
    /\ sb' = SnowballRecordUnsuccessfulPoll(sb)
    /\ polls' = Append(polls, [choice |-> Initial, count |-> 0])
    /\ UNCHANGED extended

Next ==
    \/ \E count \in 0 .. K : UnaryPoll(count)
    \/ Extend
    \/ \E count \in 0 .. K, choice \in Choices : Record(count, choice)
    \/ Unsuccessful

Spec == Init /\ [][Next]_vars

-----------------------------------------------------------------------------
Preference == IF extended THEN sf.preference ELSE Initial

(* In the history h, poll number k gave choice c enough votes for          *)
(* condition i.                                                            *)
Good(h, i, c, k) ==
    /\ h[k].choice = c
    /\ h[k].count >= Terminations[i].alphaConfidence

(* The n polls of h that end with poll number last were all good. *)
Run(h, i, c, last, n) ==
    /\ n <= last
    /\ \A k \in (last - n + 1) .. last : Good(h, i, c, k)

(* confidence counts, for every condition, the run of polls for c that     *)
(* ends with the last poll of h.                                           *)
Streak(h, c, confidence) ==
    \A i \in Conditions :
        /\ Run(h, i, c, Len(h), confidence[i])
        /\ confidence[i] < Len(h) => ~Good(h, i, c, Len(h) - confidence[i])

(* c is the choice of the last poll of h that had AlphaPreference votes    *)
(* for its choice, if there was one.                                       *)
LastSuccess(h, c) ==
    \A k \in 1 .. Len(h) :
        /\ h[k].count >= AlphaPreference
        /\ \A m \in (k + 1) .. Len(h) : h[m].count < AlphaPreference
        => h[k].choice = c

(* No condition has seen beta consecutive polls for one choice. *)
NoRun(h) ==
    \A i \in Conditions, c \in Choices, k \in 1 .. Len(h) :
        ~Run(h, i, c, k, Terminations[i].beta)

Snowflakes == [preference : Choices, confidence : Confidences, finalized : BOOLEAN]

UnarySnowflakes == [confidence : Confidences, finalized : BOOLEAN]

Snowballs == [snowflake          : Snowflakes,
              preference         : Choices,
              maxStrength        : Nat,
              preferenceStrength : [Choices -> Nat]]

(* Types of the instances and of the history. *)
TypeOK ==
    /\ extended \in BOOLEAN
    /\ sf \in IF extended THEN Snowflakes ELSE UnarySnowflakes
    /\ sb \in Snowballs
    /\ polls \in Seq(Poll)

(* The documented invariant of the snowflake types                         *)
(* (unary_snowflake.go:26): a lower threshold is never less confident than *)
(* a higher one, except after an early termination.                        *)
ConfidenceOrdered ==
    ~sf.finalized =>
        \A i, j \in Conditions : i <= j => sf.confidence[i] >= sf.confidence[j]

(* While undecided, confidence[i] is exactly the number of polls since the *)
(* last one that was unsuccessful, preferred something else or missed      *)
(* alphaConfidence: no increment and no reset is ever lost.                *)
ConfidenceIsRun ==
    ~sf.finalized => Streak(polls, Preference, sf.confidence)

(* An instance is decided exactly when, at some time, some condition saw   *)
(* beta consecutive polls for one choice; the preference it is decided     *)
(* with is the choice of such a run.                                       *)
FinalizedByRun ==
    IF sf.finalized
    THEN \E i \in Conditions, k \in 1 .. Len(polls) :
            Run(polls, i, Preference, k, Terminations[i].beta)
    ELSE NoRun(polls)

(* The slush rule (nnary_slush.go:21): while undecided, the preference is  *)
(* the choice of the last successful poll.                                 *)
PreferenceIsLast == ~sf.finalized => LastSuccess(polls, Preference)

(* Extending a unary instance is seamless: at every time it agrees with    *)
(* the multi-choice snowflake that saw all the polls from the start.       *)
ExtendIsSeamless ==
    /\ sf.finalized = sb.snowflake.finalized
    /\ Preference = sb.snowflake.preference
    /\ ~sf.finalized => sf.confidence = sb.snowflake.confidence

Successes(c) ==
    {k \in 1 .. Len(polls) : polls[k].choice = c /\ polls[k].count >= AlphaPreference}

(* Snowball's preference is a choice that as many polls preferred as any   *)
(* other; the strengths count exactly the polls with AlphaPreference votes *)
(* (nnary_snowball.go:27, 34).                                             *)
SnowballPrefersStrongest ==
    /\ \A c \in Choices : sb.preferenceStrength[c] = Cardinality(Successes(c))
    /\ \A c \in Choices : sb.preferenceStrength[c] <= sb.maxStrength
    /\ sb.preferenceStrength[sb.preference] = sb.maxStrength

(* A decision is final: no poll revokes it or changes its preference.      *)
DecisionIsFinal ==
    [][sf.finalized => sf'.finalized /\ Preference' = Preference]_vars

(* unary_snowflake.go:41 says that finalized "prevents the state from      *)
(* changing after the required number of consecutive polls has been        *)
(* reached".                                                               *)
FinalizedFreezesState ==
    [][sf.finalized => UNCHANGED sf]_vars
=============================================================================
