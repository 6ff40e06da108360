----------------------------- MODULE Snowflake -----------------------------
(***************************************************************************)
(* The instances of snow/consensus/snowball that count votes for one       *)
(* decision: slush (a preference), snowflake (a preference and a           *)
(* confidence counter per termination condition) and snowball (snowflake   *)
(* plus a preference strength per choice).  Each is a value; the           *)
(* operations below map an instance to the instance after the call.        *)
(*                                                                         *)
(* A snowflake is [preference, confidence, finalized].  A unary snowflake  *)
(* decides a single choice and therefore has no preference of its own.     *)
(***************************************************************************)
EXTENDS Naturals, Sequences

CONSTANTS
    K,                \* Parameters.K: validators sampled by a poll
    AlphaPreference,  \* Parameters.AlphaPreference
    Terminations      \* the slice of terminationCondition values

TerminationCondition == [alphaConfidence : Nat, beta : Nat]

Conditions == DOMAIN Terminations

(* Parameters.Verify, and the documented order of the conditions: ascending *)
(* in alphaConfidence, descending in beta.                                  *)
ASSUME ParametersVerify ==
    /\ K \in Nat
    /\ AlphaPreference \in Nat
    /\ Terminations \in Seq(TerminationCondition)
    /\ Len(Terminations) > 0
    /\ K < 2 * AlphaPreference
    /\ \A i \in Conditions :
          /\ AlphaPreference <= Terminations[i].alphaConfidence
          /\ Terminations[i].alphaConfidence <= K
          /\ Terminations[i].beta > 0
          /\ \A j \in Conditions : i <= j =>
                /\ Terminations[i].alphaConfidence <= Terminations[j].alphaConfidence
                /\ Terminations[i].beta >= Terminations[j].beta

newSingleTerminationCondition(alphaConfidence, beta) ==
    << [alphaConfidence |-> alphaConfidence, beta |-> beta] >>

Confidences == [Conditions -> Nat]

NoConfidence == [i \in Conditions |-> 0]

-----------------------------------------------------------------------------
(* The loop over the termination conditions, shared by every RecordPoll.   *)
(* It leaves the loop at the first condition that count does not reach,    *)
(* clearing that counter and all later ones, or at the first one whose     *)
(* counter reaches beta, leaving all later counters as they are.           *)

Reaches(count, i) ==
    \A j \in 1 .. i : count >= Terminations[j].alphaConfidence

FinalizesAt(confidence, count, i) ==
    /\ Reaches(count, i)
    /\ confidence[i] + 1 >= Terminations[i].beta

Finalizes(confidence, count) ==
    \E i \in Conditions : FinalizesAt(confidence, count, i)

(* Faulty: clears only the first counter that count does not reach. *)
NextConfidenceClearsOne(confidence, count) ==
    [i \in Conditions |->
        IF \E j \in 1 .. (i - 1) : FinalizesAt(confidence, count, j) THEN confidence[i]
        ELSE IF Reaches(count, i) THEN confidence[i] + 1
        ELSE IF Reaches(count, i - 1) THEN 0 ELSE confidence[i]]

NextConfidence(confidence, count) ==
    [i \in Conditions |->
        IF \E j \in 1 .. (i - 1) : FinalizesAt(confidence, count, j)
        THEN confidence[i]
        ELSE IF Reaches(count, i) THEN confidence[i] + 1 ELSE 0]

-----------------------------------------------------------------------------
(* unarySnowflake *)

newUnarySnowflake == [confidence |-> NoConfidence, finalized |-> FALSE]

UnaryRecordUnsuccessfulPoll(sf) == [sf EXCEPT !.confidence = NoConfidence]

UnaryRecordPoll(sf, count) ==
    [confidence |-> NextConfidence(sf.confidence, count),
     finalized  |-> sf.finalized \/ Finalizes(sf.confidence, count)]

(* Faulty: starts over. *)
UnaryExtendForgets(sf, choice) ==
    [preference |-> choice, confidence |-> NoConfidence, finalized |-> sf.finalized]

UnaryExtend(sf, choice) ==
    [preference |-> choice,
     confidence |-> sf.confidence,
     finalized  |-> sf.finalized]

-----------------------------------------------------------------------------
(* binarySnowflake and nnarySnowflake: the same code over two choices and  *)
(* over any set of choices.                                                *)

newSnowflake(choice) ==
    [preference |-> choice, confidence |-> NoConfidence, finalized |-> FALSE]

RecordUnsuccessfulPoll(sf) == [sf EXCEPT !.confidence = NoConfidence]

(* Faulty: the preference stays. *)
SlushKeepsPreference(preference, choice) == preference

(* slush: a successful poll moves the preference. *)
SlushRecordSuccessfulPoll(preference, choice) == choice

(* Faulty: keeps the confidence gained for another choice. *)
ConfidenceInAny(sf, choice) == sf.confidence

(* The confidence counts polls for the preferred choice. *)
ConfidenceIn(sf, choice) == IF choice = sf.preference THEN sf.confidence ELSE NoConfidence

RecordSuccessfulPoll(sf, count, choice) ==
    [preference |-> SlushRecordSuccessfulPoll(sf.preference, choice),
     confidence |-> NextConfidence(ConfidenceIn(sf, choice), count),
     finalized  |-> Finalizes(ConfidenceIn(sf, choice), count)]

(* Faulty: goes on after the decision. *)
RecordPollIgnoresFinalized(sf, count, choice) ==
    IF count < AlphaPreference THEN RecordUnsuccessfulPoll(sf)
    ELSE RecordSuccessfulPoll(sf, count, choice)

RecordPoll(sf, count, choice) ==
    IF sf.finalized THEN sf
    ELSE IF count < AlphaPreference THEN RecordUnsuccessfulPoll(sf)
    ELSE RecordSuccessfulPoll(sf, count, choice)

-----------------------------------------------------------------------------
(* nnarySnowball: a snowflake, and per choice the number of polls in which *)
(* it had AlphaPreference votes.                                           *)

newSnowball(choices, choice) ==
    [snowflake          |-> newSnowflake(choice),
     preference         |-> choice,
     maxStrength        |-> 0,
     preferenceStrength |-> [c \in choices |-> 0]]

SnowballPreference(sb) ==
    IF sb.snowflake.finalized THEN sb.snowflake.preference ELSE sb.preference

(* Faulty: every successful poll counts as the strongest. *)
StrongerAlways(sb, count, choice) == count >= AlphaPreference

Stronger(sb, count, choice) ==
    count >= AlphaPreference /\ sb.preferenceStrength[choice] + 1 > sb.maxStrength

SnowballRecordPoll(sb, count, choice) ==
    LET strength == sb.preferenceStrength[choice] + 1
        stronger == Stronger(sb, count, choice)
    IN  [snowflake          |-> RecordPoll(sb.snowflake, count, choice),
         preference         |-> IF stronger THEN choice ELSE sb.preference,
         maxStrength        |-> IF stronger THEN strength ELSE sb.maxStrength,
         preferenceStrength |->
            IF count >= AlphaPreference
            THEN [sb.preferenceStrength EXCEPT ![choice] = strength]
            ELSE sb.preferenceStrength]

SnowballRecordUnsuccessfulPoll(sb) ==
    [sb EXCEPT !.snowflake = RecordUnsuccessfulPoll(@)]
=============================================================================
