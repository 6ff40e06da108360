-------------------------- MODULE SnowmanLiveness ---------------------------
(***************************************************************************)
(* Progress of Topological.  Polls go on as long as a block is processing  *)
(* (Engine.repoll); nothing can be decided while the sampled validators    *)
(* disagree, so progress is stated for a network that agrees from some     *)
(* moment on: every poll then returns this node's preference.              *)
(***************************************************************************)
EXTENDS Topological

VARIABLES
    agreed,  \* the polled validators agree from now on
    parity   \* of ts.pollNumber since then: a poll is a step even if it
             \* changes nothing else

lvars == <<vars, agreed, parity>>

Unanimous == [s \in Slots |-> preference]

AddBlock(b) == Add(b) /\ UNCHANGED <<agreed, parity>>

ArbitraryPoll(votes) == ~agreed /\ Poll(votes) /\ UNCHANGED <<agreed, parity>>

Agree == ~agreed /\ agreed' = TRUE /\ UNCHANGED <<vars, parity>>

UnanimousPoll ==
    /\ agreed
    /\ preference # lastAccepted
    /\ Poll(Unanimous)
    /\ parity' = 1 - parity
    /\ UNCHANGED agreed

LiveInit == Init /\ agreed = FALSE /\ parity = 0

LiveNext ==
    \/ \E b \in Blocks : AddBlock(b)
    \/ \E votes \in Ballots : ArbitraryPoll(votes)
    \/ Agree
    \/ UnanimousPoll

(* Weak fairness of UnanimousPoll, with its guard in place of ENABLED: it  *)
(* always changes parity, so that it is enabled when its guard holds.      *)
PollsGoOn ==
    \/ []<>~(agreed /\ preference # lastAccepted)
    \/ []<><<UnanimousPoll>>_lvars

LiveSpec == LiveInit /\ [][LiveNext]_lvars /\ WF_lvars(Agree) /\ PollsGoOn

-----------------------------------------------------------------------------
(* Once the polls agree, the preferred block is accepted: no pending       *)
(* falter, reset or stale confidence left by earlier polls stops it, and   *)
(* the blocks issued meanwhile do not either.                              *)
PreferenceIsAccepted ==
    \A b \in Blocks : (agreed /\ preference = b) ~> (b \in accepted)

(* Every issued block is accepted or rejected in the end: none is stuck in *)
(* processing because it stopped being voted for.                          *)
EveryBlockIsDecided ==
    \A b \in Blocks : (b \in DOMAIN blocks) ~> (b \in accepted \cup rejected)
=============================================================================
