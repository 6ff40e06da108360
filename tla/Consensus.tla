----------------------------- MODULE Consensus ------------------------------
(***************************************************************************)
(* snow/consensus/snowman Consensus as the engine sees it: blocks are      *)
(* added on top of the last accepted block, a poll may accept some of them *)
(* and reject what conflicts, and some branch is preferred.  Which poll    *)
(* decides what is left open; Topological implements this specification.   *)
(***************************************************************************)
EXTENDS Chain

VARIABLES
    processing,    \* the blocks that were added and not decided
    lastAccepted,
    preferredIDs,  \* the preferred branch above lastAccepted
    accepted,      \* blocks whose Accept was called
    rejected       \* blocks whose Reject was called

cvars == <<processing, lastAccepted, preferredIDs, accepted, rejected>>

Initialize(last) ==
    /\ processing = {}
    /\ lastAccepted = last
    /\ preferredIDs = {}

Issuable(b) == b # Genesis /\ Parent[b] \in processing \cup {lastAccepted}

(* Preference: the top of the preferred branch. *)
Preference(last, preferred) ==
    CHOOSE b \in preferred \cup {last} : \A a \in preferred : a \in Upto(b)

IsPreferred(b) == b \in preferredIDs \cup {lastAccepted}

(* The branches that can be preferred: as long as possible. *)
Branches(last, blks) ==
    {branch \in SUBSET blks :
        /\ \A b \in branch : Parent[b] \in branch \cup {last}
        /\ \A a, b \in branch : a \in Upto(b) \/ b \in Upto(a)
        /\ \A b \in blks \ branch : Parent[b] # Preference(last, branch)}

Extended(last, preferred, b) ==
    IF Parent[b] = Preference(last, preferred) THEN preferred \cup {b} ELSE preferred

Add(b) ==
    /\ b \notin processing \cup {lastAccepted}
    /\ Issuable(b)
    /\ processing' = processing \cup {b}
    /\ preferredIDs' = Extended(lastAccepted, preferredIDs, b)
    /\ UNCHANGED <<lastAccepted, accepted, rejected>>

(* One poll, or several in a row, up to the acceptance of last. *)
RecordPoll(last) ==
    /\ last \in processing \cup {lastAccepted}
    /\ lastAccepted' = last
    /\ processing' = {b \in processing : last \in Ancestors[b]}
    /\ accepted' = accepted \cup (processing \cap Upto(last))
    /\ rejected' = rejected \cup {b \in processing : b \notin Upto(last) /\ last \notin Ancestors[b]}
    /\ preferredIDs' \in Branches(last, processing')

ConsensusInit == Initialize(Genesis) /\ accepted = {Genesis} /\ rejected = {}

ConsensusNext == \E b \in Blocks : Add(b) \/ RecordPoll(b)

ConsensusSpec == ConsensusInit /\ [][ConsensusNext]_cvars

(* No order of votes, and no restart of the engine, decides a block twice: *)
(* what was accepted is one chain up to the last accepted block, and       *)
(* nothing on it was rejected.                                             *)
AcceptedIsChain == accepted = Upto(lastAccepted) /\ accepted \cap rejected = {}
=============================================================================
