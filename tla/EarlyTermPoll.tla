--------------------------- MODULE EarlyTermPoll ----------------------------
(***************************************************************************)
(* snow/consensus/snowman/poll earlyTermPoll: when a poll may stop waiting *)
(* for answers.                                                            *)
(*                                                                         *)
(* The sampled validators hold K slots, as many each as they were drawn    *)
(* times.  votes maps the slots that were answered to the block named in   *)
(* the answer; remaining is the number of slots still waited for.          *)
(***************************************************************************)
EXTENDS BlockTree

(* Topological.GetParent: no answer for the block given to Initialize, of  *)
(* which Topological only knows the id.                                    *)
HasParent(issued, b) == b \in issued /\ b # Genesis

(* The vertices that addIDAndAncestorsToGraph adds for a vote for b. *)
Lineage(issued, b) ==
    {a \in Upto(b) : \A c \in Upto(b) : a \in Ancestors[c] => HasParent(issued, c)}

(* computeTransitiveVoteCountGraph: votes for a or for a vertex above it. *)
TransitiveVotes(issued, votes, a) ==
    {s \in DOMAIN votes : a \in Lineage(issued, votes[s])}

Vertices(issued, votes) == UNION {Lineage(issued, votes[s]) : s \in DOMAIN votes}

Descendants(issued, votes, a) ==
    {c \in Vertices(issued, votes) : HasParent(issued, c) /\ Parent[c] = a}

(* longestSharedPrefixes and bifurcationsWithCommonPrefix: a group shares  *)
(* its first i bits, i > 0, and splits at the next one.                    *)
PrefixGroups(ids) ==
    {g \in {{d \in ids : Prefix(d, i) = Prefix(c, i)} : c \in ids, i \in 1 .. (NumBits - 1)} :
        \E i \in 1 .. (NumBits - 1) :
            /\ \A c, d \in g : Prefix(c, i) = Prefix(d, i)
            /\ \E c, d \in g : Bit(c, i) # Bit(d, i)}

(* The votes of each vertex and of each prefix shared by its children. *)
VotesForIDs(issued, votes) ==
    {TransitiveVotes(issued, votes, a) : a \in Vertices(issued, votes)}

(* Faulty: the prefixes are not looked at. *)
VotesForNoPrefixes(issued, votes) == {}

VotesForPrefixes(issued, votes) ==
    UNION {{UNION {TransitiveVotes(issued, votes, c) : c \in g} :
                g \in PrefixGroups(Descendants(issued, votes, a))} :
           a \in Vertices(issued, votes)}

-----------------------------------------------------------------------------
(* Parameters.AlphaConfidence of the one termination condition the factory *)
(* is used with.                                                           *)
alphaConfidence == Terminations[1].alphaConfidence

(* Faulty: a preference is taken for confidence. *)
shouldTerminatePreferred(freq, remaining) ==
    freq + remaining < AlphaPreference \/ freq >= AlphaPreference

shouldTerminate(freq, remaining) ==
    \/ freq + remaining < AlphaPreference
    \/ freq >= AlphaPreference /\ freq + remaining < alphaConfidence
    \/ freq >= alphaConfidence

CannotImprove(issued, votes, remaining) ==
    /\ DOMAIN votes # {}
    /\ \A voters \in VotesForIDs(issued, votes) \cup VotesForPrefixes(issued, votes) :
          shouldTerminate(Cardinality(voters), remaining)

(* The conditions under which Finished sets finished. *)
Finishes(issued, votes, remaining) ==
    \/ remaining = 0
    \/ Cardinality(DOMAIN votes) + remaining < AlphaPreference
    \/ CannotImprove(issued, votes, remaining)
=============================================================================
