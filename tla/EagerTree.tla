----------------------------- MODULE EagerTree ------------------------------
(***************************************************************************)
(* What snowball.Tree promises: one snowflake per bit position and prefix, *)
(* each told of every poll at once.  An instance neither of whose branches *)
(* has AlphaPreference votes is reset in that very poll; there are no      *)
(* pending resets and no nodes that vote over several bits.                *)
(***************************************************************************)
EXTENDS Snowflake, FiniteSets

CONSTANTS
    Choices, NumBits, Bits,
    Ballots    \* the polls: functions from sampled slots to choices

VARIABLES
    added,       \* the choices added
    decided,     \* the bits decided so far
    instance,    \* the snowflake for the bit behind each prefix, or None
    preference   \* the preferred choice

vars == <<added, decided, instance, preference>>

None == newSnowflake(2)  \* no snowflake prefers bit 2

FirstBits(c, n) == [i \in 1 .. n |-> Bits[c][i]]

AllPrefixes == {FirstBits(c, n) : c \in Choices, n \in 0 .. (NumBits - 1)}

(* c starts with p. *)
In(c, p) == FirstBits(c, Len(p)) = p

(* The prefix p starts with d. *)
Starts(p, d) == Len(d) <= Len(p) /\ \A i \in 1 .. Len(d) : p[i] = d[i]

(* The choice that follows the preferred bits. *)
Follows(c, d, f) ==
    /\ In(c, d)
    /\ \A n \in Len(d) .. (NumBits - 1) : f[FirstBits(c, n)].preference = Bits[c][n + 1]

-----------------------------------------------------------------------------
Votes(votes, p, bit) ==
    Cardinality({s \in DOMAIN votes : /\ In(votes[s], decided)
                                      /\ In(votes[s], p)
                                      /\ Bits[votes[s]][Len(p) + 1] = bit})

After(votes, p) ==
    LET won == {b \in {0, 1} : Votes(votes, p, b) >= AlphaPreference} IN
    IF instance[p] = None THEN None
    ELSE IF won = {} THEN RecordUnsuccessfulPoll(instance[p])
    ELSE LET b == CHOOSE b \in won : TRUE
         IN  RecordPoll(instance[p], Votes(votes, p, b), b)

(* after is a function: each instance after the poll.  The poll decides    *)
(* all the bits of d: each instance in front of one of them finalizes.     *)
Decides(after, d) ==
    /\ Starts(d, decided)
    /\ \A n \in Len(decided) .. (Len(d) - 1) :
          LET s == after[SubSeq(d, 1, n)]
          IN  s.finalized /\ s.preference = d[n + 1]

Init ==
    \E c \in Choices :
        /\ added = {c}
        /\ decided = << >>
        /\ instance = [p \in AllPrefixes |->
                          IF In(c, p) THEN newSnowflake(Bits[c][Len(p) + 1]) ELSE None]
        /\ preference = c

(* A choice that was decided against is not added. *)
Add(c) ==
    /\ c \notin added
    /\ added' = added \cup {c}
    /\ instance' = [p \in DOMAIN instance |->
                       IF In(c, decided) /\ In(c, p) /\ Starts(p, decided) /\ instance[p] = None
                       THEN newSnowflake(Bits[c][Len(p) + 1])
                       ELSE instance[p]]
    /\ UNCHANGED <<decided, preference>>

Record(after) ==
    /\ UNCHANGED added
    /\ \E c \in Choices, n \in 0 .. NumBits :
          LET d == FirstBits(c, n) IN
          /\ decided' = d
          /\ Decides(after, d)
          /\ n < NumBits => \A b \in {0, 1} : ~Decides(after, Append(d, b))
    /\ \A p \in DOMAIN instance :
          instance'[p] = IF Starts(p, decided') THEN after[p] ELSE None
    /\ DOMAIN instance' = DOMAIN instance
    /\ preference' \in added
    /\ Follows(preference', decided', instance')

Poll(votes) == Record([p \in DOMAIN instance |-> After(votes, p)])

Unsuccessful ==
    /\ UNCHANGED <<added, decided, preference>>
    /\ \A p \in DOMAIN instance : instance'[p] = RecordUnsuccessfulPoll(instance[p])
    /\ DOMAIN instance' = DOMAIN instance

Next ==
    \/ \E c \in Choices : Add(c)
    \/ Unsuccessful
    \/ \E votes \in Ballots : (\A s \in DOMAIN votes : votes[s] \in added) /\ Poll(votes)

Spec == Init /\ [][Next]_vars
=============================================================================
