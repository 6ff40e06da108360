---------------------------- MODULE EagerSnowman ----------------------------
(***************************************************************************)
(* What snow/consensus/snowman promises: every poll is told at once to     *)
(* every snowball instance of the tree.  An instance without               *)
(* AlphaPreference votes above its block loses its confidence in that very *)
(* poll; there are no pending falters or resets, no vote stack and no      *)
(* cached preferred branch.                                                *)
(***************************************************************************)
EXTENDS BlockTree

CONSTANT Nil

VARIABLES
    trees,       \* the instance of every issued block, Nil without children
    last,        \* the last accepted block
    accepted,
    rejected,
    preference   \* the preferred leaf

vars == <<trees, last, accepted, rejected, preference>>

(* b is reached from a by following the preferences of the instances in f. *)
Prefers(f, a, b) ==
    /\ a \in Upto(b)
    /\ \A q \in Ancestors[b] : a \in Upto(q) =>
          q \in DOMAIN f /\ f[q] # Nil /\ TreePreference(f[q]) \in Upto(b)

Init ==
    /\ trees = [b \in {Genesis} |-> Nil]
    /\ last = Genesis
    /\ accepted = {Genesis}
    /\ rejected = {}
    /\ preference = Genesis

Add(b) ==
    /\ b \notin DOMAIN trees
    /\ b # Genesis
    /\ Parent[b] \in DOMAIN trees
    /\ trees' = [a \in DOMAIN trees \cup {b} |->
                    IF a = b THEN Nil
                    ELSE IF a # Parent[b] THEN trees[a]
                    ELSE IF trees[a] = Nil THEN NewTree(b)
                    ELSE TreeAdd(trees[a], b)]
    /\ preference' = IF preference = Parent[b] THEN b ELSE preference
    /\ UNCHANGED <<last, accepted, rejected>>

After(votes, polled) ==
    [p \in DOMAIN trees |->
        IF trees[p] = Nil THEN Nil
        ELSE IF p \in polled
             THEN Settled(TreeRecordPoll(trees[p], VotesAt(DOMAIN trees, last, votes, p)), FALSE)
             ELSE Settled(trees[p], TRUE)]

(* Every block that decided instances lead to is accepted, and what        *)
(* conflicts with it is rejected.                                          *)
Decide(f) ==
    LET reached == {b \in DOMAIN f : /\ Prefers(f, last, b)
                                     /\ \A q \in Ancestors[b] \cap DOMAIN f : TreeFinalized(f[q])}
        new     == CHOOSE b \in reached : \A a \in reached : Height[a] <= Height[b]
        gone    == {b \in DOMAIN f : new \notin Upto(b)}
    IN  /\ last' = new
        /\ accepted' = accepted \cup reached
        /\ rejected' = rejected \cup (gone \ Ancestors[new])
        /\ preference' \in DOMAIN f
        /\ f[preference'] = Nil
        /\ Prefers(f, new, preference')
        /\ trees' = [b \in DOMAIN f \ gone |-> f[b]]

Poll(votes) == Decide(After(votes, Polled(DOMAIN trees, last, votes)))

Next ==
    \/ \E b \in Blocks : Add(b)
    \/ \E votes \in Ballots : Poll(votes)

Spec == Init /\ [][Next]_vars
=============================================================================
