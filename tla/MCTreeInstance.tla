--------------------------- MODULE MCTreeInstance ---------------------------
EXTENDS TreeRecursion

CONSTANTS AlphaConfidence, Beta

MCTerminations == newSingleTerminationCondition(AlphaConfidence, Beta)

(* Four three-bit ids: two share two bits, one shares the first bit with   *)
(* them and one shares none.                                               *)
MCBits == [c \in Choices |->
    CASE c = 1 -> <<0, 0, 0>>
      [] c = 2 -> <<0, 0, 1>>
      [] c = 3 -> <<0, 1, 1>>
      [] c = 4 -> <<1, 1, 0>>]

(* Tree only counts votes, so one listing per bag is enough. *)
MCBallots ==
    UNION {{v \in [1 .. n -> Choices] : \A i, j \in 1 .. n : i < j => v[i] <= v[j]} :
              n \in 0 .. K}
=============================================================================
