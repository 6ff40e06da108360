--------------------------- MODULE MCSnowInstance ---------------------------
(* Three termination conditions, as in snowflake_test.go, with beta small  *)
(* enough that each of them can finalize within MaxPolls polls.            *)
EXTENDS SnowInstance

MCTerminations ==
    << [alphaConfidence |-> 3, beta |-> 4],
       [alphaConfidence |-> 4, beta |-> 3],
       [alphaConfidence |-> 5, beta |-> 2] >>
=============================================================================
