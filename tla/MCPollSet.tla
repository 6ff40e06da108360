----------------------------- MODULE MCPollSet ------------------------------
EXTENDS MCBlocks, PollSet

(* One of two validators is drawn twice. *)
MCTwoValidators == {<<"a", "a", "b">>, <<"a", "b", "b">>}
=============================================================================
