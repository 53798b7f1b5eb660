------------------------------- MODULE MCPosix -------------------------------
(***************************************************************************)
(* Failures, and writes of which what exceeds the file is dropped; or all  *)
(* writes saved, with a symbolic stdin or a symbolic stdout.               *)
(***************************************************************************)
EXTENDS PosixProperties

Setup    == [stdin |-> FALSE, stdout |-> FALSE, save_all_writes |-> FALSE, max_failures |-> 1]
Saving   == [Setup EXCEPT !.save_all_writes = TRUE, !.max_failures = 0]
MCSetups == {Setup, [Saving EXCEPT !.stdin = TRUE], [Saving EXCEPT !.stdout = TRUE]}

=============================================================================
