-------------------------------- MODULE MCApp --------------------------------
(* A small instance of App. *)
EXTENDS App, MCDaemon

CONSTANT c

\* Forced or not, for the only pid.
AskForA == {[pids |-> <<a>>, force |-> force] : force \in BOOLEAN}

\* The policy diagnoses, which may fail, before it terminates.
Diagnosing == [p |-> Rule(1, 1, {}, 0, <<"diagnose", "notify", "terminate">>)]
=============================================================================
