-------------------------------- MODULE MCApi --------------------------------
(* Small instances of TerminateApi and StatusApi. *)
EXTENDS StatusApi, MCDaemon

CONSTANT c

Ask(pids, force) == [pids |-> pids, force |-> force]

\* Requests for both pids, for one of them twice, or for nobody.
MCRequests ==
    {Ask(pids, force) : pids \in {<<a, b>>, <<b, a>>}, force \in BOOLEAN}
    \cup {Ask(pids, FALSE) : pids \in {<<>>, <<a, a>>, <<b, b>>}}

\* Everything there is to ask, also for a policy that the configuration lacks.
MCQuestions ==
    {[about |-> w, name |-> NoName] : w \in {"status", "policies", "processes"}}
    \cup {[about |-> "policy", name |-> n] : n \in {"p", "z"}}

\* What the validate command would reject but run accepts: a count of zero,
\* which triggers without any process, and an unknown action.
Faulty == [p |-> Rule(0, 1, {}, 0, <<"page", "terminate">>)]
=============================================================================
