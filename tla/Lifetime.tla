------------------------------- MODULE Lifetime -------------------------------
(***************************************************************************)
(* What the program promises over its whole life: while it runs, what      *)
(* Enforcement promises.  It may stop at any moment and then knows nothing *)
(* any more: whom it has warned, whom it was about to kill, and which      *)
(* policies are within their cooldown.  A process that it warned is        *)
(* therefore not killed by the next run before it has been warned again,   *)
(* and a program that has stopped does nothing to anybody.                 *)
(***************************************************************************)
EXTENDS Enforcement

VARIABLE running   \* the program is there

lifeVars == <<vars, running>>

LifeInit == Init /\ running = TRUE

\* Processes come, change and go and time passes, also while the program is down.
World ==
    \/ \E pid \in Pids, kind \in Kinds : Start(pid, kind)
    \/ \E pid \in Pids : Exit(pid)
    \/ \E pid \in Pids, kind \in Kinds : Alter(pid, kind)
    \/ Tick

Stop ==
    /\ running
    /\ running' = FALSE
    /\ looked' = [pid \in Pids |-> Free]
    /\ acting' = {}
    /\ since' = [p \in PolicyNames |-> Cooldown]
    /\ warned' = {}
    /\ age' = [pid \in Pids |-> 0]
    /\ doomed' = {}
    /\ UNCHANGED table

Restart ==
    /\ ~running
    /\ running' = TRUE
    /\ UNCHANGED vars

LifeNext ==
    \/ running /\ Next /\ UNCHANGED running
    \/ World /\ UNCHANGED running
    \/ Stop
    \/ Restart

LifeSpec == LifeInit /\ [][LifeNext]_lifeVars

-----------------------------------------------------------------------------
\* A program that is down, or on its way there, acts for no policy, is killing
\* nobody and holds no warning against anybody. (daemon.go:82-95, app.go:74-80)
DownIsIdle == ~running => acting = {} /\ warned = {} /\ doomed = {}
=============================================================================
