----------------------------- MODULE Enforcement -----------------------------
(***************************************************************************)
(* What the program promises to the processes of the machine, without      *)
(* saying how: policies act one at a time and no policy twice within its   *)
(* cooldown; a policy touches only processes that it was written for when  *)
(* the program last looked at them, before it began to act; and a process  *)
(* is killed only after it has been warned and has had the grace period to *)
(* exit.  What a process turns into while the program acts is not promised *)
(* to be noticed.                                                          *)
(*                                                                         *)
(* There is no check, no list of decisions and no loop over actions     *)
(* here: Daemon, which has them, implements this module.                   *)
(***************************************************************************)
EXTENDS Integers

CONSTANTS
    Pids,         \* process ids
    Kinds,        \* what a process may be
    Free,         \* the table entry of an unused pid
    PolicyNames,  \* the policies
    Targets,      \* the kinds of process each policy may touch
    Cooldown,     \* between two executions of a policy
    GracePeriod   \* between the warning and the kill

VARIABLES
    table,   \* the process table: pid -> kind, or Free
    looked,  \* what each process was when the program last looked; Free if it did not
    acting,  \* the policies being executed
    since,   \* time since each policy was last executed, up to Cooldown
    warned,  \* the processes that have been asked to exit
    age,     \* time since they were, up to GracePeriod
    doomed   \* the processes that are being killed

vars == <<table, looked, acting, since, warned, age, doomed>>

Init ==
    /\ table \in [Pids -> Kinds \cup {Free}]
    /\ looked = [pid \in Pids |-> Free]
    /\ acting = {}
    /\ since = [p \in PolicyNames |-> Cooldown]
    /\ warned = {}
    /\ age = [pid \in Pids |-> 0]
    /\ doomed = {}

-----------------------------------------------------------------------------
\* Another process, or none, is at pid from now on.
Becomes(pid, kind) ==
    /\ table' = [table EXCEPT ![pid] = kind]
    /\ looked' = [looked EXCEPT ![pid] = Free]
    /\ warned' = warned \ {pid}
    /\ age' = [age EXCEPT ![pid] = 0]
    /\ doomed' = doomed \ {pid}

Start(pid, kind) ==
    /\ table[pid] = Free
    /\ Becomes(pid, kind)
    /\ UNCHANGED <<acting, since>>

Exit(pid) ==
    /\ table[pid] # Free
    /\ Becomes(pid, Free)
    /\ UNCHANGED <<acting, since>>

\* A process turns into something else, and is still the same process: what is
\* known of it stays, and no longer fits.
Alter(pid, kind) ==
    /\ table[pid] \notin {Free, kind}
    /\ table' = [table EXCEPT ![pid] = kind]
    /\ UNCHANGED <<looked, acting, since, warned, age, doomed>>

\* The program looks at the processes, and may overlook some. While it acts on
\* what it saw it does not look again.
Look ==
    /\ acting = {}
    /\ looked' \in [Pids -> Kinds \cup {Free}]
    /\ \A pid \in Pids : looked'[pid] \in {table[pid], Free}
    /\ UNCHANGED <<table, acting, since, warned, age, doomed>>

Elapse(clock, bound) == IF clock < bound THEN clock + 1 ELSE clock

Tick ==
    /\ since' = [p \in PolicyNames |-> Elapse(since[p], Cooldown)]
    /\ age' = [pid \in Pids |-> IF pid \in warned THEN Elapse(age[pid], GracePeriod)
                                                  ELSE age[pid]]
    /\ UNCHANGED <<table, looked, acting, warned, doomed>>

Begin(p) ==
    /\ acting = {}
    /\ since[p] = Cooldown
    /\ acting' = {p}
    /\ UNCHANGED <<table, looked, since, warned, age, doomed>>

\* A policy may touch the process at pid, as it was seen.
MayTouch(p, pid) == p \in acting /\ looked[pid] \in Targets[p]

\* Nobody is warned while a round of kills is under way: his time would start
\* anew and he be killed all the same.
Warn(p, pid) ==
    /\ MayTouch(p, pid)
    /\ doomed = {}
    /\ warned' = warned \cup {pid}
    /\ age' = [age EXCEPT ![pid] = 0]
    /\ UNCHANGED <<table, looked, acting, since, doomed>>

\* Whoever has let the grace period pass may be killed.
Doom(p) ==
    /\ acting = {p}
    /\ doomed = {}
    /\ doomed' \in SUBSET {pid \in warned : MayTouch(p, pid) /\ age[pid] = GracePeriod}
    /\ UNCHANGED <<table, looked, acting, since, warned, age>>

Kill(pid) ==
    /\ pid \in doomed
    /\ Becomes(pid, Free)
    /\ UNCHANGED <<acting, since>>

\* A round of kills is finished first. An execution that failed in part starts no cooldown.
End(p) ==
    /\ acting = {p}
    /\ doomed = {}
    /\ acting' = {}
    /\ since' \in {since, [since EXCEPT ![p] = 0]}
    /\ UNCHANGED <<table, looked, warned, age, doomed>>

Next ==
    \/ \E pid \in Pids, kind \in Kinds : Start(pid, kind)
    \/ \E pid \in Pids : Exit(pid)
    \/ \E pid \in Pids, kind \in Kinds : Alter(pid, kind)
    \/ Tick
    \/ Look
    \/ \E p \in PolicyNames : Begin(p) \/ Doom(p) \/ End(p)
    \/ \E p \in PolicyNames, pid \in Pids : Warn(p, pid)
    \/ \E pid \in Pids : Kill(pid)

Spec == Init /\ [][Next]_vars

-----------------------------------------------------------------------------
TypeOK ==
    /\ table \in [Pids -> Kinds \cup {Free}]
    /\ looked \in [Pids -> Kinds \cup {Free}]
    /\ acting \subseteq PolicyNames
    /\ since \in [PolicyNames -> 0..Cooldown]
    /\ warned \subseteq Pids
    /\ age \in [Pids -> 0..GracePeriod]
    /\ doomed \subseteq Pids

\* All who are being killed have been warned and have had the whole grace period,
\* and it is they themselves whom the program saw and the acting policy is
\* written for, though they may have turned into something else since.
\* (executor.go:150-196)
KillsAreDue ==
    \A pid \in doomed :
        /\ pid \in warned
        /\ age[pid] = GracePeriod
        /\ \E p \in acting : looked[pid] \in Targets[p]
=============================================================================
