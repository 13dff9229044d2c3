------------------------------- MODULE Daemon -------------------------------
(***************************************************************************)
(* The daemon (internal/daemon/daemon.go) with the executor it drives      *)
(* (internal/policy/executor.go): one goroutine that selects between       *)
(* shutdown, the periodic tick and the load poll, and runs a check:        *)
(* collect, evaluate, publish, then execute the actions of each triggered  *)
(* decision, SIGTERM, grace period and SIGKILL included.                   *)
(*                                                                         *)
(* Around it move the operating system's process table, the load, the      *)
(* clock and the shutdown signal: the snapshot a check acts on is old as   *)
(* soon as it is taken.  Processes start, exit and, living on, come to run *)
(* another program or lose their parent.                                   *)
(*                                                                         *)
(* Clocks are relative and saturate: a counter says how many units have    *)
(* passed since an event, up to the only bound the code compares it with,  *)
(* so the model needs no horizon.                                          *)
(***************************************************************************)
EXTENDS Engine

CONSTANTS
    Pids,            \* process ids
    Kinds,           \* what a process may be: [name, parent, owned]
    Free,            \* the table entry of an unused pid
    NoSnapshot,      \* latestSnapshot before the first check
    Loads,           \* load averages: [load1, load5], in thousandths
    Policies,        \* the [policies] table of the configuration
    LoadThreshold,   \* load_threshold, in thousandths
    Cooldown,        \* cooldown, in clock units
    GracePeriod,     \* grace_period, in clock units
    DryRuns,         \* the values dry_run may have
    FailingActions,  \* actions that may fail, of notify and diagnose
    CollectorFails,  \* system queries may fail
    ReuseTargets     \* a pid under a running check may be given to a new process

PolicyNames == DOMAIN Policies

ASSUME DaemonAssumption ==
    /\ IsFiniteSet(Pids)
    /\ IsFiniteSet(PolicyNames)
    /\ Free \notin Kinds
    /\ \A pids \in SUBSET Pids : pids # NoSnapshot
    /\ \A k \in Kinds : k.owned \in BOOLEAN
    /\ \A p \in PolicyNames : Policies[p].actions \in Seq(STRING)
    /\ Cooldown \in Nat
    /\ GracePeriod \in Nat
    /\ DryRuns \in SUBSET BOOLEAN
    /\ CollectorFails \in BOOLEAN
    /\ ReuseTargets \in BOOLEAN

VARIABLES
    table,            \* the process table: pid -> kind, or Free
    load,             \* the load averages the kernel would report now
    ctxDone,          \* the daemon's context has been cancelled
    dryRun,           \* dry_run as the program was started, or --dry-run
    ticks,            \* ticks waiting in the channels of the two tickers
    pc,               \* where the daemon's goroutine is
    ticking,          \* the startup check is over, and the two tickers exist
    snapshot,         \* runCheck's snapshot, until it has been evaluated
    latestSnapshot,   \* the pids of d.latestSnapshot
    latestDecisions,  \* d.latestDecisions, which the running check loops over
    next,             \* index of the decision being handled
    step,             \* index of the action being executed
    failed,           \* Execute has collected an error
    todo,             \* pids the current signal loop has not reached
    graceLeft,        \* what remains of the grace period
    sinceTrigger,     \* units since lastTrigger[policy]; Cooldown if none
    \* history
    sinceNotify,      \* units since a notification was last delivered
    seen,             \* pids whose process was there at the last snapshot
    listedAs,         \* what that process was then; Free for the other pids
    termed,           \* pids whose process got SIGTERM from executeTerminate
    termAge           \* units since that SIGTERM

osVars      == <<table, load, ctxDone, dryRun, ticks>>
checkVars   == <<pc, ticking, snapshot, next, step, failed, todo, graceLeft>>
latestVars  == <<latestSnapshot, latestDecisions>>
historyVars == <<sinceNotify, seen, listedAs, termed, termAge>>
vars == <<osVars, checkVars, latestVars, sinceTrigger, historyVars>>

-----------------------------------------------------------------------------
Decision == [policy : PolicyNames, triggered : BOOLEAN, pids : SUBSET Pids]

EmptySnapshot == [procs |-> {}, load1 |-> 0, load5 |-> 0]

Current == latestDecisions[next]
Actions == Policies[Current.policy].actions

\* Where the goroutine is inside Execute.
ExecutePcs == {"execute", "sigterm", "grace", "sigkill"}

\* The pids the running check has still to act on.
InFlight ==
    IF pc \in ExecutePcs \cup {"decide"}
    THEN UNION {latestDecisions[i].pids : i \in next..Len(latestDecisions)}
    ELSE {s.pid : s \in snapshot.procs}

\* A signal reaches a live process that this user may signal; otherwise the
\* call returns ESRCH or EPERM, and both loops of executeTerminate go on.
Reachable(pid) == table[pid] # Free /\ table[pid].owned

\* Mutant of Older: a clock goes one unit past its bound.
OlderPast(age, bound) == IF age <= bound THEN age + 1 ELSE age

Older(age, bound) == IF age < bound THEN age + 1 ELSE age

Init ==
    /\ table \in [Pids -> Kinds \cup {Free}]
    /\ load \in Loads
    /\ ctxDone = FALSE
    /\ dryRun \in DryRuns
    /\ ticks = {}
    /\ pc = "collect"
    /\ ticking = FALSE
    /\ snapshot = EmptySnapshot
    /\ latestSnapshot = NoSnapshot
    /\ latestDecisions = <<>>
    /\ next = 1
    /\ step = 1
    /\ failed = FALSE
    /\ todo = {}
    /\ graceLeft = 0
    /\ sinceTrigger = [p \in PolicyNames |-> Cooldown]
    /\ sinceNotify = [p \in PolicyNames |-> Cooldown]
    /\ seen = {}
    /\ listedAs = [pid \in Pids |-> Free]
    /\ termed = {}
    /\ termAge = [pid \in Pids |-> 0]

-----------------------------------------------------------------------------
(* The operating system, the user and the clock.                           *)

\* Nothing that was remembered about the process at pid holds any longer.
Forget(pid) ==
    /\ seen' = seen \ {pid}
    /\ listedAs' = [listedAs EXCEPT ![pid] = Free]
    /\ termed' = termed \ {pid}
    /\ termAge' = [termAge EXCEPT ![pid] = 0]

Spawn(pid, kind) ==
    /\ table[pid] = Free
    /\ ReuseTargets \/ pid \notin InFlight
    /\ table' = [table EXCEPT ![pid] = kind]
    /\ Forget(pid)
    /\ UNCHANGED <<load, ctxDone, dryRun, ticks, checkVars, latestVars, sinceTrigger, sinceNotify>>

Exit(pid) ==
    /\ table[pid] # Free
    /\ table' = [table EXCEPT ![pid] = Free]
    /\ Forget(pid)
    /\ UNCHANGED <<load, ctxDone, dryRun, ticks, checkVars, latestVars, sinceTrigger, sinceNotify>>

\* A process execs another program under its pid, or its parent exits and it
\* is left to launchd, whose name is then its parent's. It is still the process
\* it was, and belongs to the same user; nobody is told.
Alter(pid, kind) ==
    /\ table[pid] \notin {Free, kind}
    /\ kind.owned = table[pid].owned
    /\ table' = [table EXCEPT ![pid] = kind]
    /\ UNCHANGED <<load, ctxDone, dryRun, ticks, checkVars, latestVars, sinceTrigger, historyVars>>

LoadChanges ==
    /\ load' \in Loads \ {load}
    /\ UNCHANGED <<table, ctxDone, dryRun, ticks, checkVars, latestVars, sinceTrigger, historyVars>>

\* SIGINT or SIGTERM to the daemon itself: signal.NotifyContext.
Cancel ==
    /\ ~ctxDone
    /\ ctxDone' = TRUE
    /\ UNCHANGED <<table, load, dryRun, ticks, checkVars, latestVars, sinceTrigger, historyVars>>

ClockTick ==
    /\ graceLeft' = IF graceLeft > 0 THEN graceLeft - 1 ELSE 0
    /\ sinceTrigger' = [p \in PolicyNames |-> Older(sinceTrigger[p], Cooldown)]
    /\ sinceNotify' = [p \in PolicyNames |-> Older(sinceNotify[p], Cooldown)]
    /\ termAge' = [pid \in Pids |->
                      IF pid \in termed THEN Older(termAge[pid], GracePeriod) ELSE termAge[pid]]
    /\ UNCHANGED <<osVars, latestVars, pc, ticking, snapshot, next, step, failed, todo,
                   seen, listedAs, termed>>

\* The tickers exist once the startup check is over. A channel holds one tick;
\* one that finds it full is dropped. Their phase against the clock is free.
TickerFires(ticker) ==
    /\ ticking
    /\ pc # "stopped"
    /\ ticker \notin ticks
    /\ ticks' = ticks \cup {ticker}
    /\ UNCHANGED <<table, load, ctxDone, dryRun, checkVars, latestVars, sinceTrigger, historyVars>>

-----------------------------------------------------------------------------
(* Run: the select statement.                                              *)

StartCheck ==
    /\ pc' = "collect"
    /\ UNCHANGED <<ticking, snapshot, next, step, failed, todo, graceLeft>>

\* Mutant of Stop: waiting ticks go before the shutdown.
StopWhenIdle ==
    /\ pc = "select"
    /\ ctxDone
    /\ ticks = {}
    /\ pc' = "stopped"
    /\ UNCHANGED <<osVars, ticking, snapshot, next, step, failed, todo, graceLeft,
                   latestVars, sinceTrigger, historyVars>>

Stop ==
    /\ pc = "select"
    /\ ctxDone
    /\ pc' = "stopped"
    /\ UNCHANGED <<osVars, ticking, snapshot, next, step, failed, todo, graceLeft,
                   latestVars, sinceTrigger, historyVars>>

Receive(ticker) ==
    /\ pc = "select"
    /\ ticker \in ticks
    /\ ticks' = ticks \ {ticker}
    /\ UNCHANGED <<table, load, ctxDone, dryRun, latestVars, sinceTrigger, historyVars>>

PeriodicCheck == Receive("periodic") /\ StartCheck

LoadCheck ==
    /\ Receive("load")
    /\ load.load1 >= LoadThreshold
    /\ StartCheck

\* The load is below the threshold, or could not be read.
LoadIgnored ==
    /\ Receive("load")
    /\ load.load1 < LoadThreshold \/ CollectorFails
    /\ UNCHANGED checkVars

-----------------------------------------------------------------------------
(* runCheck up to the decision loop.                                       *)

\* Processes whose query fails are left out, and a parent left out leaves its
\* children without a parent name. Once the context is cancelled the listing
\* is abandoned, and the snapshot has no process at all.
Collect ==
    /\ pc = "collect"
    /\ \E listed \in SUBSET {pid \in Pids : table[pid] # Free} :
       \E orphaned \in SUBSET listed :
       \E loads \in {load, [load1 |-> 0, load5 |-> 0]} :
          /\ \/ listed = {} /\ ctxDone
             \/ listed = {pid \in Pids : table[pid] # Free} /\ ~ctxDone
             \/ CollectorFails /\ ~ctxDone
          /\ orphaned # {} => CollectorFails
          /\ loads # load => CollectorFails
          /\ snapshot' =
                [procs |-> {[pid    |-> pid,
                             name   |-> table[pid].name,
                             parent |-> IF pid \in orphaned THEN NoName ELSE table[pid].parent]
                            : pid \in listed},
                 load1 |-> loads.load1,
                 load5 |-> loads.load5]
          /\ seen' = listed
          /\ listedAs' = [pid \in Pids |-> IF pid \in listed THEN table[pid] ELSE Free]
    /\ pc' = "evaluate"
    /\ UNCHANGED <<osVars, ticking, next, step, failed, todo, graceLeft, latestVars,
                   sinceTrigger, sinceNotify, termed, termAge>>

\* Evaluate, then publish snapshot and decisions under one lock.
Publish ==
    /\ pc = "evaluate"
    /\ latestDecisions' \in Evaluations(Policies, snapshot)
    /\ latestSnapshot' = {s.pid : s \in snapshot.procs}
    /\ snapshot' = EmptySnapshot
    /\ pc' = "decide"
    /\ UNCHANGED <<osVars, ticking, next, step, failed, todo, graceLeft, sinceTrigger,
                   historyVars>>

-----------------------------------------------------------------------------
(* The decision loop.                                                      *)

\* Mutant of IsOnCooldown: a policy that never triggered is on cooldown.
IsOnCooldownAtFirst(p) == sinceTrigger[p] <= Cooldown

\* Mutant of IsOnCooldown: no cooldown at all.
IsOnCooldownNever(p) == FALSE

IsOnCooldown(p) == sinceTrigger[p] < Cooldown

NextDecision ==
    /\ next' = next + 1
    /\ step' = 1
    /\ failed' = FALSE
    /\ pc' = "decide"

\* Not triggered, on cooldown, or only a dry run.
SkipDecision ==
    /\ pc = "decide"
    /\ next <= Len(latestDecisions)
    /\ ~Current.triggered \/ IsOnCooldown(Current.policy) \/ dryRun
    /\ NextDecision
    /\ UNCHANGED <<osVars, ticking, snapshot, todo, graceLeft, latestVars, sinceTrigger,
                   historyVars>>

\* Mutant of BeginExecute: dry_run is not looked at.
BeginExecuteWet ==
    /\ pc = "decide"
    /\ next <= Len(latestDecisions)
    /\ Current.triggered
    /\ ~IsOnCooldown(Current.policy)
    /\ pc' = "execute"
    /\ UNCHANGED <<osVars, ticking, snapshot, next, step, failed, todo, graceLeft,
                   latestVars, sinceTrigger, historyVars>>

BeginExecute ==
    /\ pc = "decide"
    /\ next <= Len(latestDecisions)
    /\ Current.triggered
    /\ ~IsOnCooldown(Current.policy)
    /\ ~dryRun
    /\ pc' = "execute"
    /\ UNCHANGED <<osVars, ticking, snapshot, next, step, failed, todo, graceLeft,
                   latestVars, sinceTrigger, historyVars>>

FinishCheck ==
    /\ pc = "decide"
    /\ next > Len(latestDecisions)
    /\ pc' = "select"
    /\ ticking' = TRUE
    /\ next' = 1
    /\ UNCHANGED <<osVars, snapshot, step, failed, todo, graceLeft, latestVars,
                   sinceTrigger, historyVars>>

-----------------------------------------------------------------------------
(* Execute: every action of the list is attempted, errors are collected.   *)

\* These return nil whatever happens to the commands they run.
InfallibleActions == {"log", "sample", "spindump"}

KnownActions == InfallibleActions \cup {"notify", "diagnose", "terminate"}

AtAction(action) ==
    /\ pc = "execute"
    /\ step <= Len(Actions)
    /\ Actions[step] = action

ActionReturns(err) ==
    /\ step' = step + 1
    /\ failed' = (failed \/ err)
    /\ pc' = "execute"

PlainAction ==
    /\ \/ \E a \in InfallibleActions : AtAction(a) /\ ActionReturns(FALSE)
       \/ AtAction("diagnose") /\ ActionReturns(FALSE)
       \/ AtAction("diagnose") /\ "diagnose" \in FailingActions /\ ActionReturns(TRUE)
       \/ /\ pc = "execute"
          /\ step <= Len(Actions)
          /\ Actions[step] \notin KnownActions
          /\ ActionReturns(TRUE)
    /\ UNCHANGED <<osVars, ticking, snapshot, next, todo, graceLeft, latestVars,
                   sinceTrigger, historyVars>>

\* osascript runs under the context: it cannot start once that is cancelled.
NotifyDelivered ==
    /\ AtAction("notify")
    /\ ~ctxDone
    /\ sinceNotify' = [sinceNotify EXCEPT ![Current.policy] = 0]
    /\ ActionReturns(FALSE)
    /\ UNCHANGED <<osVars, ticking, snapshot, next, todo, graceLeft, latestVars,
                   sinceTrigger, seen, listedAs, termed, termAge>>

NotifyFails ==
    /\ AtAction("notify")
    /\ ctxDone \/ "notify" \in FailingActions
    /\ ActionReturns(TRUE)
    /\ UNCHANGED <<osVars, ticking, snapshot, next, todo, graceLeft, latestVars,
                   sinceTrigger, historyVars>>

BeginTerminate ==
    /\ AtAction("terminate")
    /\ \/ /\ Current.pids = {}
          /\ ActionReturns(FALSE)
          /\ UNCHANGED todo
       \/ /\ Current.pids # {}
          /\ pc' = "sigterm"
          /\ todo' = Current.pids
          /\ UNCHANGED <<step, failed>>
    /\ UNCHANGED <<osVars, ticking, snapshot, next, graceLeft, latestVars, sinceTrigger,
                   historyVars>>

SigTerm(pid) ==
    /\ pc = "sigterm"
    /\ pid \in todo
    /\ todo' = todo \ {pid}
    /\ IF Reachable(pid)
       THEN /\ termed' = termed \cup {pid}
            /\ termAge' = [termAge EXCEPT ![pid] = 0]
       ELSE UNCHANGED <<termed, termAge>>
    /\ UNCHANGED <<osVars, pc, ticking, snapshot, next, step, failed, graceLeft,
                   latestVars, sinceTrigger, sinceNotify, seen, listedAs>>

BeginGrace ==
    /\ pc = "sigterm"
    /\ todo = {}
    /\ pc' = "grace"
    /\ graceLeft' = GracePeriod
    /\ UNCHANGED <<osVars, ticking, snapshot, next, step, failed, todo, latestVars,
                   sinceTrigger, historyVars>>

\* executeTerminate returns ctx.Err(): survivors are left alone.
GraceCancelled ==
    /\ pc = "grace"
    /\ ctxDone
    /\ graceLeft' = 0
    /\ ActionReturns(TRUE)
    /\ UNCHANGED <<osVars, ticking, snapshot, next, todo, latestVars, sinceTrigger,
                   historyVars>>

\* Mutant of GraceOver: nobody waits for the grace period.
GraceOverAtOnce ==
    /\ pc = "grace"
    /\ pc' = "sigkill"
    /\ todo' = Current.pids
    /\ UNCHANGED <<osVars, ticking, snapshot, next, step, failed, graceLeft, latestVars,
                   sinceTrigger, historyVars>>

\* Mutant of GraceOver: the survivors are left out.
GraceOverSpares ==
    /\ pc = "grace"
    /\ graceLeft = 0
    /\ pc' = "sigkill"
    /\ todo' = Current.pids \ termed
    /\ UNCHANGED <<osVars, ticking, snapshot, next, step, failed, graceLeft, latestVars,
                   sinceTrigger, historyVars>>

GraceOver ==
    /\ pc = "grace"
    /\ graceLeft = 0
    /\ pc' = "sigkill"
    /\ todo' = Current.pids
    /\ UNCHANGED <<osVars, ticking, snapshot, next, step, failed, graceLeft, latestVars,
                   sinceTrigger, historyVars>>

\* The probe with signal 0 and the SIGKILL are one step: a process that exits
\* between them makes the second fail just as the first would have.
SigKill(pid) ==
    /\ pc = "sigkill"
    /\ pid \in todo
    /\ todo' = todo \ {pid}
    /\ IF Reachable(pid)
       THEN table' = [table EXCEPT ![pid] = Free] /\ Forget(pid)
       ELSE UNCHANGED <<table, seen, listedAs, termed, termAge>>
    /\ UNCHANGED <<load, ctxDone, dryRun, ticks, pc, ticking, snapshot, next, step, failed,
                   graceLeft, latestVars, sinceTrigger, sinceNotify>>

TerminateReturns ==
    /\ pc = "sigkill"
    /\ todo = {}
    /\ ActionReturns(FALSE)
    /\ UNCHANGED <<osVars, ticking, snapshot, next, todo, graceLeft, latestVars,
                   sinceTrigger, historyVars>>

\* Mutant of ExecuteReturns: the trigger is not recorded.
ExecuteReturnsForgets ==
    /\ pc = "execute"
    /\ step > Len(Actions)
    /\ NextDecision
    /\ UNCHANGED <<osVars, ticking, snapshot, todo, graceLeft, latestVars, sinceTrigger,
                   historyVars>>

\* Mutant of ExecuteReturns: a failed execution is tried again at once.
ExecuteReturnsRetries ==
    /\ pc = "execute"
    /\ step > Len(Actions)
    /\ IF failed
       THEN step' = 1 /\ failed' = FALSE /\ UNCHANGED <<pc, next, sinceTrigger>>
       ELSE sinceTrigger' = [sinceTrigger EXCEPT ![Current.policy] = 0] /\ NextDecision
    /\ UNCHANGED <<osVars, ticking, snapshot, todo, graceLeft, latestVars, historyVars>>

\* The cooldown starts only if no action returned an error.
ExecuteReturns ==
    /\ pc = "execute"
    /\ step > Len(Actions)
    /\ IF failed
       THEN UNCHANGED sinceTrigger
       ELSE sinceTrigger' = [sinceTrigger EXCEPT ![Current.policy] = 0]
    /\ NextDecision
    /\ UNCHANGED <<osVars, ticking, snapshot, todo, graceLeft, latestVars, historyVars>>

-----------------------------------------------------------------------------
Environment ==
    \/ \E pid \in Pids, kind \in Kinds : Spawn(pid, kind)
    \/ \E pid \in Pids : Exit(pid)
    \/ \E pid \in Pids, kind \in Kinds : Alter(pid, kind)
    \/ LoadChanges
    \/ Cancel
    \/ ClockTick
    \/ \E ticker \in {"periodic", "load"} : TickerFires(ticker)

Signalling ==
    \/ \E pid \in Pids : SigTerm(pid)
    \/ BeginGrace
    \/ GraceCancelled
    \/ GraceOver
    \/ \E pid \in Pids : SigKill(pid)
    \/ TerminateReturns

\* What the goroutine does between two visits to the select statement.
Check ==
    \/ Collect
    \/ Publish
    \/ SkipDecision
    \/ BeginExecute
    \/ FinishCheck
    \/ PlainAction
    \/ NotifyDelivered
    \/ NotifyFails
    \/ BeginTerminate
    \/ Signalling
    \/ ExecuteReturns

Select == Stop \/ PeriodicCheck \/ LoadCheck \/ LoadIgnored

Next == Environment \/ Check \/ Select

Spec == Init /\ [][Next]_vars

(***************************************************************************)
(* The goroutine is scheduled, time passes and the tickers fire.  A select *)
(* with several ready cases picks one at random, so a case that is ready   *)
(* again and again is picked: strong fairness for each case.  Nothing is   *)
(* assumed of processes, of the load or of the user.                       *)
(***************************************************************************)
Fairness ==
    /\ WF_vars(Check)
    /\ WF_vars(ClockTick)
    /\ \A ticker \in {"periodic", "load"} : WF_vars(TickerFires(ticker))
    /\ SF_vars(Stop)
    /\ SF_vars(PeriodicCheck)

FairSpec == Spec /\ Fairness

-----------------------------------------------------------------------------
TypeOK ==
    /\ table \in [Pids -> Kinds \cup {Free}]
    /\ load \in Loads
    /\ ctxDone \in BOOLEAN
    /\ dryRun \in DryRuns
    /\ ticks \subseteq {"periodic", "load"}
    /\ pc \in {"select", "collect", "evaluate", "decide", "stopped"} \cup ExecutePcs
    /\ ticking \in BOOLEAN
    /\ \A s \in snapshot.procs : s.pid \in Pids
    /\ latestSnapshot = NoSnapshot \/ latestSnapshot \subseteq Pids
    /\ latestDecisions \in Seq(Decision)
    /\ next \in 1..Len(latestDecisions) + 1
    /\ step \in Nat \ {0}
    /\ failed \in BOOLEAN
    /\ todo \subseteq Pids
    /\ graceLeft \in 0..GracePeriod
    /\ sinceTrigger \in [PolicyNames -> 0..Cooldown]
    /\ sinceNotify \in [PolicyNames -> 0..Cooldown]
    /\ seen \subseteq Pids
    /\ listedAs \in [Pids -> Kinds \cup {Free}]
    /\ \A pid \in Pids : pid \in seen <=> listedAs[pid] # Free
    /\ termed \subseteq Pids
    /\ termAge \in [Pids -> 0..GracePeriod]

Executing(p) == pc \in ExecutePcs /\ Current.policy = p

\* Whoever the SIGKILL loop is about to hit is a survivor: the very process
\* that was listed in the snapshot, that got SIGTERM from this terminate
\* action, and that has had the whole grace period since.
\* (executor.go:138-189)
KillOnlySurvivors ==
    pc = "sigkill" =>
        \A pid \in todo : Reachable(pid) =>
            /\ pid \in seen
            /\ pid \in termed
            /\ termAge[pid] = GracePeriod

\* A process of this kind is one the policy is written for. That its parent is
\* not excluded is only known if the parent could be listed.
Describes(policy, kind) ==
    /\ kind.name = policy.process
    /\ policy.parent # NoName => kind.parent = policy.parent
    /\ ~CollectorFails => kind.parent \notin policy.exclude

\* The policy was written for what the process at pid was when it was listed.
DescribedBy(pid, policy) == Describes(policy, listedAs[pid])

\* Whoever gets a signal was one that the policy describes, his known parent not
\* excluded, when the running check listed him: he is not somebody who was given
\* the pid since, however long the check has been running, nor one chosen for
\* another policy or by an earlier check. What program he runs now, and under
\* which parent, nobody has looked at again. (daemon.go:154-212,
\* executor.go:138-189)
SignalsMatchPolicy ==
    pc \in {"sigterm", "sigkill"} =>
        \A pid \in todo : Reachable(pid) =>
            pid \in seen /\ DescribedBy(pid, Policies[Current.policy])

\* The SIGKILL loop leaves nobody out: of the processes the snapshot listed,
\* those it has passed are gone, unless they belong to another user.
\* (executor.go:168-189)
SurvivorsAreKilled ==
    pc = "sigkill" =>
        \A pid \in (Current.pids \cap seen) \ todo : ~Reachable(pid)

\* Two notifications of one policy are a cooldown apart: whenever notify is
\* about to run, none was delivered for the policy within the cooldown.
\* (daemon.go:163-169 and 211; config.go:62)
NotifySpacing ==
    AtAction("notify") /\ ~ctxDone => sinceNotify[Current.policy] = Cooldown

\* A dry run touches no process, notifies nobody and starts no cooldown.
\* (daemon.go:189-195)
DryRunIsInert ==
    dryRun => /\ termed = {}
              /\ pc \notin ExecutePcs
              /\ \A p \in PolicyNames : sinceNotify[p] = Cooldown /\ sinceTrigger[p] = Cooldown

\* Two triggers recorded for one policy are a cooldown apart, and a cooldown
\* that has begun runs out by the clock alone: no later check, failure or
\* other policy cuts it short or prolongs it. (daemon.go:163-169 and 211)
CooldownRunsOut ==
    [][\A p \in PolicyNames :
          sinceTrigger'[p] # sinceTrigger[p] =>
              \/ sinceTrigger'[p] = 0 /\ sinceTrigger[p] = Cooldown
              \/ sinceTrigger'[p] = sinceTrigger[p] + 1]_vars

-----------------------------------------------------------------------------
(* How much of a check is left.                                            *)

\* The check is in the decision loop.
Looping == pc \in ExecutePcs \cup {"decide"}

PhasesAhead ==
    CASE pc = "collect"  -> 3
      [] pc = "evaluate" -> 2
      [] Looping         -> 1
      [] OTHER           -> 0

\* A decision is looked at, and then perhaps executed.
TurnsAhead ==
    IF Looping
    THEN 2 * (Len(latestDecisions) + 1 - next) + (IF pc = "decide" THEN 1 ELSE 0)
    ELSE 0

\* Every action may have the stages of a termination.
StagesAhead ==
    CASE pc = "execute" -> 4 * (Len(Actions) + 1 - step)
      [] pc = "sigterm" -> 4 * (Len(Actions) - step) + 3
      [] pc = "grace"   -> 4 * (Len(Actions) - step) + 2
      [] pc = "sigkill" -> 4 * (Len(Actions) - step) + 1
      [] OTHER          -> 0

PidsAhead == IF pc \in {"sigterm", "sigkill"} THEN Cardinality(todo) ELSE 0

Ahead == <<PhasesAhead, TurnsAhead, StagesAhead, PidsAhead>>

\* a is less than b at the first place where they differ.
Below(a, b) == \E i \in 1..4 : a[i] < b[i] /\ \A j \in 1..i-1 : a[j] = b[j]

\* A check comes nearer to its end with every step of its own, and nothing
\* that happens around it takes it back: no failed action, surviving process,
\* shutdown or later tick makes it do again what it has done.
\* (daemon.go:97-217, executor.go:33-199)
ChecksGoForward ==
    [][Check \/ Ahead' # Ahead => pc = "select" \/ Below(Ahead', Ahead)]_vars

-----------------------------------------------------------------------------
(* What makes the invariants above inductive.                              *)

\* Every process the check may still act on is the one its snapshot listed.
ListedAreSeen ==
    \A s \in snapshot.procs : table[s.pid] # Free => s.pid \in seen

TargetsAreSeen ==
    Looping =>
        \A i \in next..Len(latestDecisions) : \A pid \in latestDecisions[i].pids :
            table[pid] # Free => pid \in seen

TodoAreTargets == pc \in {"sigterm", "sigkill"} => todo \subseteq Current.pids

\* Behind the SIGTERM loop every target has been warned.
PassedAreTermed ==
    pc = "sigterm" =>
        \A pid \in Current.pids \ todo : Reachable(pid) => pid \in termed

\* No warning is younger than what has run of the grace period.
GraceIsServed ==
    /\ pc = "grace" =>
          \A pid \in Current.pids : Reachable(pid) =>
              pid \in termed /\ termAge[pid] + graceLeft >= GracePeriod
    /\ pc = "sigkill" =>
          \A pid \in Current.pids : Reachable(pid) =>
              pid \in termed /\ termAge[pid] >= GracePeriod

\* As long as no pid of a running check is given to a new process, its targets
\* are the processes listed and they are warned before they are killed.
\* (daemon.go:154-212, executor.go:138-189)
SurvivorInv ==
    /\ ListedAreSeen
    /\ TargetsAreSeen
    /\ TodoAreTargets
    /\ PassedAreTermed
    /\ GraceIsServed

\* Of a listed process that is still there the snapshot says what it was when it
\* was listed, and of a target that is still there so does its policy.
\* (collector.go:133-166, engine.go:86-121)
DescriptionInv ==
    /\ \A s \in snapshot.procs : s.pid \in seen =>
          /\ s.name = listedAs[s.pid].name
          /\ s.parent = listedAs[s.pid].parent \/ (CollectorFails /\ s.parent = NoName)
    /\ Looping =>
          \A i \in next..Len(latestDecisions) :
              \A pid \in latestDecisions[i].pids \cap seen :
                  DescribedBy(pid, Policies[latestDecisions[i].policy])

Notifies(p) == \E i \in DOMAIN Policies[p].actions : Policies[p].actions[i] = "notify"

\* A policy that notifies does so once, and none of its other actions can fail.
ReliableNotifiers ==
    \A p \in PolicyNames : Notifies(p) =>
        /\ \A i \in DOMAIN Policies[p].actions :
              /\ Policies[p].actions[i] \in KnownActions
              /\ Policies[p].actions[i] = "diagnose" => "diagnose" \notin FailingActions
        /\ \A i, j \in DOMAIN Policies[p].actions :
              Policies[p].actions[i] = "notify" /\ Policies[p].actions[j] = "notify" => i = j

NotifyPending == \E i \in step..Len(Actions) : Actions[i] = "notify"

\* The trigger recorded for p is no older than its last notification; only
\* while p executes may a notification be newer.
Spaced(p) ==
    /\ ~Executing(p) => sinceTrigger[p] <= sinceNotify[p]
    /\ Executing(p) /\ (failed \/ NotifyPending) => sinceNotify[p] = Cooldown
    /\ Executing(p) => ~(failed /\ NotifyPending)

\* Until shutdown, the triggers and the notifications of every policy that
\* notifies are in step. (daemon.go:163-211)
CooldownInv == ~ctxDone => \A p \in PolicyNames : Notifies(p) => Spaced(p)

-----------------------------------------------------------------------------
(* The abstract specification that the daemon implements.                  *)

TargetKinds == [p \in PolicyNames |-> {k \in Kinds : Describes(Policies[p], k)}]

Acting == IF pc \in ExecutePcs THEN {Current.policy} ELSE {}

\* Whom the SIGKILL loop has still to hit.
Doomed == IF pc = "sigkill" THEN {pid \in todo : Reachable(pid)} ELSE {}

Promise == INSTANCE Enforcement WITH
    Targets <- TargetKinds,
    acting  <- Acting,
    since   <- sinceTrigger,
    looked  <- listedAs,
    warned  <- termed,
    age     <- termAge,
    doomed  <- Doomed

\* Snapshots, decision lists and loops over actions and pids add nothing that
\* Enforcement forbids: one policy at a time, a cooldown apart, on processes that
\* it was written for when the program last looked, SIGKILL only after SIGTERM and
\* the grace period, and a round of SIGKILL that has begun is finished.
\* (daemon.go:97-217, executor.go:33-199)
Enforced == Promise!Spec

-----------------------------------------------------------------------------
(* Liveness.                                                               *)

\* The real process table satisfies the thresholds of policy p.
Runaway(p) ==
    Thresholds(Policies[p],
               [procs |-> {[pid |-> pid, name |-> table[pid].name, parent |-> table[pid].parent] :
                              pid \in {q \in Pids : table[q] # Free}},
                load1 |-> load.load1, load5 |-> load.load5])

\* A workload that stays over a policy's thresholds is acted on, again and
\* again, for as long as the daemon is not shut down: neither a cooldown, nor
\* a failed action, nor checks busy with other policies starve it.
RunawaysAreHandled ==
    \A p \in PolicyNames :
        Runaway(p) ~> ~Runaway(p) \/ Executing(p) \/ ctxDone

\* A process that got SIGTERM from the executor does not linger: it exits or
\* is killed, unless the daemon is shut down first. (executor.go:161-189)
TermedProcessesGo ==
    \A pid \in Pids : pid \in termed ~> pid \notin termed \/ ctxDone

\* A shutdown request ends the daemon, in whatever part of a check it comes.
\* (daemon.go:82-95, executor.go:161-166)
ShutdownCompletes == ctxDone ~> pc = "stopped"
=============================================================================
