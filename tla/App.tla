--------------------------------- MODULE App ---------------------------------
(***************************************************************************)
(* The life of the program (internal/app/app.go, internal/cli): `run' with *)
(* the daemon and the HTTP server, kept alive by launchd                   *)
(* (configs/com.plexusone.workloadguard.plist), or a one-shot `check',     *)
(* with or without --execute.                                              *)
(*                                                                         *)
(* When the daemon has stopped the server is shut down: it accepts no      *)
(* request any more and waits for those under way, though no longer than   *)
(* five seconds, because a handler may be stuck.  The program may also     *)
(* crash at any point.  What it knew is lost either way, cooldowns         *)
(* included; the processes it has warned live on.                          *)
(*                                                                         *)
(* A one-shot check beside the daemon is, for the daemon, one more reason  *)
(* for processes to exit; here it runs on its own.                         *)
(***************************************************************************)
EXTENDS TerminateApi

CONSTANTS
    Programs,    \* of "run", "check", "execute" (check --execute)
    DrainLimit,  \* how long Shutdown waits, in clock units
    MaxEnds      \* how often the program may be stopped or crash

ASSUME AppAssumption ==
    /\ Programs \subseteq {"run", "check", "execute"}
    /\ DrainLimit \in Nat
    /\ MaxEnds \in Nat

VARIABLES
    program,    \* the command that was started
    stage,      \* of the program: "up", "draining" or "down"
    serving,    \* the HTTP server takes requests
    drainLeft,  \* what remains of the wait in Shutdown
    ends        \* how often the program was stopped or crashed

appVars == <<sysVars, program, stage, serving, drainLeft, ends>>

lifeVars == <<program, stage, serving, drainLeft, ends>>

AppInit ==
    /\ SysInit
    /\ program \in Programs
    /\ stage = "up"
    /\ serving = FALSE
    /\ drainLeft = 0
    /\ ends = 0

-----------------------------------------------------------------------------
\* A program that ends loses everything but what it did to the processes.
Forgotten ==
    /\ ctxDone' = FALSE
    /\ ticks' = {}
    /\ pc' = "stopped"
    /\ ticking' = FALSE
    /\ snapshot' = EmptySnapshot
    /\ latestSnapshot' = NoSnapshot
    /\ latestDecisions' = <<>>
    /\ next' = 1
    /\ step' = 1
    /\ failed' = FALSE
    /\ todo' = {}
    /\ graceLeft' = 0
    /\ sinceTrigger' = [p \in PolicyNames |-> Cooldown]
    /\ seen' = {}
    /\ listedAs' = [pid \in Pids |-> Free]
    /\ termed' = {}
    /\ termAge' = [pid \in Pids |-> 0]
    /\ handler' = [c \in Clients |-> Idle]
    /\ published' = {}
    /\ asked' = {}
    /\ UNCHANGED <<table, load, dryRun, sinceNotify>>

Down ==
    /\ Forgotten
    /\ stage' = "down"
    /\ serving' = FALSE
    /\ drainLeft' = 0
    /\ UNCHANGED program

\* A panic, a kill, or Ctrl-C in a one-shot check, which does not handle it.
Crash ==
    /\ stage # "down"
    /\ ends < MaxEnds
    /\ ends' = ends + 1
    /\ Down

\* launchd starts the daemon again, with the configuration it finds then.
Relaunch ==
    /\ stage = "down"
    /\ program = "run"
    /\ stage' = "up"
    /\ pc' = "collect"
    /\ dryRun' \in DryRuns
    /\ UNCHANGED <<table, load, ctxDone, ticks, ticking, snapshot, next, step, failed, todo,
                   graceLeft, latestVars, sinceTrigger, historyVars, handler, published,
                   asked, program, serving, drainLeft, ends>>

\* ListenAndServe runs in a goroutine of its own. If it fails, the failure is
\* logged and the daemon goes on without a server.
StartServing ==
    /\ program = "run"
    /\ stage = "up"
    /\ ~serving
    /\ serving' = TRUE
    /\ UNCHANGED <<sysVars, program, stage, drainLeft, ends>>

\* Mutant of BeginDrain: the listener stays open.
BeginDrainServing ==
    /\ program = "run"
    /\ stage = "up"
    /\ pc = "stopped"
    /\ stage' = "draining"
    /\ drainLeft' = DrainLimit
    /\ UNCHANGED <<sysVars, program, serving, ends>>

\* Mutant of BeginDrain: the return of d.Run is not awaited.
BeginDrainEarly ==
    /\ program = "run"
    /\ stage = "up"
    /\ stage' = "draining"
    /\ serving' = FALSE
    /\ drainLeft' = DrainLimit
    /\ UNCHANGED <<sysVars, program, ends>>

\* d.Run has returned: the deferred Shutdown closes the listener.
BeginDrain ==
    /\ program = "run"
    /\ stage = "up"
    /\ pc = "stopped"
    /\ stage' = "draining"
    /\ serving' = FALSE
    /\ drainLeft' = DrainLimit
    /\ UNCHANGED <<sysVars, program, ends>>

Drained == \A c \in Clients : handler[c].at = "idle"

\* Mutant of EndDrain: Shutdown has no limit.
EndDrainPatient ==
    /\ stage = "draining"
    /\ Drained
    /\ Down
    /\ UNCHANGED ends

EndDrain ==
    /\ stage = "draining"
    /\ Drained \/ drainLeft = 0
    /\ Down
    /\ UNCHANGED ends

-----------------------------------------------------------------------------
(* The one-shot check: neither dry_run nor cooldown, nothing published.    *)

\* Mutant of CheckBegins: --execute is not looked at.
CheckBeginsAlways ==
    /\ program \in {"check", "execute"}
    /\ pc = "decide"
    /\ next <= Len(latestDecisions)
    /\ Current.triggered
    /\ pc' = "execute"
    /\ UNCHANGED <<osVars, ticking, snapshot, next, step, failed, todo, graceLeft, latestVars,
                   sinceTrigger, historyVars>>

CheckBegins ==
    /\ program = "execute"
    /\ pc = "decide"
    /\ next <= Len(latestDecisions)
    /\ Current.triggered
    /\ pc' = "execute"
    /\ UNCHANGED <<osVars, ticking, snapshot, next, step, failed, todo, graceLeft, latestVars,
                   sinceTrigger, historyVars>>

CheckSkips ==
    /\ program \in {"check", "execute"}
    /\ pc = "decide"
    /\ next <= Len(latestDecisions)
    /\ program = "check" \/ ~Current.triggered
    /\ NextDecision
    /\ UNCHANGED <<osVars, ticking, snapshot, todo, graceLeft, latestVars, sinceTrigger,
                   historyVars>>

\* An error is logged; there is no trigger to record.
CheckExecuted ==
    /\ program = "execute"
    /\ pc = "execute"
    /\ step > Len(Actions)
    /\ NextDecision
    /\ UNCHANGED <<osVars, ticking, snapshot, todo, graceLeft, latestVars, sinceTrigger,
                   historyVars>>

\* The result is printed.
CheckEnds ==
    /\ program \in {"check", "execute"}
    /\ stage = "up"
    /\ pc = "decide"
    /\ next > Len(latestDecisions)
    /\ Down
    /\ UNCHANGED ends

\* What the one-shot check shares with the daemon: Collect, Evaluate, Execute.
CheckStep ==
    \/ Collect
    \/ Publish
    \/ CheckBegins
    \/ CheckSkips
    \/ PlainAction
    \/ NotifyDelivered
    \/ NotifyFails
    \/ BeginTerminate
    \/ Signalling
    \/ CheckExecuted

-----------------------------------------------------------------------------
\* The user, launchd or, in a one-shot check, its timeout ends the context.
End ==
    /\ stage = "up"
    /\ ends < MaxEnds
    /\ Cancel
    /\ ends' = ends + 1
    /\ UNCHANGED <<program, stage, serving, drainLeft>>

Surroundings ==
    \/ \E pid \in Pids, kind \in Kinds : Spawn(pid, kind)
    \/ \E pid \in Pids : Exit(pid)
    \/ \E pid \in Pids, kind \in Kinds : Alter(pid, kind)
    \/ LoadChanges

\* Time passes for the daemon and for Shutdown.
TimePasses ==
    /\ ClockTick
    /\ drainLeft' = IF drainLeft > 0 THEN drainLeft - 1 ELSE 0
    /\ UNCHANGED <<handler, published, asked, program, stage, serving, ends>>

\* The steps of the daemon and of the processes around it.
Inner ==
    \/ Surroundings /\ UNCHANGED lifeVars
    \/ End
    \/ /\ program = "run"
       /\ (\E ticker \in {"periodic", "load"} : TickerFires(ticker)) \/ Check \/ Select
       /\ UNCHANGED lifeVars
    \/ /\ program # "run"
       /\ CheckStep
       /\ UNCHANGED lifeVars

AppNext ==
    \/ /\ Inner
       /\ Remember(IF pc = "evaluate" /\ pc' = "decide" THEN seen ELSE published, asked, handler)
    \/ \E c \in Clients, request \in Requests :
          serving /\ Arrive(c, request) /\ UNCHANGED lifeVars
    \/ \E c \in Clients : Serve(c) /\ UNCHANGED lifeVars
    \/ TimePasses
    \/ StartServing
    \/ BeginDrain
    \/ EndDrain
    \/ CheckEnds
    \/ Crash
    \/ Relaunch

(***************************************************************************)
(* Beyond the daemon's own fairness: a started program ends its phases,    *)
(* and launchd starts the daemon again.  Nothing is assumed of handlers:   *)
(* one may be stuck for ever behind a WebSocket client that takes no data. *)
(***************************************************************************)
AppSpec ==
    /\ AppInit
    /\ [][AppNext]_appVars
    /\ WF_vars(program = "run" /\ Check)
    /\ WF_appVars(TimePasses)
    /\ \A ticker \in {"periodic", "load"} : WF_vars(program = "run" /\ TickerFires(ticker))
    /\ SF_vars(Stop)
    /\ SF_vars(PeriodicCheck)
    /\ WF_appVars(BeginDrain)
    /\ WF_appVars(EndDrain)
    /\ WF_appVars(Relaunch)

-----------------------------------------------------------------------------
\* The phases of the program go with the daemon's: requests are served only
\* while it runs or drains, and a program that is down has nothing under way.
\* (app.go:68-80)
AppTypeOK ==
    /\ program \in Programs
    /\ stage \in {"up", "draining", "down"}
    /\ drainLeft \in 0..DrainLimit
    /\ ends \in 0..MaxEnds
    /\ serving => program = "run" /\ stage = "up"
    /\ stage # "up" => pc = "stopped"
    /\ stage = "down" => Drained

\* A check without --execute touches nobody. (check.go:17-20, app.go:145)
ChecksOnlyLook ==
    program = "check" =>
        /\ pc \notin ExecutePcs
        /\ termed = {}
        /\ \A p \in PolicyNames : sinceNotify[p] = Cooldown

\* What the program knows of x while it is up; when it is not, none.
Known(x, none) == IF stage = "up" THEN x ELSE none

\* The promise over the life of the program.
Life == INSTANCE Lifetime WITH
    Targets <- TargetKinds,
    acting  <- Acting,
    looked  <- Known(listedAs, [pid \in Pids |-> Free]),
    since   <- Known(sinceTrigger, [p \in PolicyNames |-> Cooldown]),
    warned  <- Known(termed, {}),
    age     <- Known(termAge, [pid \in Pids |-> 0]),
    doomed  <- Doomed,
    running <- stage = "up"

\* The daemon with its server, and the one-shot check, keep the promise through
\* all shutdowns, timeouts, crashes and restarts: from the moment it begins to
\* shut down the program touches nobody of its own accord, and whoever was
\* warned before a stop is warned again before he is killed. (app.go:34-160)
KeptForLife == Life!LifeSpec

\* Stopping the program ends it, also in the middle of a check and with a
\* request that never finishes. (app.go:74-80, daemon.go:82-95)
ShutdownEnds == ctxDone /\ program = "run" ~> stage = "down"

\* However often the daemon is stopped or crashes, in whatever state, launchd
\* brings back one that acts on a lasting runaway: nothing that is lost or
\* left over keeps it from doing so. (app.go:34-106, daemon.go:70-95)
RunawaysAreHandledAgain ==
    \A p \in PolicyNames :
        program = "run" /\ Runaway(p) ~> ~Runaway(p) \/ Executing(p)
=============================================================================
