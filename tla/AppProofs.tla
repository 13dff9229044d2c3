------------------------------ MODULE AppProofs ------------------------------
(***************************************************************************)
(* Theorems about the life of the program, through any number of crashes   *)
(* and restarts, for every configuration and with any number of clients.   *)
(***************************************************************************)
EXTENDS App, TerminateProofs

-----------------------------------------------------------------------------
(* The steps that the daemon does not have.                                *)

\* The loop of the one-shot check, where it differs from the daemon's.
CheckLoop == CheckBegins \/ CheckSkips \/ CheckExecuted

LEMMA CheckLoopFrame ==
    ASSUME TypeInv, CheckLoop
    PROVE  /\ UNCHANGED <<osVars, ticking, snapshot, todo, graceLeft, latestVars, sinceTrigger,
                          historyVars>>
           /\ program # "run"
           /\ Looping
           /\ \/ pc' = "execute" /\ next' = next /\ step' = step /\ failed' = failed
                 /\ next <= Len(latestDecisions)
              \/ pc' = "decide" /\ next' = next + 1 /\ step' = 1 /\ failed' = FALSE
                 /\ next \in 1..Len(latestDecisions)
<1>1. next \in 1..Len(latestDecisions) + 1 /\ Len(latestDecisions) \in Nat
  BY DEF TypeInv, TypeOK
<1>2. CASE CheckBegins
  BY <1>2 DEF CheckBegins, Looping
<1>3. CASE CheckSkips
  BY <1>1, <1>3 DEF CheckSkips, NextDecision, Looping
<1>4. CASE CheckExecuted
  BY <1>1, <1>4 DEF CheckExecuted, NextDecision, Looping, TypeInv, LoopIndex, ExecutePcs
<1>5. QED
  BY <1>2, <1>3, <1>4 DEF CheckLoop

LEMMA CheckLoopTyped ==
    ASSUME TypeInv, CheckLoop
    PROVE  TypeInv'
<1>1. TypeOK /\ LoopIndex
  BY DEF TypeInv
<1>2. /\ UNCHANGED <<osVars, ticking, snapshot, todo, graceLeft, latestVars, sinceTrigger,
                     historyVars>>
      /\ pc' \in {"execute", "decide"}
      /\ step' \in Nat \ {0}
      /\ failed' \in BOOLEAN
      /\ next' \in 1..Len(latestDecisions) + 1
      /\ pc' = "execute" => next' <= Len(latestDecisions)
  <2>1. Len(latestDecisions) \in Nat /\ step \in Nat \ {0} /\ failed \in BOOLEAN
        /\ next \in 1..Len(latestDecisions) + 1
    BY <1>1 DEF TypeOK
  <2>2. CASE /\ pc' = "execute" /\ next' = next /\ step' = step /\ failed' = failed
             /\ next <= Len(latestDecisions)
    BY <2>1, <2>2, CheckLoopFrame
  <2>3. CASE /\ pc' = "decide" /\ next' = next + 1 /\ step' = 1 /\ failed' = FALSE
             /\ next \in 1..Len(latestDecisions)
    <3>1. next' \in 1..Len(latestDecisions) + 1 /\ step' \in Nat \ {0}
      BY <2>1, <2>3
    <3>2. failed' \in BOOLEAN
      BY <2>3
    <3>3. QED
      BY <2>3, <3>1, <3>2, CheckLoopFrame
  <2>4. QED
    BY <2>2, <2>3, CheckLoopFrame
<1>3. TypeOK'
  BY <1>1, <1>2 DEF TypeOK, ExecutePcs, osVars, latestVars, historyVars
<1>4. LoopIndex'
  BY <1>2 DEF LoopIndex, ExecutePcs, latestVars
<1>5. QED
  BY <1>3, <1>4 DEF TypeInv

\* A program that has ended knows nothing.
LEMMA ForgottenSafe ==
    ASSUME SysInv, Forgotten
    PROVE  /\ SysInv'
           /\ SnapshotDropped' /\ SurvivorInv'
           /\ pc' = "stopped" /\ Drained' /\ asked' = {}
<1> USE DEF Forgotten
<1>1. TypeInv'
  <2>1. latestDecisions' \in Seq(Decision) /\ Len(latestDecisions') = 0
    OBVIOUS
  <2>2. snapshot'.procs = {}
    BY DEF EmptySnapshot
  <2>3. /\ sinceTrigger' \in [PolicyNames -> 0..Cooldown]
        /\ termAge' \in [Pids -> 0..GracePeriod]
        /\ graceLeft' \in 0..GracePeriod
    BY DaemonAssumption
  <2>4. /\ table' \in [Pids -> Kinds \cup {Free}] /\ load' \in Loads /\ dryRun' \in DryRuns
        /\ sinceNotify' \in [PolicyNames -> 0..Cooldown]
    BY DEF SysInv, TypeInv, TypeOK
  <2>5. /\ ctxDone' \in BOOLEAN /\ ticks' \subseteq {"periodic", "load"} /\ ticking' \in BOOLEAN
        /\ pc' = "stopped" /\ latestSnapshot' = NoSnapshot
        /\ next' \in 1..Len(latestDecisions') + 1 /\ step' \in Nat \ {0} /\ failed' \in BOOLEAN
        /\ todo' = {} /\ seen' = {} /\ termed' = {}
        /\ listedAs' \in [Pids -> Kinds \cup {Free}]
        /\ \A pid \in Pids : listedAs'[pid] = Free
    <3>1. next' = 1 /\ 1 \in 1..Len(latestDecisions') + 1 /\ step' = 1
      BY <2>1
    <3>2. ctxDone' \in BOOLEAN /\ ticking' \in BOOLEAN /\ failed' \in BOOLEAN
      OBVIOUS
    <3>3. ticks' \subseteq {"periodic", "load"}
      OBVIOUS
    <3>4. QED
      BY <3>1, <3>2, <3>3
  <2> HIDE DEF Forgotten
  <2>6. TypeOK'
    BY <2>1, <2>2, <2>3, <2>4, <2>5 DEF TypeOK
  <2>7. LoopIndex'
    BY DEF Forgotten, LoopIndex, ExecutePcs
  <2>8. QED
    BY <2>6, <2>7 DEF TypeInv
<1>2. SeenAlive'
  BY DEF SeenAlive
<1>3. \A c \in Clients : handler'[c] = Idle
  OBVIOUS
<1>4. Handlers'
  <2>1. handler' \in [Clients -> HandlerRecord]
    BY IdleTyped
  <2>2. ASSUME NEW c \in Clients PROVE HandlerFacts(handler[c])'
    BY <1>3, IdleTyped DEF HandlerFacts
  <2>3. QED
    BY <2>1, <2>2 DEF Handlers
<1>5. Drained'
  BY <1>3, IdleTyped DEF Drained
<1>6. SnapshotDropped' /\ SurvivorInv'
  BY DEF SnapshotDropped, SurvivorInv, ListedAreSeen, TargetsAreSeen, TodoAreTargets,
         PassedAreTermed, GraceIsServed, Looping, ExecutePcs, EmptySnapshot
<1>7. QED
  BY <1>1, <1>2, <1>4, <1>5, <1>6 DEF SysInv

-----------------------------------------------------------------------------
(* The invariant of the handlers through crashes and restarts.             *)

\* A program that is down has asked nobody to exit that anyone remembers.
AppInv == SysInv /\ (stage = "down" => asked = {})

\* The daemon, where it goes on as it does when left alone.
Daemonic ==
    \/ DaemonStep
    \/ ClockTick /\ UNCHANGED <<handler, published, asked>>
    \/ \E c \in Clients : Serve(c)
    \/ \E c \in Clients, request \in Requests : Arrive(c, request)
    \/ UNCHANGED sysVars

LEMMA DaemonicStep ==
    ASSUME SysInv, Daemonic
    PROVE  SysInv' /\ [Next]_vars
<1>1. CASE ClockTick /\ UNCHANGED <<handler, published, asked>>
  <2>1. Next
    BY <1>1 DEF Next, Environment
  <2>2. TypeInv' /\ SeenAlive'
    BY <2>1, TypeInvStep, SeenAliveStep DEF SysInv, TypeInv
  <2>3. UNCHANGED <<table, dryRun, handler, published, asked>>
    BY <1>1 DEF ClockTick, osVars
  <2>4. Handlers'
    BY <2>3 DEF SysInv, Handlers, HandlerFacts
  <2>5. QED
    BY <2>1, <2>2, <2>4 DEF SysInv
<1>2. CASE ~(ClockTick /\ UNCHANGED <<handler, published, asked>>)
  <2>1. [SysNext]_sysVars
    BY <1>2 DEF Daemonic, SysNext
  <2>2. QED
    BY <2>1, SysStep
<1>3. QED
  BY <1>1, <1>2

\* The kinds of step the program makes.
LEMMA AppSteps ==
    ASSUME [AppNext]_appVars
    PROVE  \/ Daemonic /\ UNCHANGED <<program, stage>>
           \/ BeginDrain
           \/ CheckLoop /\ Remember(published, asked, handler) /\ UNCHANGED lifeVars
           \/ Down /\ stage # "down"
           \/ Relaunch
<1> DEFINE known == IF pc = "evaluate" /\ pc' = "decide" THEN seen ELSE published
<1>1. CASE Inner /\ Remember(known, asked, handler)
  <2>1. CASE CheckLoop /\ program # "run" /\ UNCHANGED lifeVars
    <3>1. pc # "evaluate"
      BY <2>1 DEF CheckLoop, CheckBegins, CheckSkips, CheckExecuted
    <3>2. QED
      BY <1>1, <2>1, <3>1
  <2>2. CASE Next /\ program' = program /\ stage' = stage
    BY <1>1, <2>2 DEF Daemonic, DaemonStep
  <2>3. CASE Surroundings /\ UNCHANGED lifeVars
    BY <2>2, <2>3 DEF Surroundings, Next, Environment, lifeVars
  <2>4. CASE End
    BY <2>2, <2>4 DEF End, Next, Environment
  <2>5. CASE /\ (\E ticker \in {"periodic", "load"} : TickerFires(ticker)) \/ Check \/ Select
             /\ UNCHANGED lifeVars
    BY <2>2, <2>5 DEF Next, Environment, lifeVars
  <2>6. CASE CheckStep /\ program # "run" /\ UNCHANGED lifeVars
    BY <2>1, <2>2, <2>6 DEF CheckStep, CheckLoop, Next, Check, lifeVars
  <2>7. QED
    BY <1>1, <2>3, <2>4, <2>5, <2>6 DEF Inner
<1>2. CASE \E c \in Clients, request \in Requests :
              serving /\ Arrive(c, request) /\ UNCHANGED lifeVars
  BY <1>2 DEF Daemonic, lifeVars
<1>3. CASE \E c \in Clients : Serve(c) /\ UNCHANGED lifeVars
  BY <1>3 DEF Daemonic, lifeVars
<1>4. CASE TimePasses
  BY <1>4 DEF TimePasses, Daemonic
<1>5. CASE StartServing \/ BeginDrain
  BY <1>5 DEF StartServing, BeginDrain, Daemonic
<1>6. CASE EndDrain \/ CheckEnds \/ Crash
  BY <1>6 DEF EndDrain, CheckEnds, Crash
<1>7. CASE UNCHANGED appVars
  BY <1>7 DEF appVars, Daemonic
<1>8. QED
  BY <1>1, <1>2, <1>3, <1>4, <1>5, <1>6, <1>7 DEF AppNext

LEMMA DownStaysQuiet ==
    ASSUME SysInv, AppTypeOK, [AppNext]_appVars, stage = "down", stage' = "down"
    PROVE  Drained' /\ asked' \subseteq asked
<1>1. /\ \A c \in Clients : handler[c] \in HandlerRecord /\ HandlerFacts(handler[c])
      /\ Drained /\ ~serving
  BY DEF SysInv, Handlers, AppTypeOK
<1>2. ASSUME NEW c \in Clients PROVE ~Serve(c)
  BY <1>1 DEF Drained, Serve, NoSnapshotYet, NobodyAccepted, DryRunReply, BeginSignals,
              Validates, Term, Kill, NextPlace, Reply, Answered, Return
<1>3. CASE \E known : Remember(known, asked, handler)
  <2> DEFINE gone == {pid \in Pids : (table[pid] = Free) # (table'[pid] = Free)}
  <2>1. /\ handler' = [c \in Clients |-> [handler[c] EXCEPT !.listed = @ \ gone]]
        /\ asked' = asked \ gone
    BY <1>3 DEF Remember
  <2> HIDE DEF gone
  <2>2. ASSUME NEW c \in Clients PROVE handler'[c].at = handler[c].at
    BY <1>1, <2>1 DEF HandlerRecord
  <2>3. QED
    BY <1>1, <2>1, <2>2 DEF Drained
<1>4. CASE UNCHANGED <<handler, asked>>
  BY <1>1, <1>4 DEF Drained
<1>5. QED
  <2>1. UNCHANGED appVars \/ TimePasses => UNCHANGED <<handler, asked>>
    BY DEF appVars, sysVars, TimePasses
  <2>2. ~StartServing /\ ~BeginDrain /\ ~EndDrain /\ ~CheckEnds /\ ~Crash /\ ~Relaunch
    BY DEF StartServing, BeginDrain, EndDrain, CheckEnds, Crash, Relaunch
  <2>3. QED
    BY <1>1, <1>2, <1>3, <1>4, <2>1, <2>2 DEF AppNext

LEMMA AppInvStep == AppInv /\ AppTypeOK /\ [AppNext]_appVars => AppInv'
<1> SUFFICES ASSUME AppInv, AppTypeOK, [AppNext]_appVars PROVE AppInv'
  OBVIOUS
<1>1. CASE (Daemonic /\ UNCHANGED <<program, stage>>) \/ BeginDrain
  <2>0. Daemonic /\ (stage' = "down" => stage = "down")
    BY <1>1 DEF BeginDrain, Daemonic
  <2>1. SysInv'
    BY <2>0, DaemonicStep DEF AppInv
  <2>2. stage' = "down" => asked' = {}
    BY <2>0, DownStaysQuiet DEF AppInv
  <2>3. QED
    BY <2>1, <2>2 DEF AppInv
<1>2. CASE CheckLoop /\ Remember(published, asked, handler) /\ UNCHANGED lifeVars
  <2>1. TypeInv' /\ UNCHANGED <<table, seen, dryRun>>
    BY <1>2, CheckLoopTyped, CheckLoopFrame DEF AppInv, SysInv, osVars, historyVars
  <2>2. SeenAlive'
    BY <2>1 DEF AppInv, SysInv, SeenAlive
  <2>3. \A pid \in published : pid \in Pids /\ table[pid] # Free
    BY DEF AppInv, SysInv, Handlers
  <2>4. Handlers'
    BY <1>2, <2>1, <2>3, RememberKeepsHandlers DEF AppInv, OwnersStay
  <2>5. stage' = stage /\ asked' \subseteq asked
    BY <1>2 DEF lifeVars, Remember
  <2>6. QED
    BY <2>1, <2>2, <2>4, <2>5 DEF AppInv, SysInv
<1>3. CASE Down
  BY <1>3, ForgottenSafe DEF Down, AppInv
<1>4. CASE Relaunch
  <2>1. TypeInv'
    <3>1. TypeOK /\ LoopIndex /\ pc = "stopped"
      BY <1>4 DEF AppInv, SysInv, TypeInv, AppTypeOK, Relaunch
    <3>2. /\ pc' = "collect" /\ dryRun' \in DryRuns
          /\ UNCHANGED <<table, load, ctxDone, ticks, ticking, snapshot, next, step, failed, todo,
                         graceLeft, latestVars, sinceTrigger, historyVars>>
      BY <1>4 DEF Relaunch
    <3>3. TypeOK'
      BY <3>1, <3>2 DEF TypeOK, latestVars, historyVars
    <3>4. LoopIndex'
      BY <3>1, <3>2 DEF LoopIndex, ExecutePcs
    <3>5. QED
      BY <3>3, <3>4 DEF TypeInv
  <2>2. SeenAlive'
    BY <1>4 DEF AppInv, SysInv, SeenAlive, Relaunch, historyVars
  <2>3. Handlers'
    <3>1. Drained /\ asked = {} /\ UNCHANGED <<table, handler, published, asked>>
      BY <1>4 DEF AppInv, AppTypeOK, Relaunch
    <3>2. ASSUME NEW c \in Clients PROVE HandlerFacts(handler[c])'
      BY <3>1 DEF AppInv, SysInv, Handlers, HandlerFacts, Drained
    <3>3. QED
      BY <3>1, <3>2 DEF AppInv, SysInv, Handlers
  <2>4. QED
    BY <1>4, <2>1, <2>2, <2>3 DEF AppInv, SysInv, Relaunch
<1>5. QED
  BY <1>1, <1>2, <1>3, <1>4, AppSteps

-----------------------------------------------------------------------------
(* The phases of the program.                                              *)

\* While the program is not up, the daemon's goroutine does not move.
LEMMA StoppedStays ==
    ASSUME pc = "stopped",
           \/ Inner
           \/ \E c \in Clients : Serve(c)
           \/ \E c \in Clients, request \in Requests : Arrive(c, request)
           \/ TimePasses \/ StartServing \/ BeginDrain \/ UNCHANGED appVars
    PROVE  pc' = "stopped"
<1> USE DEF checkVars
<1>1. CASE Inner
  <2>1. CASE Surroundings \/ End
    BY <2>1 DEF Surroundings, End, Spawn, Exit, Alter, LoadChanges, Cancel
  <2>2. ~\E ticker \in {"periodic", "load"} : TickerFires(ticker)
    BY DEF TickerFires
  <2>3. ~Signalling
    BY DEF Signalling, SigTerm, BeginGrace, GraceCancelled, GraceOver, SigKill, TerminateReturns
  <2>4. ~Check /\ ~CheckStep
    BY <2>3 DEF Check, CheckStep, Collect, Publish, SkipDecision, BeginExecute, FinishCheck,
                PlainAction, NotifyDelivered, NotifyFails, BeginTerminate, ExecuteReturns,
                CheckBegins, CheckSkips, CheckExecuted, AtAction
  <2>5. ~Select
    BY DEF Select, Stop, PeriodicCheck, LoadCheck, LoadIgnored, Receive
  <2>6. QED
    BY <1>1, <2>1, <2>2, <2>4, <2>5 DEF Inner
<1>2. CASE \E c \in Clients : Serve(c)
  BY <1>2 DEF Serve, NoSnapshotYet, NobodyAccepted, DryRunReply, BeginSignals, Refuse, Term,
              Kill, Reply, Return, vars
<1>3. CASE \E c \in Clients, request \in Requests : Arrive(c, request)
  BY <1>3 DEF Arrive, vars
<1>4. CASE TimePasses
  BY <1>4 DEF TimePasses, ClockTick
<1>5. CASE StartServing \/ BeginDrain \/ UNCHANGED appVars
  BY <1>5 DEF StartServing, BeginDrain, appVars, sysVars, vars
<1>6. QED
  BY <1>1, <1>2, <1>3, <1>4, <1>5

LEMMA AppTypeStep == SysInv /\ AppTypeOK /\ [AppNext]_appVars => AppTypeOK'
<1> SUFFICES ASSUME SysInv, AppTypeOK, [AppNext]_appVars PROVE AppTypeOK'
  OBVIOUS
<1> USE AppAssumption DEF AppTypeOK
<1>1. CASE Down /\ (UNCHANGED ends \/ (ends < MaxEnds /\ ends' = ends + 1))
  BY <1>1, ForgottenSafe DEF Down
<1>2. CASE Relaunch
  BY <1>2 DEF Relaunch
<1>3. CASE UNCHANGED lifeVars /\ (pc = "stopped" => pc' = "stopped")
  BY <1>3, DownStaysQuiet DEF lifeVars
<1>4. CASE Inner
  <2>1. CASE End
    BY <2>1 DEF End
  <2>2. QED
    BY <1>3, <1>4, <2>1, StoppedStays DEF Inner
<1>5. CASE TimePasses
  <2>1. UNCHANGED <<program, stage, serving, ends>> /\ drainLeft' \in 0..DrainLimit
    BY <1>5 DEF TimePasses
  <2>2. pc = "stopped" => pc' = "stopped"
    BY <1>5, StoppedStays
  <2>3. QED
    BY <2>1, <2>2, DownStaysQuiet
<1>6. CASE StartServing \/ BeginDrain
  <2>1. /\ UNCHANGED <<program, ends>>
        /\ stage' \in {"up", "draining"} /\ stage = "up"
        /\ drainLeft' \in 0..DrainLimit
    BY <1>6 DEF StartServing, BeginDrain
  <2>2. serving' => program' = "run" /\ stage' = "up"
    BY <1>6 DEF StartServing, BeginDrain
  <2>3. stage' # "up" => pc = "stopped"
    BY <1>6 DEF StartServing, BeginDrain
  <2>4. pc = "stopped" => pc' = "stopped"
    BY <1>6, StoppedStays
  <2>5. QED
    BY <2>1, <2>2, <2>3, <2>4
<1>7. QED
  <2>1. EndDrain \/ CheckEnds \/ Crash =>
            Down /\ (UNCHANGED ends \/ (ends < MaxEnds /\ ends' = ends + 1))
    BY DEF EndDrain, CheckEnds, Crash
  <2>2. UNCHANGED appVars => UNCHANGED lifeVars
    BY DEF appVars, lifeVars
  <2>3. QED
    BY <1>1, <1>2, <1>3, <1>4, <1>5, <1>6, <2>1, <2>2, StoppedStays DEF AppNext

LEMMA AppInvInit == AppInit => AppInv /\ AppTypeOK
  BY SysInvInit, AppAssumption DEF AppInit, AppInv, AppTypeOK

AppSafety == AppInit /\ [][AppNext]_appVars

LEMMA AppInvHolds == AppSpec => [](AppInv /\ AppTypeOK)
<1>1. AppInv /\ AppTypeOK /\ [AppNext]_appVars => (AppInv /\ AppTypeOK)'
  BY AppInvStep, AppTypeStep DEF AppInv
<1>2. AppSafety => [](AppInv /\ AppTypeOK)
  BY <1>1, AppInvInit, PTL DEF AppSafety
<1>3. AppSpec => AppSafety
  BY PTL DEF AppSpec, AppSafety
<1>4. QED
  BY <1>2, <1>3

\* The phases of the program go with those of the daemon, through all crashes
\* and restarts: requests are taken only while it runs, and a program that is
\* down has nothing under way. (app.go:68-80)
THEOREM PhasesFit == AppSpec => []AppTypeOK
  BY AppInvHolds, PTL

-----------------------------------------------------------------------------
(* The one-shot check.                                                     *)

LEMMA ChecksOnlyLookStep ==
    AppInv /\ ChecksOnlyLook /\ [AppNext]_appVars => ChecksOnlyLook'
<1> SUFFICES ASSUME AppInv, ChecksOnlyLook, [AppNext]_appVars, program' = "check"
             PROVE  ChecksOnlyLook'
  BY DEF ChecksOnlyLook
<1> USE DEF ChecksOnlyLook
<1>1. CASE Down
  BY <1>1 DEF Down, Forgotten, ExecutePcs
<1>2. CASE ~Down
  <2>1. program = "check"
    BY <1>2 DEF AppNext, Inner, lifeVars, appVars, End, TimePasses, StartServing, BeginDrain,
                EndDrain, CheckEnds, Crash, Relaunch
  <2>2. pc \notin ExecutePcs /\ termed = {} /\ \A p \in PolicyNames : sinceNotify[p] = Cooldown
    BY <2>1
  <2>3. CASE Inner
    <3>1. CASE Surroundings \/ End
      BY <2>2, <3>1 DEF Surroundings, End, Spawn, Exit, Alter, LoadChanges, Cancel, Forget, checkVars,
                        historyVars
    <3>2. CASE CheckStep
      <4>1. ~Signalling /\ ~PlainAction /\ ~NotifyDelivered /\ ~NotifyFails /\ ~BeginTerminate
            /\ ~CheckBegins /\ ~CheckExecuted
        BY <2>1, <2>2 DEF Signalling, SigTerm, BeginGrace, GraceCancelled, GraceOver, SigKill,
                          TerminateReturns, PlainAction, NotifyDelivered, NotifyFails,
                          BeginTerminate, CheckBegins, CheckExecuted, AtAction, ExecutePcs
      <4>2. QED
        BY <2>2, <3>2, <4>1 DEF CheckStep, Collect, Publish, CheckSkips, NextDecision, ExecutePcs,
                                historyVars
    <3>3. QED
      BY <2>1, <2>3, <3>1, <3>2 DEF Inner
  <2>4. CASE TimePasses
    <3>1. pc' = pc /\ termed' = termed
      BY <2>4 DEF TimePasses, ClockTick
    <3>2. \A p \in PolicyNames : sinceNotify'[p] = Cooldown
      BY <2>2, <2>4, DaemonAssumption DEF TimePasses, ClockTick, Older
    <3>3. QED
      BY <2>2, <3>1, <3>2
  <2>5. CASE \E c \in Clients : Serve(c)
    <3>1. pc' = pc /\ sinceNotify' = sinceNotify /\ termed' \subseteq termed
      <4> SUFFICES ASSUME NEW c \in Clients, Serve(c)
                   PROVE  pc' = pc /\ sinceNotify' = sinceNotify /\ termed' \subseteq termed
        BY <2>5
      <4>1. CASE NoSnapshotYet(c) \/ NobodyAccepted(c)
        <5>1. UNCHANGED vars
          BY <4>1 DEF NoSnapshotYet, NobodyAccepted, Refuse
        <5>2. QED
          BY <5>1 DEF vars, checkVars, historyVars
      <4>2. CASE DryRunReply(c) \/ BeginSignals(c)
        BY <4>2 DEF DryRunReply, BeginSignals, vars, checkVars, historyVars
      <4>3. CASE Reply(c) \/ Return(c)
        BY <4>3 DEF Reply, Return, vars, checkVars, historyVars
      <4>4. ASSUME NEW i \in handler[c].left, Term(c, i) \/ Kill(c, i)
            PROVE  pc' = pc /\ sinceNotify' = sinceNotify /\ termed' \subseteq termed
        <5>1. CASE Term(c, i)
          BY <5>1 DEF Term, vars, checkVars, historyVars
        <5>2. CASE Kill(c, i)
          BY <5>2 DEF Kill, Forget, checkVars
        <5>3. QED
          BY <4>4, <5>1, <5>2
      <4>5. QED
        BY <4>1, <4>2, <4>3, <4>4 DEF Serve
    <3>2. QED
      BY <2>2, <3>1
  <2>6. CASE (\E c \in Clients, request \in Requests : Arrive(c, request)) \/ UNCHANGED appVars
    BY <2>2, <2>6 DEF Arrive, appVars, sysVars, vars, checkVars, historyVars
  <2>7. QED
    BY <1>2, <2>1, <2>3, <2>4, <2>5, <2>6
       DEF AppNext, StartServing, BeginDrain, EndDrain, CheckEnds, Crash, Relaunch
<1>3. QED
  BY <1>1, <1>2

\* A check without --execute touches nobody and notifies nobody, whatever the
\* configuration says. (check.go:17-20, app.go:145)
THEOREM ChecksTouchNobody == AppSpec => []ChecksOnlyLook
<1>1. AppInit => ChecksOnlyLook
  BY DEF AppInit, SysInit, Init, ChecksOnlyLook, ExecutePcs
<1>2. AppSafety /\ [](AppInv /\ AppTypeOK) => []ChecksOnlyLook
  BY <1>1, ChecksOnlyLookStep, PTL DEF AppSafety
<1>3. AppSpec => AppSafety
  BY PTL DEF AppSpec, AppSafety
<1>4. QED
  BY <1>2, <1>3, AppInvHolds

-----------------------------------------------------------------------------
(* Crashes, restarts and timeouts spare nobody's grace period.             *)

LEMMA KillsStep ==
    ASSUME AppInv, AppTypeOK, SnapshotDropped, SurvivorInv, ~ReuseTargets, [AppNext]_appVars
    PROVE  SnapshotDropped' /\ SurvivorInv'
<1>1. CASE Daemonic \/ BeginDrain
  <2>1. [Next]_vars
    BY <1>1, DaemonicStep DEF AppInv, BeginDrain, Daemonic
  <2>2. QED
    BY <2>1, SnapshotDroppedStep, SurvivorInvStep DEF AppInv, SysInv
<1>2. CASE CheckLoop
  <2>1. /\ UNCHANGED <<table, snapshot, seen, latestDecisions>>
        /\ pc' \in {"execute", "decide"}
        /\ Looping
        /\ next' = next \/ next' = next + 1
    BY <1>2, CheckLoopFrame DEF AppInv, SysInv, osVars, latestVars, historyVars
  <2>2. next' \in Nat /\ next' >= next
    BY <2>1 DEF AppInv, SysInv, TypeInv, TypeOK
  <2>3. SurvivorInv'
    BY <2>1, <2>2, SurvivorInvOutside DEF AppInv, SysInv
  <2>4. SnapshotDropped'
    BY <2>1 DEF SnapshotDropped, Looping, ExecutePcs
  <2>5. QED
    BY <2>3, <2>4
<1>3. CASE Down
  BY <1>3, ForgottenSafe DEF Down, AppInv
<1>4. CASE Relaunch
  <2>1. /\ UNCHANGED <<table, snapshot, seen>>
        /\ pc = "stopped" /\ pc' = "collect"
    BY <1>4 DEF Relaunch, historyVars, AppTypeOK
  <2>2. SurvivorInv'
    BY <2>1, SurvivorInvOutside DEF AppInv, SysInv, Looping, ExecutePcs
  <2>3. QED
    BY <2>1, <2>2 DEF SnapshotDropped
<1>5. QED
  BY <1>1, <1>2, <1>3, <1>4, AppSteps

\* Through crashes and restarts of the daemon, and in a one-shot check that its
\* timeout may cut off, the executor kills only whom this very execution has
\* warned, as long as no pid under a running check is given to a new process.
\* (executor.go:138-189, app.go:123-160, check.go:53-74)
THEOREM KillsStandRestarts == ~ReuseTargets => (AppSpec => []KillOnlySurvivors)
<1> SUFFICES ASSUME ~ReuseTargets PROVE AppSpec => []KillOnlySurvivors
  OBVIOUS
<1>1. AppInit => SnapshotDropped /\ SurvivorInv
  BY SnapshotDroppedInit, SurvivorInvInit DEF AppInit, SysInit
<1>2. AppInv /\ AppTypeOK /\ SnapshotDropped /\ SurvivorInv /\ [AppNext]_appVars
         => (SnapshotDropped /\ SurvivorInv)'
  BY KillsStep
<1>3. AppSafety /\ [](AppInv /\ AppTypeOK) => []SurvivorInv
  BY <1>1, <1>2, PTL DEF AppSafety
<1>4. AppInv /\ SurvivorInv => KillOnlySurvivors
  BY SurvivorInvSpeaks DEF AppInv, SysInv
<1>5. AppSpec => AppSafety
  BY PTL DEF AppSpec, AppSafety
<1>6. QED
  BY <1>3, <1>4, <1>5, AppInvHolds, PTL

-----------------------------------------------------------------------------
(* The promise over the life of the program.                               *)

\* A one-shot check knows of no cooldown.
OneShotsAreCold == program # "run" => \A p \in PolicyNames : sinceTrigger[p] = Cooldown

LEMMA OneShotsAreColdStep ==
    AppInv /\ OneShotsAreCold /\ [AppNext]_appVars => OneShotsAreCold'
<1> SUFFICES ASSUME AppInv, OneShotsAreCold, [AppNext]_appVars, program' # "run",
                    NEW p \in PolicyNames
             PROVE  sinceTrigger'[p] = Cooldown
  BY DEF OneShotsAreCold
<1>1. CASE Down
  BY <1>1 DEF Down, Forgotten
<1>2. CASE ~Down
  <2>1. program # "run"
    BY <1>2 DEF AppNext, Inner, lifeVars, appVars, End, TimePasses, StartServing, BeginDrain,
                EndDrain, CheckEnds, Crash, Relaunch
  <2>2. sinceTrigger[p] = Cooldown
    BY <2>1 DEF OneShotsAreCold
  <2>3. CASE Inner
    <3>1. CASE Surroundings \/ End
      BY <2>2, <3>1 DEF Surroundings, End, Spawn, Exit, Alter, LoadChanges, Cancel
    <3>2. CASE CheckStep
      BY <2>2, <3>2 DEF CheckStep, Signalling, SigTerm, BeginGrace, GraceCancelled, GraceOver,
                        SigKill, TerminateReturns, PlainAction, NotifyDelivered, NotifyFails,
                        BeginTerminate, CheckBegins, CheckSkips, CheckExecuted, Collect, Publish
    <3>3. QED
      BY <2>1, <2>3, <3>1, <3>2 DEF Inner
  <2>4. CASE TimePasses
    BY <2>2, <2>4, DaemonAssumption DEF TimePasses, ClockTick, Older
  <2>5. CASE \E c \in Clients : Serve(c)
    BY <2>2, <2>5 DEF Serve, NoSnapshotYet, NobodyAccepted, DryRunReply, BeginSignals, Refuse,
                      Term, Kill, Reply, Return, vars
  <2>6. CASE (\E c \in Clients, request \in Requests : Arrive(c, request)) \/ UNCHANGED appVars
    BY <2>2, <2>6 DEF Arrive, appVars, sysVars, vars
  <2>7. QED
    BY <1>2, <2>1, <2>3, <2>4, <2>5, <2>6
       DEF AppNext, StartServing, BeginDrain, EndDrain, CheckEnds, Crash, Relaunch
<1>3. QED
  BY <1>1, <1>2

\* What makes the steps of the program steps of Lifetime.
LifeInv == PromiseInv /\ OneShotsAreCold

LEMMA LifeInvInit == AppInit => LifeInv
  BY PromiseInvInit DEF AppInit, SysInit, Init, LifeInv, OneShotsAreCold

LEMMA LifeInvStep ==
    AppInv /\ AppTypeOK /\ LifeInv /\ ~ReuseTargets /\ [AppNext]_appVars => LifeInv'
<1> SUFFICES ASSUME AppInv, AppTypeOK, LifeInv, ~ReuseTargets, [AppNext]_appVars
             PROVE  PromiseInv'
  BY OneShotsAreColdStep DEF LifeInv
<1>0. TypeInv /\ PromiseInv /\ SnapshotDropped /\ SurvivorInv /\ DescriptionInv /\ ActingIsCooled
  BY DEF AppInv, SysInv, LifeInv, PromiseInv
<1>1. SnapshotDropped' /\ SurvivorInv'
  BY <1>0, KillsStep
<1>2. CASE Daemonic \/ BeginDrain
  <2>1. [Next]_vars
    BY <1>2, DaemonicStep DEF AppInv, BeginDrain, Daemonic
  <2>2. QED
    BY <1>0, <2>1, PromiseInvStep
<1>3. CASE CheckLoop
  <2>1. /\ UNCHANGED <<table, snapshot, seen, listedAs, latestDecisions, sinceTrigger>>
        /\ program # "run"
        /\ Looping
        /\ \/ pc' = "execute" /\ next' = next /\ next <= Len(latestDecisions)
           \/ pc' = "decide" /\ next' = next + 1
    BY <1>0, <1>3, CheckLoopFrame DEF osVars, latestVars, historyVars
  <2>2. next \in Nat \ {0} /\ next' \in Nat /\ next' >= next
    BY <1>0, <2>1 DEF TypeInv, TypeOK
  <2>3. DescriptionInv'
    BY <1>0, <2>1, <2>2, DescriptionKept
  <2>4. ActingIsCooled'
    <3> SUFFICES ASSUME pc' \in ExecutePcs PROVE sinceTrigger'[Current'.policy] = Cooldown
      BY DEF ActingIsCooled
    <3>1. next <= Len(latestDecisions) /\ Current' = Current
      BY <2>1 DEF ExecutePcs, Current
    <3>2. Current.policy \in PolicyNames
      BY <1>0, <3>1, CurrentTyped DEF TypeInv
    <3>3. QED
      BY <2>1, <3>1, <3>2 DEF LifeInv, OneShotsAreCold
  <2>5. QED
    BY <1>1, <2>3, <2>4 DEF PromiseInv
<1>4. CASE Down
  <2>1. snapshot' = EmptySnapshot /\ pc' = "stopped"
    BY <1>4 DEF Down, Forgotten
  <2>2. DescriptionInv' /\ ActingIsCooled'
    BY <2>1 DEF DescriptionInv, ActingIsCooled, EmptySnapshot, Looping, ExecutePcs
  <2>3. QED
    BY <1>1, <2>2 DEF PromiseInv
<1>5. CASE Relaunch
  <2>1. UNCHANGED <<table, snapshot, seen, listedAs>> /\ pc' = "collect"
    BY <1>5 DEF Relaunch, historyVars
  <2>2. DescriptionInv'
    BY <1>0, <2>1, DescriptionKept DEF Looping, ExecutePcs
  <2>3. ActingIsCooled'
    BY <2>1 DEF ActingIsCooled, ExecutePcs
  <2>4. QED
    BY <1>1, <2>2, <2>3 DEF PromiseInv
<1>6. QED
  BY <1>2, <1>3, <1>4, <1>5, AppSteps

\* While no policy acts, the processes and the clock are all that moves, and
\* what is known of the processes.
LEMMA OnlyTheWorldMoves ==
    ASSUME [Promise!Next]_Seen, Acting = {}, Acting' = {}, Doomed = {}
    PROVE  \/ \E pid \in Pids, kind \in Kinds : Promise!Start(pid, kind)
           \/ \E pid \in Pids : Promise!Exit(pid)
           \/ \E pid \in Pids, kind \in Kinds : Promise!Alter(pid, kind)
           \/ Promise!Tick
           \/ Promise!Look
           \/ UNCHANGED Seen
<1>1. ASSUME NEW p \in PolicyNames
      PROVE  /\ ~Promise!Begin(p) /\ ~Promise!Doom(p) /\ ~Promise!End(p)
             /\ \A pid \in Pids : ~Promise!Warn(p, pid)
  BY DEF Promise!Begin, Promise!Doom, Promise!End, Promise!Warn, Promise!MayTouch
<1>2. ASSUME NEW pid \in Pids
      PROVE  ~Promise!Kill(pid)
  BY DEF Promise!Kill
<1>3. QED
  BY <1>1, <1>2 DEF Promise!Next

\* Nothing is known to a program that is down.
Blank ==
    /\ sinceTrigger = [p \in PolicyNames |-> Cooldown]
    /\ termed = {}
    /\ termAge = [pid \in Pids |-> 0]
    /\ seen = {}

LEMMA BlankStays ==
    ASSUME [Promise!Next]_Seen, Acting = {}, Acting' = {}, Doomed = {}, Blank,
           seen' \subseteq seen
    PROVE  Blank'
<1> USE DEF Blank
<1>1. CASE \/ \E pid \in Pids, kind \in Kinds : Promise!Start(pid, kind)
           \/ \E pid \in Pids : Promise!Exit(pid)
  BY <1>1 DEF Promise!Start, Promise!Exit, Promise!Becomes
<1>2. CASE Promise!Look \/ \E pid \in Pids, kind \in Kinds : Promise!Alter(pid, kind)
  BY <1>2 DEF Promise!Look, Promise!Alter
<1>3. CASE Promise!Tick
  <2>1. /\ sinceTrigger' = [p \in PolicyNames |-> Promise!Elapse(sinceTrigger[p], Cooldown)]
        /\ termAge' = [pid \in Pids |-> IF pid \in termed
                                         THEN Promise!Elapse(termAge[pid], GracePeriod)
                                         ELSE termAge[pid]]
        /\ termed' = termed
    BY <1>3 DEF Promise!Tick
  <2>2. Cooldown \in Nat
    BY DaemonAssumption
  <2>3. \A p \in PolicyNames : Promise!Elapse(sinceTrigger[p], Cooldown) = Cooldown
    BY <2>2 DEF Promise!Elapse
  <2>4. sinceTrigger' = [p \in PolicyNames |-> Cooldown]
    BY <2>1, <2>3
  <2>5. termAge' = [pid \in Pids |-> 0]
    BY <2>1
  <2>6. QED
    BY <2>1, <2>4, <2>5
<1>4. CASE UNCHANGED Seen
  BY <1>4 DEF Seen
<1>5. QED
  BY <1>1, <1>3, <1>4, <1>2, OnlyTheWorldMoves

\* Whoever was seen by nobody is not known to anybody.
LEMMA BlindToAll ==
    ASSUME TypeInv, seen = {}
    PROVE  listedAs = [pid \in Pids |-> Free]
<1>1. listedAs \in [Pids -> Kinds \cup {Free}] /\ \A pid \in Pids : listedAs[pid] = Free
  BY DEF TypeInv, TypeOK
<1>2. QED
  BY <1>1

\* The daemon's goroutine is where it acts for no policy.
LEMMA StoppedActsForNobody == pc = "stopped" => Acting = {} /\ Doomed = {}
  BY DEF Acting, Doomed, ExecutePcs

DownIsBlank == stage = "down" => Blank

LEMMA DownIsBlankStep ==
    ASSUME AppInv, AppTypeOK, LifeInv, DownIsBlank, ~ReuseTargets, [AppNext]_appVars
    PROVE  DownIsBlank'
<1> SUFFICES ASSUME stage' = "down" PROVE Blank'
  BY DEF DownIsBlank
<1>1. CASE Down
  BY <1>1 DEF Down, Forgotten, Blank
<1>2. CASE Daemonic /\ UNCHANGED <<program, stage>>
  <2>1. stage = "down" /\ Blank /\ pc = "stopped"
    BY <1>2 DEF DownIsBlank, AppTypeOK
  <2>2. pc' = "stopped"
    BY AppTypeStep DEF AppInv, AppTypeOK
  <2>3. [Promise!Next]_Seen
    BY <1>2, DaemonicStep, PromiseStep DEF AppInv, SysInv, LifeInv
  <2>4. Acting = {} /\ Doomed = {}
    BY <2>1, StoppedActsForNobody
  <2>5. Acting' = {}
    BY <2>2 DEF Acting, ExecutePcs
  <2>6. seen' \subseteq seen
    <3>1. ~Collect /\ TypeOK /\ [Next]_vars
      BY <1>2, <2>1, DaemonicStep DEF Collect, AppInv, SysInv, TypeInv
    <3>2. QED
      BY <3>1, DaemonFrame
  <2>7. QED
    BY <2>1, <2>3, <2>4, <2>5, <2>6, BlankStays
<1>3. ~CheckLoop \/ ~UNCHANGED lifeVars
  BY DEF CheckLoop, CheckBegins, CheckSkips, CheckExecuted, lifeVars, AppTypeOK
<1>4. ~BeginDrain /\ ~Relaunch
  BY DEF BeginDrain, Relaunch
<1>5. QED
  BY <1>1, <1>2, <1>3, <1>4, AppSteps

-----------------------------------------------------------------------------
(* The steps in the terms of Lifetime.                                     *)

\* While the program is up, Lifetime allows what Enforcement allows.
LEMMA UpKeepsPromise ==
    ASSUME stage = "up", stage' = "up", [Promise!Next]_Seen
    PROVE  [Life!LifeNext]_(Life!lifeVars)
<1> USE DEF Known
<1>1. ASSUME NEW pid \in Pids, NEW kind \in Kinds, Promise!Start(pid, kind)
      PROVE  Life!Start(pid, kind)
  BY <1>1 DEF Promise!Start, Life!Start, Promise!Becomes, Life!Becomes
<1>2. ASSUME NEW pid \in Pids, Promise!Exit(pid)
      PROVE  Life!Exit(pid)
  BY <1>2 DEF Promise!Exit, Life!Exit, Promise!Becomes, Life!Becomes
<1>3. /\ Promise!Tick => Life!Tick
      /\ Promise!Look => Life!Look
      /\ \A pid \in Pids, kind \in Kinds : Promise!Alter(pid, kind) => Life!Alter(pid, kind)
  BY DEF Promise!Tick, Life!Tick, Promise!Elapse, Life!Elapse, Promise!Look, Life!Look,
         Promise!Alter, Life!Alter
<1>4. ASSUME NEW p \in PolicyNames
      PROVE  /\ Promise!Begin(p) => Life!Begin(p)
             /\ Promise!Doom(p) => Life!Doom(p)
             /\ Promise!End(p) => Life!End(p)
  BY DEF Promise!Begin, Life!Begin, Promise!Doom, Life!Doom, Promise!End, Life!End,
         Promise!MayTouch, Life!MayTouch
<1>5. ASSUME NEW p \in PolicyNames, NEW pid \in Pids, Promise!Warn(p, pid)
      PROVE  Life!Warn(p, pid)
  BY <1>5 DEF Promise!Warn, Life!Warn, Promise!MayTouch, Life!MayTouch
<1>6. ASSUME NEW pid \in Pids, Promise!Kill(pid)
      PROVE  Life!Kill(pid)
  BY <1>6 DEF Promise!Kill, Life!Kill, Promise!Becomes, Life!Becomes
<1>7. CASE Promise!Next
  <2>1. Life!Next
    BY <1>1, <1>2, <1>3, <1>4, <1>5, <1>6, <1>7 DEF Promise!Next, Life!Next
  <2>2. QED
    BY <2>1 DEF Life!LifeNext
<1>8. CASE UNCHANGED Seen
  BY <1>8 DEF Seen, Life!lifeVars, Life!vars
<1>9. QED
  BY <1>7, <1>8

\* When it is not, processes still come, change and go.
LEMMA IdleKeepsPromise ==
    ASSUME stage # "up", stage' # "up", [Promise!Next]_Seen,
           Acting = {}, Acting' = {}, Doomed = {}, Doomed' = {}
    PROVE  [Life!LifeNext]_(Life!lifeVars)
<1> USE DEF Known
<1>1. ASSUME NEW pid \in Pids, NEW kind \in Kinds, Promise!Start(pid, kind)
      PROVE  Life!Start(pid, kind)
  BY <1>1 DEF Promise!Start, Life!Start, Promise!Becomes, Life!Becomes
<1>2. ASSUME NEW pid \in Pids, Promise!Exit(pid)
      PROVE  Life!Exit(pid)
  BY <1>2 DEF Promise!Exit, Life!Exit, Promise!Becomes, Life!Becomes
<1>3. ASSUME NEW pid \in Pids, NEW kind \in Kinds, Promise!Alter(pid, kind)
      PROVE  Life!Alter(pid, kind)
  BY <1>3 DEF Promise!Alter, Life!Alter
<1>4. CASE \/ \E pid \in Pids, kind \in Kinds : Promise!Start(pid, kind)
           \/ \E pid \in Pids : Promise!Exit(pid)
           \/ \E pid \in Pids, kind \in Kinds : Promise!Alter(pid, kind)
  BY <1>1, <1>2, <1>4, <1>3 DEF Life!LifeNext, Life!World
<1>5. CASE Promise!Tick \/ Promise!Look \/ UNCHANGED Seen
  BY <1>5 DEF Promise!Tick, Promise!Look, Seen, Life!lifeVars, Life!vars
<1>6. QED
  BY <1>4, <1>5, OnlyTheWorldMoves

LEMMA LifeStep ==
    ASSUME AppInv, AppTypeOK, LifeInv, DownIsBlank, ~ReuseTargets, [AppNext]_appVars
    PROVE  [Life!LifeNext]_(Life!lifeVars)
<1>0. stage # "up" => Acting = {} /\ Doomed = {}
  BY StoppedActsForNobody DEF AppTypeOK
<1>1. stage' # "up" => Acting' = {} /\ Doomed' = {}
  <2>1. AppTypeOK'
    BY AppTypeStep DEF AppInv
  <2>2. QED
    BY <2>1 DEF AppTypeOK, Acting, Doomed, ExecutePcs
<1>2. CASE Daemonic /\ UNCHANGED <<program, stage>>
  <2>1. [Promise!Next]_Seen
    BY <1>2, DaemonicStep, PromiseStep DEF AppInv, SysInv, LifeInv
  <2>2. QED
    BY <1>0, <1>1, <1>2, <2>1, UpKeepsPromise, IdleKeepsPromise
<1>3. CASE CheckLoop /\ UNCHANGED lifeVars
  <2>1. /\ UNCHANGED <<table, listedAs, sinceTrigger, termed, termAge, latestDecisions>>
        /\ program # "run" /\ Looping
        /\ pc' \in {"execute", "decide"}
    BY <1>3, CheckLoopFrame DEF AppInv, SysInv, osVars, latestVars, historyVars
  <2>2. stage = "up" /\ stage' = "up"
    BY <1>3, <2>1 DEF AppTypeOK, Looping, ExecutePcs, lifeVars
  <2>3. Doomed = {} /\ Doomed' = {}
    BY <1>3, <2>1 DEF CheckLoop, CheckBegins, CheckSkips, CheckExecuted, Doomed
  <2>4. CASE CheckBegins
    <3>1. Current' = Current /\ next <= Len(latestDecisions) /\ pc = "decide" /\ pc' = "execute"
      BY <2>4 DEF CheckBegins, Current, latestVars
    <3>2. Current.policy \in PolicyNames
      BY <3>1, CurrentTyped DEF AppInv, SysInv, TypeInv
    <3>3. sinceTrigger[Current.policy] = Cooldown
      BY <2>1, <3>2 DEF LifeInv, OneShotsAreCold
    <3>4. Acting = {} /\ Acting' = {Current.policy}
      BY <3>1 DEF Acting, ExecutePcs
    <3>5. Promise!Begin(Current.policy)
      BY <2>1, <2>3, <3>3, <3>4 DEF Promise!Begin
    <3>6. Promise!Next
      BY <3>2, <3>5 DEF Promise!Next
    <3>7. QED
      BY <2>2, <3>6, UpKeepsPromise
  <2>5. CASE CheckSkips
    <3>1. Acting = {} /\ Acting' = {}
      BY <2>5 DEF CheckSkips, NextDecision, Acting, ExecutePcs
    <3>2. UNCHANGED Seen
      BY <2>1, <2>3, <3>1 DEF Seen
    <3>3. QED
      BY <2>2, <3>2, UpKeepsPromise
  <2>6. CASE CheckExecuted
    <3>1. pc = "execute" /\ pc' = "decide"
      BY <2>6 DEF CheckExecuted, NextDecision
    <3>2. Current.policy \in PolicyNames
      BY <3>1, CurrentTyped DEF AppInv, SysInv, TypeInv, LoopIndex, ExecutePcs
    <3>3. Acting = {Current.policy} /\ Acting' = {}
      BY <3>1 DEF Acting, ExecutePcs
    <3>4. Promise!End(Current.policy)
      BY <2>1, <2>3, <3>3 DEF Promise!End
    <3>5. Promise!Next
      BY <3>2, <3>4 DEF Promise!Next
    <3>6. QED
      BY <2>2, <3>5, UpKeepsPromise
  <2>7. QED
    BY <1>3, <2>4, <2>5, <2>6 DEF CheckLoop
<1>4. CASE BeginDrain \/ (Down /\ stage = "up")
  <2>1. stage = "up" /\ stage' # "up" /\ table' = table
    BY <1>4 DEF BeginDrain, Down, Forgotten, sysVars, vars, osVars
  <2>2. Life!Stop
    BY <1>1, <2>1 DEF Life!Stop, Known
  <2>3. QED
    BY <2>2 DEF Life!LifeNext
<1>5. CASE Down /\ stage # "up"
  <2>1. stage' # "up" /\ table' = table
    BY <1>5 DEF Down, Forgotten
  <2>2. QED
    BY <1>0, <1>1, <1>5, <2>1 DEF Life!lifeVars, Life!vars, Known
<1>6. CASE Relaunch
  <2>1. /\ stage = "down" /\ stage' = "up" /\ pc' = "collect"
        /\ UNCHANGED <<table, listedAs, sinceTrigger, termed, termAge>>
    BY <1>6 DEF Relaunch, historyVars
  <2>2. Blank /\ listedAs = [pid \in Pids |-> Free]
    BY <2>1, BlindToAll DEF DownIsBlank, Blank, AppInv, SysInv
  <2>3. Acting = {} /\ Acting' = {} /\ Doomed = {} /\ Doomed' = {}
    BY <1>0, <2>1 DEF Acting, Doomed, ExecutePcs
  <2>4. Life!Restart
    BY <2>1, <2>2, <2>3 DEF Life!Restart, Life!vars, Known, Blank
  <2>5. QED
    BY <2>4 DEF Life!LifeNext
<1>7. QED
  BY <1>2, <1>3, <1>4, <1>5, <1>6, AppSteps

\* Over its whole life, through all shutdowns, timeouts, crashes and restarts,
\* the program keeps its promise, as long as no pid under a running check is
\* given to a new process: policies act one at a time and a cooldown apart, on
\* processes they were written for when this very run listed them, and kill only
\* whom it has warned and given the grace period. What a process has turned into
\* since it was listed is not promised to be noticed. (app.go:34-160,
\* daemon.go:97-217, executor.go:33-199)
THEOREM ProgramKeepsPromise == ~ReuseTargets => (AppSpec => KeptForLife)
<1> SUFFICES ASSUME ~ReuseTargets PROVE AppSpec => KeptForLife
  OBVIOUS
<1>1. AppInit => LifeInv /\ DownIsBlank /\ Life!LifeInit
  <2> SUFFICES ASSUME AppInit PROVE LifeInv /\ DownIsBlank /\ Life!LifeInit
    OBVIOUS
  <2>1. LifeInv /\ stage = "up" /\ Init
    BY LifeInvInit DEF AppInit, SysInit
  <2>2. Promise!Init
    BY <2>1, PromiseInit
  <2>3. Life!LifeInit
    BY <2>1, <2>2 DEF Promise!Init, Life!LifeInit, Life!Init, Known
  <2>4. QED
    BY <2>1, <2>3 DEF DownIsBlank
<1>2. AppInv /\ AppTypeOK /\ LifeInv /\ DownIsBlank /\ [AppNext]_appVars
         => (LifeInv /\ DownIsBlank)'
  BY LifeInvStep, DownIsBlankStep
<1>3. AppInv /\ AppTypeOK /\ LifeInv /\ DownIsBlank /\ [AppNext]_appVars
         => [Life!LifeNext]_(Life!lifeVars)
  BY LifeStep
<1>4. AppSafety /\ [](AppInv /\ AppTypeOK) => Life!LifeInit /\ [][Life!LifeNext]_(Life!lifeVars)
  BY <1>1, <1>2, <1>3, PTL DEF AppSafety
<1>5. AppSpec => AppSafety
  BY PTL DEF AppSpec, AppSafety
<1>6. QED
  BY <1>4, <1>5, AppInvHolds, PTL DEF KeptForLife, Life!LifeSpec

\* The theorems about Lifetime for what the program knows while it is up.
LifeKept == INSTANCE PromiseProofs WITH
    Targets <- TargetKinds,
    looked  <- Known(listedAs, [pid \in Pids |-> Free]),
    acting  <- Acting,
    since   <- Known(sinceTrigger, [p \in PolicyNames |-> Cooldown]),
    warned  <- Known(termed, {}),
    age     <- Known(termAge, [pid \in Pids |-> 0]),
    doomed  <- Doomed,
    running <- stage = "up"

LEMMA LifeKeptIsLife ==
    /\ Life!LifeInit <=> LifeKept!LifeInit
    /\ [Life!LifeNext]_(Life!lifeVars) <=> [LifeKept!LifeNext]_(LifeKept!lifeVars)
    /\ Life!KillsAreDue <=> LifeKept!KillsAreDue
    /\ Life!DownIsIdle <=> LifeKept!DownIsIdle
<1>1. ASSUME NEW pid \in Pids, NEW kind
      PROVE  Life!Becomes(pid, kind) <=> LifeKept!Becomes(pid, kind)
  BY DEF Life!Becomes, LifeKept!Becomes
<1>2. ASSUME NEW pid \in Pids
      PROVE  /\ \A kind \in Kinds : Life!Start(pid, kind) <=> LifeKept!Start(pid, kind)
             /\ Life!Exit(pid) <=> LifeKept!Exit(pid)
             /\ Life!Kill(pid) <=> LifeKept!Kill(pid)
             /\ \A kind \in Kinds : Life!Alter(pid, kind) <=> LifeKept!Alter(pid, kind)
  BY <1>1 DEF Life!Start, LifeKept!Start, Life!Exit, LifeKept!Exit, Life!Kill, LifeKept!Kill,
              Life!Alter, LifeKept!Alter
<1>3. (Life!Tick <=> LifeKept!Tick) /\ (Life!Look <=> LifeKept!Look)
  BY DEF Life!Tick, LifeKept!Tick, Life!Elapse, LifeKept!Elapse, Life!Look, LifeKept!Look
<1>4. ASSUME NEW p \in PolicyNames
      PROVE  /\ Life!Begin(p) <=> LifeKept!Begin(p)
             /\ Life!Doom(p) <=> LifeKept!Doom(p)
             /\ Life!End(p) <=> LifeKept!End(p)
             /\ \A pid \in Pids : Life!Warn(p, pid) <=> LifeKept!Warn(p, pid)
  BY DEF Life!Begin, LifeKept!Begin, Life!Doom, LifeKept!Doom, Life!End, LifeKept!End,
         Life!Warn, LifeKept!Warn, Life!MayTouch, LifeKept!MayTouch
<1>5. Life!Next <=> LifeKept!Next
  BY <1>2, <1>3, <1>4 DEF Life!Next, LifeKept!Next
<1>6. Life!World <=> LifeKept!World
  BY <1>2, <1>3 DEF Life!World, LifeKept!World
<1>7. UNCHANGED Life!vars <=> UNCHANGED LifeKept!vars
  BY DEF Life!vars, LifeKept!vars
<1>8. /\ Life!Stop <=> LifeKept!Stop
      /\ Life!Restart <=> LifeKept!Restart
  BY <1>7 DEF Life!Stop, LifeKept!Stop, Life!Restart, LifeKept!Restart
<1>9. Life!LifeNext <=> LifeKept!LifeNext
  BY <1>5, <1>6, <1>8 DEF Life!LifeNext, LifeKept!LifeNext
<1>10. QED
  BY <1>7, <1>9 DEF Life!Init, LifeKept!Init, Life!LifeInit, LifeKept!LifeInit,
                    Life!lifeVars, LifeKept!lifeVars, Life!KillsAreDue, LifeKept!KillsAreDue,
                    Life!DownIsIdle, LifeKept!DownIsIdle

\* Whenever and however the program is stopped, whoever it kills was listed by
\* this very run as one of those the executing policy is written for, has been
\* warned by it and has had the whole grace period since, whatever he has turned
\* into meanwhile; and from the moment it begins to shut down it acts for no
\* policy and is killing nobody, as long as no pid under a running check is given
\* to a new process. (app.go:34-160, executor.go:150-196)
THEOREM KillsAreDueThroughRestarts ==
    ~ReuseTargets => (AppSpec => [](Life!KillsAreDue /\ Life!DownIsIdle))
<1>1. GracePeriod \in Nat /\ Cooldown \in Nat
  BY DaemonAssumption
<1>2. LifeKept!LifeSpec => [](LifeKept!KillsAreDue /\ LifeKept!DownIsIdle)
  BY <1>1, LifeKept!KillsAreDueForLife
<1>3. KeptForLife => [](Life!KillsAreDue /\ Life!DownIsIdle)
  BY <1>2, LifeKeptIsLife, PTL DEF KeptForLife, Life!LifeSpec, LifeKept!LifeSpec
<1>4. QED
  BY <1>3, ProgramKeepsPromise
=============================================================================
