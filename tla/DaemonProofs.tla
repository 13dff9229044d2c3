---------------------------- MODULE DaemonProofs ----------------------------
(***************************************************************************)
(* Theorems about Daemon, for every configuration, process table and clock *)
(* bound.                                                                  *)
(***************************************************************************)
EXTENDS Daemon, FiniteSetTheorems, WellFoundedInduction, TLAPS

-----------------------------------------------------------------------------
(* What the policy engine returns.                                         *)

\* The decisions of Evaluate are well typed, and they act only on processes
\* of the snapshot they were made from.
LEMMA EvaluationsTargetSnapshot ==
    ASSUME NEW snap,
           \A s \in snap.procs : s.pid \in Pids,
           NEW list \in Evaluations(Policies, snap)
    PROVE  /\ list \in Seq(Decision)
           /\ \A i \in 1..Len(list) : list[i].pids \subseteq {s.pid : s \in snap.procs}
<1> DEFINE on == EnabledNames(Policies)
<1>1. PICK order \in PriorityOrders(Policies) :
         list = [i \in DOMAIN order |-> EvaluatePolicy(Policies, order[i], snap)]
  BY DEF Evaluations
<1>2. Cardinality(on) \in Nat
  BY DaemonAssumption, FS_Subset, FS_CardinalityType DEF EnabledNames, PolicyNames
<1>3. order \in [1..Cardinality(on) -> on]
  BY DEF PriorityOrders
<1>4. \A n \in on : /\ EvaluatePolicy(Policies, n, snap) \in Decision
                    /\ EvaluatePolicy(Policies, n, snap).pids
                          \subseteq {s.pid : s \in snap.procs}
  <2> SUFFICES ASSUME NEW n \in on
               PROVE  /\ EvaluatePolicy(Policies, n, snap) \in Decision
                      /\ EvaluatePolicy(Policies, n, snap).pids
                            \subseteq {s.pid : s \in snap.procs}
    OBVIOUS
  <2> DEFINE trig == /\ Thresholds(Policies[n], snap)
                     /\ IsAuthorized(PolicySet(Policies), CedarRequest(Policies[n], snap))
             hit == {p.pid : p \in Matching(Policies[n], snap.procs)}
  <2>1. EvaluatePolicy(Policies, n, snap) =
           [policy |-> n, triggered |-> trig, pids |-> IF trig THEN hit ELSE {}]
    BY DEF EvaluatePolicy
  <2>2. hit \subseteq {s.pid : s \in snap.procs}
    BY DEF Matching
  <2>3. hit \subseteq Pids
    BY <2>2
  <2>4. trig \in BOOLEAN
    OBVIOUS
  <2>5. n \in PolicyNames
    BY DEF EnabledNames, PolicyNames
  <2> HIDE DEF trig, hit
  <2>6. QED
    BY <2>1, <2>2, <2>3, <2>4, <2>5 DEF Decision
<1>5. list \in [1..Cardinality(on) -> Decision]
  BY <1>1, <1>3, <1>4
<1>6. list \in Seq(Decision) /\ Len(list) = Cardinality(on)
  BY <1>2, <1>5
<1>7. QED
  BY <1>1, <1>3, <1>4, <1>6

-----------------------------------------------------------------------------
(* Type correctness.                                                       *)

\* The decision being handled is one of the list, and it is typed.
LEMMA CurrentTyped ==
    ASSUME TypeOK, next <= Len(latestDecisions)
    PROVE  /\ next \in 1..Len(latestDecisions)
           /\ Current \in Decision
           /\ Current.policy \in PolicyNames
           /\ Current.pids \subseteq Pids
           /\ Len(Actions) \in Nat
<1>1. next \in 1..Len(latestDecisions) /\ latestDecisions \in Seq(Decision)
  BY DEF TypeOK
<1>2. Current \in Decision
  BY <1>1 DEF Current
<1>3. Current.policy \in PolicyNames /\ Current.pids \subseteq Pids
  BY <1>2 DEF Decision
<1>4. Len(Actions) \in Nat
  BY <1>3, DaemonAssumption DEF Actions
<1>5. QED
  BY <1>1, <1>2, <1>3, <1>4

\* Execute works on a decision of the list, and the loop is at its start
\* whenever no loop is running.
LoopIndex ==
    /\ pc \in ExecutePcs => next <= Len(latestDecisions)
    /\ pc \notin ExecutePcs \cup {"decide"} => next = 1

TypeInv == TypeOK /\ LoopIndex

LEMMA TypeInvInit == Init => TypeInv
<1> SUFFICES ASSUME Init PROVE TypeInv
  OBVIOUS
<1> USE DaemonAssumption DEF Init
<1>1. latestDecisions \in Seq(Decision) /\ Len(latestDecisions) = 0
  OBVIOUS
<1>2. snapshot.procs = {}
  BY DEF EmptySnapshot
<1>3. /\ sinceTrigger \in [PolicyNames -> 0..Cooldown]
      /\ sinceNotify \in [PolicyNames -> 0..Cooldown]
      /\ termAge \in [Pids -> 0..GracePeriod]
      /\ graceLeft \in 0..GracePeriod
  OBVIOUS
<1>4. next \in 1..Len(latestDecisions) + 1 /\ step \in Nat \ {0}
  BY <1>1
<1>5. LoopIndex
  BY DEF LoopIndex, ExecutePcs
<1>6. QED
  BY <1>1, <1>2, <1>3, <1>4, <1>5 DEF TypeInv, TypeOK, ExecutePcs

LEMMA TypeInvStep == TypeInv /\ [Next]_vars => TypeInv'
<1> SUFFICES ASSUME TypeInv, [Next]_vars PROVE TypeInv'
  OBVIOUS
<1> USE DEF TypeInv, TypeOK, LoopIndex, ExecutePcs
<1>1. ASSUME NEW pid \in Pids, NEW kind \in Kinds, Spawn(pid, kind)
      PROVE  TypeInv'
  BY <1>1, DaemonAssumption DEF Spawn, Forget, checkVars, latestVars
<1>2. ASSUME NEW pid \in Pids, Exit(pid)
      PROVE  TypeInv'
  BY <1>2, DaemonAssumption DEF Exit, Forget, checkVars, latestVars
<1>3. CASE LoadChanges
  BY <1>3 DEF LoadChanges, checkVars, latestVars, historyVars
<1>4. CASE Cancel
  BY <1>4 DEF Cancel, checkVars, latestVars, historyVars
<1>5. CASE ClockTick
  BY <1>5, DaemonAssumption DEF ClockTick, Older, osVars, latestVars
<1>6. ASSUME NEW ticker \in {"periodic", "load"}, TickerFires(ticker)
      PROVE  TypeInv'
  BY <1>6 DEF TickerFires, checkVars, latestVars, historyVars
<1>7. CASE Select
  BY <1>7 DEF Select, Stop, PeriodicCheck, LoadCheck, LoadIgnored, Receive, StartCheck,
              osVars, checkVars, latestVars, historyVars
<1>8. CASE Collect
  BY <1>8 DEF Collect, osVars, latestVars
<1>9. CASE Publish
  <2>1. latestDecisions' \in Seq(Decision) /\ Len(latestDecisions') \in Nat
    <3>1. \A s \in snapshot.procs : s.pid \in Pids
      OBVIOUS
    <3>2. latestDecisions' \in Evaluations(Policies, snapshot)
      BY <1>9 DEF Publish
    <3>3. latestDecisions' \in Seq(Decision)
      BY <3>1, <3>2, EvaluationsTargetSnapshot
    <3>4. QED
      BY <3>3
  <2>2. snapshot'.procs = {}
    BY <1>9 DEF Publish, EmptySnapshot
  <2>3. next' = 1 /\ 1 \in 1..Len(latestDecisions') + 1
    BY <1>9, <2>1 DEF Publish
  <2>4. QED
    BY <1>9, <2>1, <2>2, <2>3 DEF Publish, osVars, historyVars
<1>10. CASE SkipDecision
  <2>1. next' \in 1..Len(latestDecisions') + 1 /\ latestDecisions' = latestDecisions
    BY <1>10 DEF SkipDecision, NextDecision, latestVars
  <2>2. pc' = "decide" /\ step' = 1 /\ failed' \in BOOLEAN
    BY <1>10 DEF SkipDecision, NextDecision
  <2>3. LoopIndex'
    BY <2>2
  <2>4. UNCHANGED <<table, load, ctxDone, dryRun, ticks, ticking, snapshot, todo, graceLeft,
                    latestSnapshot, sinceTrigger, sinceNotify, seen, listedAs, termed, termAge>>
    BY <1>10 DEF SkipDecision, osVars, latestVars, historyVars
  <2>5. QED
    BY <2>1, <2>2, <2>3, <2>4
<1>11. CASE BeginExecute
  BY <1>11 DEF BeginExecute, osVars, latestVars, historyVars
<1>12. CASE FinishCheck
  BY <1>12 DEF FinishCheck, osVars, latestVars, historyVars
<1>13. CASE PlainAction
  <2>1. /\ pc = "execute" /\ pc' = "execute"
        /\ step' = step + 1
        /\ failed' \in BOOLEAN
    BY <1>13 DEF PlainAction, AtAction, ActionReturns
  <2>2. QED
    BY <1>13, <2>1 DEF PlainAction, osVars, latestVars, historyVars
<1>14. CASE NotifyDelivered
  <2>1. Current.policy \in PolicyNames
    BY <1>14, CurrentTyped DEF NotifyDelivered, AtAction
  <2>2. sinceNotify' \in [PolicyNames -> 0..Cooldown]
    BY <1>14, <2>1, DaemonAssumption DEF NotifyDelivered
  <2>3. QED
    BY <1>14, <2>2 DEF NotifyDelivered, AtAction, ActionReturns, osVars, latestVars
<1>15. CASE NotifyFails
  BY <1>15 DEF NotifyFails, AtAction, ActionReturns, osVars, latestVars, historyVars
<1>16. CASE BeginTerminate
  <2>1. Current.pids \subseteq Pids
    BY <1>16, CurrentTyped DEF BeginTerminate, AtAction
  <2>2. QED
    BY <1>16, <2>1 DEF BeginTerminate, AtAction, ActionReturns, osVars, latestVars,
                       historyVars
<1>17. CASE Signalling
  <2>1. ASSUME NEW pid \in Pids, SigTerm(pid)
        PROVE  TypeInv'
    <3>1. termed' \subseteq Pids /\ termAge' \in [Pids -> 0..GracePeriod]
      <4>1. CASE Reachable(pid)
        <5>1. termed' = termed \cup {pid} /\ termAge' = [termAge EXCEPT ![pid] = 0]
          BY <2>1, <4>1 DEF SigTerm
        <5>2. QED
          BY <5>1, DaemonAssumption
      <4>2. CASE ~Reachable(pid)
        BY <2>1, <4>2 DEF SigTerm
      <4>3. QED
        BY <4>1, <4>2
    <3>2. QED
      BY <2>1, <3>1 DEF SigTerm, osVars, latestVars
  <2>2. CASE BeginGrace
    BY <2>2, DaemonAssumption DEF BeginGrace, osVars, latestVars, historyVars
  <2>3. CASE GraceCancelled
    BY <2>3, DaemonAssumption DEF GraceCancelled, ActionReturns, osVars, latestVars,
                                  historyVars
  <2>4. CASE GraceOver
    <3>1. Current.pids \subseteq Pids
      BY <2>4, CurrentTyped DEF GraceOver
    <3>2. QED
      BY <2>4, <3>1 DEF GraceOver, osVars, latestVars, historyVars
  <2>5. ASSUME NEW pid \in Pids, SigKill(pid)
        PROVE  TypeInv'
    <3>1. /\ table' \in [Pids -> Kinds \cup {Free}]
          /\ seen' \subseteq Pids
          /\ listedAs' \in [Pids -> Kinds \cup {Free}]
          /\ \A q \in Pids : q \in seen' <=> listedAs'[q] # Free
          /\ termed' \subseteq Pids
          /\ termAge' \in [Pids -> 0..GracePeriod]
      <4>1. CASE Reachable(pid)
        <5>1. table' = [table EXCEPT ![pid] = Free] /\ Forget(pid)
          BY <2>5, <4>1 DEF SigKill
        <5>2. QED
          BY <5>1, DaemonAssumption DEF Forget
      <4>2. CASE ~Reachable(pid)
        BY <2>5, <4>2 DEF SigKill
      <4>3. QED
        BY <4>1, <4>2
    <3>2. QED
      BY <2>5, <3>1 DEF SigKill, latestVars
  <2>6. CASE TerminateReturns
    BY <2>6 DEF TerminateReturns, ActionReturns, osVars, latestVars, historyVars
  <2>7. QED
    BY <1>17, <2>1, <2>2, <2>3, <2>4, <2>5, <2>6 DEF Signalling
<1>18. CASE ExecuteReturns
  <2>1. Current.policy \in PolicyNames
    BY <1>18, CurrentTyped DEF ExecuteReturns
  <2>2. sinceTrigger' \in [PolicyNames -> 0..Cooldown]
    <3>1. CASE failed
      BY <1>18, <3>1 DEF ExecuteReturns
    <3>2. CASE ~failed
      <4>1. sinceTrigger' = [sinceTrigger EXCEPT ![Current.policy] = 0]
        BY <1>18, <3>2 DEF ExecuteReturns
      <4>2. 0 \in 0..Cooldown
        BY DaemonAssumption
      <4>3. QED
        BY <2>1, <4>1, <4>2
    <3>3. QED
      BY <3>1, <3>2
  <2>3. next' \in 1..Len(latestDecisions') + 1 /\ latestDecisions' = latestDecisions
    BY <1>18 DEF ExecuteReturns, NextDecision, latestVars
  <2>4. pc' = "decide" /\ step' = 1 /\ failed' \in BOOLEAN
    BY <1>18 DEF ExecuteReturns, NextDecision
  <2>5. LoopIndex'
    BY <2>4
  <2>6. UNCHANGED <<table, load, ctxDone, dryRun, ticks, ticking, snapshot, todo, graceLeft,
                    latestSnapshot, sinceNotify, seen, listedAs, termed, termAge>>
    BY <1>18 DEF ExecuteReturns, osVars, latestVars, historyVars
  <2>7. QED
    BY <2>2, <2>3, <2>4, <2>5, <2>6
<1>19. ASSUME NEW pid \in Pids, NEW kind \in Kinds, Alter(pid, kind)
       PROVE  TypeInv'
  BY <1>19 DEF Alter, checkVars, latestVars, historyVars
<1>20. CASE UNCHANGED vars
  BY <1>20 DEF vars, osVars, checkVars, latestVars, historyVars
<1>21. QED
  BY <1>1, <1>2, <1>3, <1>4, <1>5, <1>6, <1>7, <1>8, <1>9, <1>10, <1>11, <1>12, <1>13,
     <1>14, <1>15, <1>16, <1>17, <1>18, <1>19, <1>20 DEF Next, Environment, Check

\* Every reachable state is well typed: the index of the decision loop stays in
\* the list it runs over, and no clock leaves its range.
THEOREM TypeCorrect == Spec => []TypeOK
<1>1. Init => TypeInv
  BY TypeInvInit
<1>2. TypeInv /\ [Next]_vars => TypeInv'
  BY TypeInvStep
<1>3. TypeInv => TypeOK
  BY DEF TypeInv
<1>4. QED
  BY <1>1, <1>2, <1>3, PTL DEF Spec

-----------------------------------------------------------------------------
(* Signals only reach survivors.                                           *)

\* A pid that is not in flight is not in the snapshot being evaluated nor a
\* target of any decision left.
LEMMA NotInFlight ==
    ASSUME TypeInv, NEW pid, pid \notin InFlight
    PROVE  /\ ~Looping => \A s \in snapshot.procs : s.pid # pid
           /\ Looping => \A i \in next..Len(latestDecisions) : pid \notin latestDecisions[i].pids
  BY DEF InFlight, Looping

\* Outside the evaluation the snapshot has been dropped.
SnapshotDropped == pc # "evaluate" => snapshot.procs = {}

LEMMA SnapshotDroppedInit == Init => SnapshotDropped
  BY DEF Init, SnapshotDropped, EmptySnapshot

LEMMA SnapshotDroppedStep == SnapshotDropped /\ [Next]_vars => SnapshotDropped'
<1> SUFFICES ASSUME SnapshotDropped, [Next]_vars PROVE SnapshotDropped'
  OBVIOUS
<1> USE DEF SnapshotDropped
<1>1. CASE Environment
  BY <1>1 DEF Environment, Spawn, Exit, Alter, LoadChanges, Cancel, ClockTick, TickerFires, checkVars
<1>2. CASE Select
  BY <1>2 DEF Select, Stop, PeriodicCheck, LoadCheck, LoadIgnored, Receive, StartCheck, checkVars
<1>3. CASE Collect
  BY <1>3 DEF Collect
<1>4. CASE Publish
  BY <1>4 DEF Publish, EmptySnapshot
<1>5. CASE SkipDecision \/ BeginExecute \/ FinishCheck \/ PlainAction \/ NotifyDelivered
           \/ NotifyFails \/ BeginTerminate \/ ExecuteReturns
  BY <1>5 DEF SkipDecision, BeginExecute, FinishCheck, PlainAction, NotifyDelivered,
              NotifyFails, BeginTerminate, ExecuteReturns, AtAction, ActionReturns,
              NextDecision
<1>6. CASE Signalling
  BY <1>6 DEF Signalling, SigTerm, BeginGrace, GraceCancelled, GraceOver, SigKill,
              TerminateReturns, ActionReturns
<1>7. CASE UNCHANGED vars
  BY <1>7 DEF vars, checkVars
<1>8. QED
  BY <1>1, <1>2, <1>3, <1>4, <1>5, <1>6, <1>7 DEF Next, Check

LEMMA SurvivorInvInit == Init => SurvivorInv
  BY DEF Init, SurvivorInv, ListedAreSeen, TargetsAreSeen, TodoAreTargets, PassedAreTermed,
         GraceIsServed, Looping, ExecutePcs, EmptySnapshot

\* The pids of every decision are pids.
LEMMA DecisionTyped ==
    ASSUME TypeOK, NEW i \in 1..Len(latestDecisions)
    PROVE  latestDecisions[i].pids \subseteq Pids /\ latestDecisions[i].policy \in PolicyNames
<1>1. latestDecisions[i] \in Decision
  BY DEF TypeOK
<1>2. QED
  BY <1>1 DEF Decision

\* A spawn or an exit changes what is known of its own pid only.
LEMMA ForgetOthers ==
    ASSUME TypeOK, NEW pid \in Pids, NEW kind,
           Forget(pid), table' = [table EXCEPT ![pid] = kind],
           NEW q \in Pids, q # pid
    PROVE  /\ table'[q] = table[q]
           /\ q \in seen => q \in seen'
           /\ q \in termed => q \in termed'
           /\ termAge'[q] = termAge[q]
  BY DEF Forget, TypeOK

\* A process that goes takes nothing the invariant needs with it.
LEMMA SurvivorInvRemoval ==
    ASSUME TypeInv, SurvivorInv, NEW pid \in Pids,
           Forget(pid), table' = [table EXCEPT ![pid] = Free],
           UNCHANGED <<pc, snapshot, latestDecisions, next, graceLeft>>,
           \/ todo' = todo
           \/ todo' = todo \ {pid}
    PROVE  SurvivorInv'
<1>1. \A q \in Pids \ {pid} : /\ table'[q] = table[q]
                              /\ q \in seen => q \in seen'
                              /\ q \in termed => q \in termed'
                              /\ termAge'[q] = termAge[q]
  BY ForgetOthers DEF TypeInv
<1>2. table'[pid] = Free
  BY DEF TypeInv, TypeOK
<1>3. ListedAreSeen'
  <2> SUFFICES ASSUME NEW s \in snapshot.procs, table'[s.pid] # Free
               PROVE  s.pid \in seen'
    BY DEF ListedAreSeen
  <2>1. s.pid \in Pids /\ s.pid # pid
    BY <1>2 DEF TypeInv, TypeOK
  <2>2. s.pid \in seen
    BY <1>1, <2>1 DEF SurvivorInv, ListedAreSeen
  <2>3. QED
    BY <1>1, <2>1, <2>2
<1>4. TargetsAreSeen'
  <2> SUFFICES ASSUME Looping, NEW i \in next..Len(latestDecisions),
                      NEW q \in latestDecisions[i].pids, table'[q] # Free
               PROVE  q \in seen'
    BY DEF TargetsAreSeen, Looping
  <2>1. i \in 1..Len(latestDecisions)
    BY DEF TypeInv, TypeOK
  <2>2. q \in Pids /\ q # pid
    BY <2>1, <1>2, DecisionTyped DEF TypeInv
  <2>3. q \in seen
    BY <1>1, <2>2 DEF SurvivorInv, TargetsAreSeen
  <2>4. QED
    BY <1>1, <2>2, <2>3
<1>5. pc \in ExecutePcs => Current' = Current /\ Current.pids \subseteq Pids
  BY CurrentTyped DEF Current, TypeInv, LoopIndex
<1>6. TodoAreTargets'
  BY <1>5 DEF SurvivorInv, TodoAreTargets, ExecutePcs
<1>7. PassedAreTermed'
  <2> SUFFICES ASSUME pc = "sigterm", NEW q \in Current.pids \ todo', Reachable(q)'
               PROVE  q \in termed'
    BY <1>5 DEF PassedAreTermed, ExecutePcs
  <2>1. q \in Pids /\ q # pid
    BY <1>2, <1>5 DEF Reachable, ExecutePcs
  <2>2. q \in Current.pids \ todo /\ Reachable(q)
    BY <1>1, <2>1 DEF Reachable
  <2>3. q \in termed
    BY <2>2 DEF SurvivorInv, PassedAreTermed
  <2>4. QED
    BY <1>1, <2>1, <2>3
<1>8. GraceIsServed'
  <2> SUFFICES ASSUME pc \in {"grace", "sigkill"}, NEW q \in Current.pids, Reachable(q)'
               PROVE  /\ q \in termed'
                      /\ pc = "grace" => termAge'[q] + graceLeft >= GracePeriod
                      /\ pc = "sigkill" => termAge'[q] >= GracePeriod
    BY <1>5 DEF GraceIsServed, ExecutePcs
  <2>1. q \in Pids /\ q # pid
    BY <1>2, <1>5 DEF Reachable, ExecutePcs
  <2>2. Reachable(q)
    BY <1>1, <2>1 DEF Reachable
  <2>3. /\ q \in termed
        /\ pc = "grace" => termAge[q] + graceLeft >= GracePeriod
        /\ pc = "sigkill" => termAge[q] >= GracePeriod
    BY <2>2 DEF SurvivorInv, GraceIsServed
  <2>4. QED
    BY <1>1, <2>1, <2>3
<1>9. QED
  BY <1>3, <1>4, <1>6, <1>7, <1>8 DEF SurvivorInv

\* A process started at a pid that is not in flight is no concern of the check.
LEMMA SurvivorInvSpawn ==
    ASSUME TypeInv, SnapshotDropped, SurvivorInv, NEW pid \in Pids, NEW kind \in Kinds,
           Spawn(pid, kind), ~ReuseTargets
    PROVE  SurvivorInv'
<1> USE DEF ExecutePcs
<1>1. /\ Forget(pid)
      /\ table' = [table EXCEPT ![pid] = kind]
      /\ pid \notin InFlight
      /\ UNCHANGED <<pc, snapshot, latestDecisions, next, todo, graceLeft>>
  BY DEF Spawn, checkVars, latestVars
<1>2. \A q \in Pids \ {pid} : /\ table'[q] = table[q]
                              /\ q \in seen => q \in seen'
                              /\ q \in termed => q \in termed'
                              /\ termAge'[q] = termAge[q]
  BY <1>1, ForgetOthers DEF TypeInv
<1>3. \A s \in snapshot.procs : s.pid # pid
  BY <1>1, NotInFlight DEF SnapshotDropped, Looping
<1>4. Looping => \A i \in next..Len(latestDecisions) : pid \notin latestDecisions[i].pids
  BY <1>1, NotInFlight
<1>5. ListedAreSeen'
  <2> SUFFICES ASSUME NEW s \in snapshot.procs, table'[s.pid] # Free
               PROVE  s.pid \in seen'
    BY <1>1 DEF ListedAreSeen
  <2>1. s.pid \in Pids /\ s.pid # pid
    BY <1>3 DEF TypeInv, TypeOK
  <2>2. s.pid \in seen
    BY <1>2, <2>1 DEF SurvivorInv, ListedAreSeen
  <2>3. QED
    BY <1>2, <2>1, <2>2
<1>6. TargetsAreSeen'
  <2> SUFFICES ASSUME Looping, NEW i \in next..Len(latestDecisions),
                      NEW q \in latestDecisions[i].pids, table'[q] # Free
               PROVE  q \in seen'
    BY <1>1 DEF TargetsAreSeen, Looping
  <2>1. i \in 1..Len(latestDecisions)
    BY DEF TypeInv, TypeOK
  <2>2. q \in Pids /\ q # pid
    BY <2>1, <1>4, DecisionTyped DEF TypeInv
  <2>3. q \in seen
    BY <1>2, <2>2 DEF SurvivorInv, TargetsAreSeen
  <2>4. QED
    BY <1>2, <2>2, <2>3
<1>7. pc \in ExecutePcs => /\ Current' = Current
                           /\ Current.pids \subseteq Pids
                           /\ pid \notin Current.pids
  <2> SUFFICES ASSUME pc \in ExecutePcs
               PROVE  /\ Current' = Current
                      /\ Current.pids \subseteq Pids
                      /\ pid \notin Current.pids
    OBVIOUS
  <2>1. next \in 1..Len(latestDecisions) /\ Current.pids \subseteq Pids
    BY CurrentTyped DEF TypeInv, LoopIndex
  <2>2. next \in next..Len(latestDecisions)
    BY <2>1 DEF TypeInv, TypeOK
  <2>3. pid \notin Current.pids
    BY <2>2, <1>4 DEF Looping, Current
  <2>4. QED
    BY <1>1, <2>1, <2>3 DEF Current
<1>8. TodoAreTargets'
  BY <1>1, <1>7 DEF SurvivorInv, TodoAreTargets
<1>9. PassedAreTermed'
  <2> SUFFICES ASSUME pc = "sigterm", NEW q \in Current.pids \ todo, Reachable(q)'
               PROVE  q \in termed'
    BY <1>1, <1>7 DEF PassedAreTermed
  <2>1. q \in Pids /\ q # pid
    BY <1>7
  <2>2. Reachable(q)
    BY <1>2, <2>1 DEF Reachable
  <2>3. q \in termed
    BY <2>2 DEF SurvivorInv, PassedAreTermed
  <2>4. QED
    BY <1>2, <2>1, <2>3
<1>10. GraceIsServed'
  <2> SUFFICES ASSUME pc \in {"grace", "sigkill"}, NEW q \in Current.pids, Reachable(q)'
               PROVE  /\ q \in termed'
                      /\ pc = "grace" => termAge'[q] + graceLeft >= GracePeriod
                      /\ pc = "sigkill" => termAge'[q] >= GracePeriod
    BY <1>1, <1>7 DEF GraceIsServed
  <2>1. q \in Pids /\ q # pid
    BY <1>7
  <2>2. Reachable(q)
    BY <1>2, <2>1 DEF Reachable
  <2>3. /\ q \in termed
        /\ pc = "grace" => termAge[q] + graceLeft >= GracePeriod
        /\ pc = "sigkill" => termAge[q] >= GracePeriod
    BY <2>2 DEF SurvivorInv, GraceIsServed
  <2>4. QED
    BY <1>2, <2>1, <2>3
<1>11. QED
  BY <1>5, <1>6, <1>8, <1>9, <1>10 DEF SurvivorInv

\* What a process turns into changes neither whether it is there nor who may
\* signal it.
LEMMA AlterKeepsReach ==
    ASSUME TypeOK, NEW pid \in Pids, NEW kind \in Kinds, Alter(pid, kind)
    PROVE  /\ UNCHANGED <<checkVars, latestVars, historyVars>>
           /\ \A q \in Pids : table'[q] = Free <=> table[q] = Free
           /\ \A q \in Pids : Reachable(q)' <=> Reachable(q)
<1>1. kind # Free /\ table[pid] # Free
  BY DaemonAssumption DEF Alter
<1>2. ASSUME NEW q \in Pids
      PROVE  /\ table'[q] = Free <=> table[q] = Free
             /\ Reachable(q)' <=> Reachable(q)
  BY <1>1 DEF Alter, Reachable, TypeOK
<1>3. QED
  BY <1>2 DEF Alter

LEMMA SurvivorInvAlter ==
    ASSUME TypeInv, SurvivorInv, NEW pid \in Pids, NEW kind \in Kinds, Alter(pid, kind)
    PROVE  SurvivorInv'
<1> USE DEF ExecutePcs
<1>0. /\ UNCHANGED <<checkVars, latestVars, historyVars>>
      /\ \A q \in Pids : table'[q] = Free <=> table[q] = Free
      /\ \A q \in Pids : Reachable(q)' <=> Reachable(q)
  BY AlterKeepsReach DEF TypeInv
<1>1. /\ UNCHANGED <<pc, snapshot, latestDecisions, next, todo, graceLeft, seen, termed, termAge>>
      /\ \A q \in Pids : table'[q] # Free => table[q] # Free
      /\ \A q \in Pids : Reachable(q)' => Reachable(q)
  BY <1>0 DEF checkVars, latestVars, historyVars
<1>2. pc \in {"sigterm", "grace", "sigkill"} => Current' = Current /\ Current.pids \subseteq Pids
  BY <1>1, CurrentTyped DEF TypeInv, LoopIndex, Current
<1>3. ListedAreSeen'
  BY <1>1 DEF SurvivorInv, ListedAreSeen, TypeInv, TypeOK
<1>4. TargetsAreSeen'
  <2> SUFFICES ASSUME Looping, NEW i \in next..Len(latestDecisions),
                      NEW q \in latestDecisions[i].pids, table'[q] # Free
               PROVE  q \in seen
    BY <1>1 DEF TargetsAreSeen, Looping
  <2>1. i \in 1..Len(latestDecisions)
    BY DEF TypeInv, TypeOK
  <2>2. q \in Pids
    BY <2>1, DecisionTyped DEF TypeInv
  <2>3. QED
    BY <1>1, <2>2 DEF SurvivorInv, TargetsAreSeen
<1>5. TodoAreTargets' /\ PassedAreTermed'
  BY <1>1, <1>2 DEF SurvivorInv, TodoAreTargets, PassedAreTermed
<1>6. GraceIsServed'
  BY <1>1, <1>2 DEF SurvivorInv, GraceIsServed
<1>7. QED
  BY <1>3, <1>4, <1>5, <1>6 DEF SurvivorInv

\* A step outside the signal loops that starts no loop over older decisions.
LEMMA SurvivorInvOutside ==
    ASSUME TypeInv, SurvivorInv,
           UNCHANGED <<table, snapshot, seen>>,
           pc' \notin {"sigterm", "grace", "sigkill"},
           Looping' => /\ Looping
                       /\ latestDecisions' = latestDecisions
                       /\ next' \in Nat /\ next' >= next
    PROVE  SurvivorInv'
<1>1. ListedAreSeen'
  BY DEF SurvivorInv, ListedAreSeen
<1>2. TargetsAreSeen'
  <2> SUFFICES ASSUME Looping', NEW i \in next'..Len(latestDecisions),
                      NEW q \in latestDecisions[i].pids, table[q] # Free
               PROVE  q \in seen
    BY DEF TargetsAreSeen
  <2>1. i \in next..Len(latestDecisions)
    BY DEF TypeInv, TypeOK
  <2>2. QED
    BY <2>1 DEF SurvivorInv, TargetsAreSeen
<1>3. TodoAreTargets' /\ PassedAreTermed' /\ GraceIsServed'
  BY DEF TodoAreTargets, PassedAreTermed, GraceIsServed
<1>4. QED
  BY <1>1, <1>2, <1>3 DEF SurvivorInv

\* A step inside the loop over one decision leaves its targets as they are.
LEMMA SurvivorInvInside ==
    ASSUME SurvivorInv, Looping,
           UNCHANGED <<table, snapshot, seen, latestDecisions, next>>
    PROVE  /\ ListedAreSeen'
           /\ TargetsAreSeen'
           /\ Current' = Current
           /\ \A q : Reachable(q)' <=> Reachable(q)
<1>1. ListedAreSeen' /\ TargetsAreSeen'
  BY DEF SurvivorInv, ListedAreSeen, TargetsAreSeen
<1>2. Current' = Current
  BY DEF Current
<1>3. \A q : Reachable(q)' <=> Reachable(q)
  BY DEF Reachable
<1>4. QED
  BY <1>1, <1>2, <1>3

\* While time passes the warnings age as fast as the grace period runs out.
LEMMA SurvivorInvClock ==
    ASSUME TypeInv, SurvivorInv, ClockTick
    PROVE  SurvivorInv'
<1> USE DEF ExecutePcs
<1>1. /\ UNCHANGED <<table, snapshot, seen, latestDecisions, next, pc, todo, termed>>
      /\ graceLeft' = IF graceLeft > 0 THEN graceLeft - 1 ELSE 0
      /\ termAge' = [pid \in Pids |-> IF pid \in termed THEN Older(termAge[pid], GracePeriod)
                                                        ELSE termAge[pid]]
  BY DEF ClockTick, osVars, latestVars
<1>2. pc \in {"sigterm", "grace", "sigkill"} => Current' = Current /\ Current.pids \subseteq Pids
  BY <1>1, CurrentTyped DEF TypeInv, LoopIndex, Current
<1>3. \A q : Reachable(q)' <=> Reachable(q)
  BY <1>1 DEF Reachable
<1>4. ListedAreSeen' /\ TargetsAreSeen'
  BY <1>1 DEF SurvivorInv, ListedAreSeen, TargetsAreSeen, Looping
<1>5. TodoAreTargets' /\ PassedAreTermed'
  BY <1>1, <1>2, <1>3 DEF SurvivorInv, TodoAreTargets, PassedAreTermed
<1>6. GraceIsServed'
  <2> SUFFICES ASSUME pc \in {"grace", "sigkill"}, NEW q \in Current.pids, Reachable(q)
               PROVE  /\ q \in termed
                      /\ pc = "grace" => termAge'[q] + graceLeft' >= GracePeriod
                      /\ pc = "sigkill" => termAge'[q] >= GracePeriod
    BY <1>1, <1>2, <1>3 DEF GraceIsServed
  <2>1. q \in Pids
    BY <1>2
  <2>2. /\ q \in termed
        /\ pc = "grace" => termAge[q] + graceLeft >= GracePeriod
        /\ pc = "sigkill" => termAge[q] >= GracePeriod
    BY DEF SurvivorInv, GraceIsServed
  <2>3. termAge'[q] = IF termAge[q] < GracePeriod THEN termAge[q] + 1 ELSE termAge[q]
    BY <1>1, <2>1, <2>2 DEF Older
  <2>4. termAge[q] \in 0..GracePeriod /\ graceLeft \in 0..GracePeriod /\ GracePeriod \in Nat
    BY <2>1, DaemonAssumption DEF TypeInv, TypeOK
  <2>5. QED
    BY <1>1, <2>2, <2>3, <2>4
<1>7. QED
  BY <1>4, <1>5, <1>6 DEF SurvivorInv

\* A check lists the processes it will act on, and its decisions name no other.
LEMMA SurvivorInvListing ==
    ASSUME TypeInv, SurvivorInv, Collect \/ Publish
    PROVE  SurvivorInv'
<1> USE DEF ExecutePcs
<1>1. CASE Collect
  <2>1. /\ pc' = "evaluate"
        /\ \A s \in snapshot'.procs : s.pid \in seen'
    BY <1>1 DEF Collect
  <2>2. QED
    BY <2>1 DEF SurvivorInv, ListedAreSeen, TargetsAreSeen, TodoAreTargets,
                PassedAreTermed, GraceIsServed, Looping
<1>2. CASE Publish
  <2>1. /\ pc' = "decide"
        /\ snapshot' = EmptySnapshot
        /\ UNCHANGED <<table, seen, next>>
        /\ latestDecisions' \in Evaluations(Policies, snapshot)
    BY <1>2 DEF Publish, osVars, historyVars
  <2>2. \A s \in snapshot.procs : s.pid \in Pids
    BY DEF TypeInv, TypeOK
  <2>3. \A i \in 1..Len(latestDecisions') :
           latestDecisions'[i].pids \subseteq {s.pid : s \in snapshot.procs}
    BY <2>1, <2>2, EvaluationsTargetSnapshot
  <2>4. TargetsAreSeen'
    <3> SUFFICES ASSUME NEW i \in next..Len(latestDecisions'),
                        NEW q \in latestDecisions'[i].pids, table[q] # Free
                 PROVE  q \in seen
      BY <2>1 DEF TargetsAreSeen
    <3>1. next \in Nat \ {0}
      BY DEF TypeInv, TypeOK
    <3>2. i \in 1..Len(latestDecisions')
      BY <3>1
    <3>3. q \in {s.pid : s \in snapshot.procs}
      BY <2>3, <3>2
    <3>4. PICK s \in snapshot.procs : s.pid = q
      BY <3>3
    <3>5. QED
      BY <3>4 DEF SurvivorInv, ListedAreSeen
  <2>5. ListedAreSeen'
    BY <2>1 DEF ListedAreSeen, EmptySnapshot
  <2>6. QED
    BY <2>1, <2>4, <2>5 DEF SurvivorInv, TodoAreTargets, PassedAreTermed, GraceIsServed
<1>3. QED
  BY <1>1, <1>2

\* The signal loops: SIGTERM warns, the grace period starts after the last
\* warning, and SIGKILL comes when it is over.
LEMMA SurvivorInvSignalling ==
    ASSUME TypeInv, SurvivorInv, Signalling
    PROVE  SurvivorInv'
<1> USE DEF ExecutePcs
<1>1. ASSUME NEW pid \in Pids, SigTerm(pid)
      PROVE  SurvivorInv'
  <2>1. /\ UNCHANGED <<table, snapshot, seen, latestDecisions, next, pc>>
        /\ pc = "sigterm"
        /\ todo' = todo \ {pid}
        /\ Looping
    BY <1>1 DEF SigTerm, osVars, latestVars, Looping
  <2>2. /\ ListedAreSeen'
        /\ TargetsAreSeen'
        /\ Current' = Current
        /\ \A q : Reachable(q)' <=> Reachable(q)
    BY <2>1, SurvivorInvInside
  <2>3. termed \subseteq termed' /\ (Reachable(pid) => pid \in termed')
    BY <1>1 DEF SigTerm
  <2>4. PassedAreTermed'
    BY <2>1, <2>2, <2>3 DEF SurvivorInv, PassedAreTermed
  <2>5. QED
    BY <2>1, <2>2, <2>4 DEF SurvivorInv, TodoAreTargets, GraceIsServed
<1>2. CASE BeginGrace
  <2>1. /\ UNCHANGED <<table, snapshot, seen, latestDecisions, next, termed, termAge>>
        /\ pc = "sigterm" /\ pc' = "grace"
        /\ todo = {}
        /\ graceLeft' = GracePeriod
        /\ Looping
    BY <1>2 DEF BeginGrace, osVars, latestVars, historyVars, Looping
  <2>2. /\ ListedAreSeen'
        /\ TargetsAreSeen'
        /\ Current' = Current
        /\ \A q : Reachable(q)' <=> Reachable(q)
    BY <2>1, SurvivorInvInside
  <2>3. Current.pids \subseteq Pids
    BY <2>1, CurrentTyped DEF TypeInv, LoopIndex
  <2>4. GraceIsServed'
    <3> SUFFICES ASSUME NEW q \in Current.pids, Reachable(q)
                 PROVE  q \in termed /\ termAge[q] + GracePeriod >= GracePeriod
      BY <2>1, <2>2 DEF GraceIsServed
    <3>1. q \in termed
      BY <2>1 DEF SurvivorInv, PassedAreTermed
    <3>2. termAge[q] \in 0..GracePeriod /\ GracePeriod \in Nat
      BY <2>3, DaemonAssumption DEF TypeInv, TypeOK
    <3>3. QED
      BY <3>1, <3>2
  <2>5. QED
    BY <2>1, <2>2, <2>4 DEF SurvivorInv, TodoAreTargets, PassedAreTermed
<1>3. CASE GraceCancelled \/ TerminateReturns
  <2>1. /\ UNCHANGED <<table, snapshot, seen, latestDecisions, next>>
        /\ pc' = "execute"
        /\ Looping
    BY <1>3 DEF GraceCancelled, TerminateReturns, ActionReturns, osVars, latestVars,
                historyVars, Looping
  <2>2. next' \in Nat /\ next' >= next
    BY <2>1 DEF TypeInv, TypeOK
  <2>3. QED
    BY <2>1, <2>2, SurvivorInvOutside
<1>4. CASE GraceOver
  <2>1. /\ UNCHANGED <<table, snapshot, seen, latestDecisions, next, termed, termAge>>
        /\ pc = "grace" /\ pc' = "sigkill"
        /\ todo' = Current.pids
        /\ graceLeft = 0
        /\ Looping
    BY <1>4 DEF GraceOver, osVars, latestVars, historyVars, Looping
  <2>2. /\ ListedAreSeen'
        /\ TargetsAreSeen'
        /\ Current' = Current
        /\ \A q : Reachable(q)' <=> Reachable(q)
    BY <2>1, SurvivorInvInside
  <2>3. Current.pids \subseteq Pids
    BY <2>1, CurrentTyped DEF TypeInv, LoopIndex
  <2>4. GraceIsServed'
    <3> SUFFICES ASSUME NEW q \in Current.pids, Reachable(q)
                 PROVE  q \in termed /\ termAge[q] >= GracePeriod
      BY <2>1, <2>2 DEF GraceIsServed
    <3>1. q \in termed /\ termAge[q] + graceLeft >= GracePeriod
      BY <2>1 DEF SurvivorInv, GraceIsServed
    <3>2. termAge[q] \in 0..GracePeriod
      BY <2>3 DEF TypeInv, TypeOK
    <3>3. QED
      BY <2>1, <3>1, <3>2
  <2>5. QED
    BY <2>1, <2>2, <2>4 DEF SurvivorInv, TodoAreTargets, PassedAreTermed
<1>5. ASSUME NEW pid \in Pids, SigKill(pid)
      PROVE  SurvivorInv'
  <2>1. CASE Reachable(pid)
    <3>1. /\ Forget(pid)
          /\ table' = [table EXCEPT ![pid] = Free]
          /\ UNCHANGED <<pc, snapshot, latestDecisions, next, graceLeft>>
          /\ todo' = todo \ {pid}
      BY <1>5, <2>1 DEF SigKill, latestVars
    <3>2. QED
      BY <3>1, SurvivorInvRemoval
  <2>2. CASE ~Reachable(pid)
    <3>1. /\ UNCHANGED <<table, snapshot, seen, latestDecisions, next, pc, termed, termAge>>
          /\ pc = "sigkill"
          /\ todo' = todo \ {pid}
          /\ Looping
      BY <1>5, <2>2 DEF SigKill, latestVars, Looping
    <3>2. /\ ListedAreSeen'
          /\ TargetsAreSeen'
          /\ Current' = Current
          /\ \A q : Reachable(q)' <=> Reachable(q)
      BY <3>1, SurvivorInvInside
    <3>3. QED
      BY <3>1, <3>2 DEF SurvivorInv, TodoAreTargets, PassedAreTermed, GraceIsServed
  <2>3. QED
    BY <2>1, <2>2
<1>6. QED
  BY <1>1, <1>2, <1>3, <1>4, <1>5 DEF Signalling

\* Every step that leaves the signal loops alone, or only leaves them.
LEMMA SurvivorInvControl ==
    ASSUME TypeInv, SurvivorInv,
           \/ Select
           \/ SkipDecision \/ BeginExecute \/ FinishCheck
           \/ PlainAction \/ NotifyDelivered \/ NotifyFails
           \/ ExecuteReturns
    PROVE  SurvivorInv'
<1> USE DEF ExecutePcs
<1>1. UNCHANGED <<table, snapshot, seen, latestDecisions>>
  BY DEF Select, Stop, PeriodicCheck, LoadCheck, LoadIgnored, Receive, StartCheck,
         SkipDecision, BeginExecute, FinishCheck, PlainAction, NotifyDelivered, NotifyFails,
         ExecuteReturns, osVars, checkVars, latestVars, historyVars
<1>2. next \in Nat
  BY DEF TypeInv, TypeOK
<1>3. /\ pc' \notin {"sigterm", "grace", "sigkill"}
      /\ Looping' => Looping /\ next' \in Nat /\ next' >= next
  <2>1. CASE Select
    BY <2>1 DEF Select, Stop, PeriodicCheck, LoadCheck, LoadIgnored, Receive, StartCheck,
                checkVars, Looping
  <2>2. CASE SkipDecision \/ ExecuteReturns
    BY <2>2, <1>2 DEF SkipDecision, ExecuteReturns, NextDecision, Looping
  <2>3. CASE FinishCheck
    BY <2>3 DEF FinishCheck, Looping
  <2>4. CASE BeginExecute
    BY <2>4, <1>2 DEF BeginExecute, Looping
  <2>5. CASE PlainAction
    BY <2>5, <1>2 DEF PlainAction, AtAction, ActionReturns, Looping
  <2>6. CASE NotifyDelivered \/ NotifyFails
    BY <2>6, <1>2 DEF NotifyDelivered, NotifyFails, AtAction, ActionReturns, Looping
  <2>7. QED
    BY <2>1, <2>2, <2>3, <2>4, <2>5, <2>6
<1>4. QED
  BY <1>1, <1>3, SurvivorInvOutside

LEMMA SurvivorInvStep ==
    TypeInv /\ SnapshotDropped /\ SurvivorInv /\ ~ReuseTargets /\ [Next]_vars => SurvivorInv'
<1> SUFFICES ASSUME TypeInv, SnapshotDropped, SurvivorInv, ~ReuseTargets, [Next]_vars
             PROVE  SurvivorInv'
  OBVIOUS
<1>1. CASE Environment
  <2>1. ASSUME NEW pid \in Pids, NEW kind \in Kinds, Spawn(pid, kind)
        PROVE  SurvivorInv'
    BY <2>1, SurvivorInvSpawn
  <2>2. ASSUME NEW pid \in Pids, Exit(pid)
        PROVE  SurvivorInv'
    <3>1. /\ Forget(pid)
          /\ table' = [table EXCEPT ![pid] = Free]
          /\ UNCHANGED <<pc, snapshot, latestDecisions, next, graceLeft, todo>>
      BY <2>2 DEF Exit, checkVars, latestVars
    <3>2. QED
      BY <3>1, SurvivorInvRemoval
  <2>3. CASE ClockTick
    BY <2>3, SurvivorInvClock
  <2>4. CASE LoadChanges \/ Cancel \/ \E ticker \in {"periodic", "load"} : TickerFires(ticker)
    <3>1. UNCHANGED <<table, checkVars, latestVars, historyVars>>
      BY <2>4 DEF LoadChanges, Cancel, TickerFires
    <3>2. QED
      BY <3>1 DEF SurvivorInv, ListedAreSeen, TargetsAreSeen, TodoAreTargets, PassedAreTermed,
                  GraceIsServed, Looping, Current, Reachable, checkVars, latestVars, historyVars
  <2>5. QED
    BY <1>1, <2>1, <2>2, <2>3, <2>4, SurvivorInvAlter DEF Environment
<1>2. CASE Select \/ SkipDecision \/ BeginExecute \/ FinishCheck \/ PlainAction
           \/ NotifyDelivered \/ NotifyFails \/ ExecuteReturns
  BY <1>2, SurvivorInvControl
<1>3. CASE Collect \/ Publish
  BY <1>3, SurvivorInvListing
<1>4. CASE BeginTerminate
  <2>1. /\ UNCHANGED <<table, snapshot, seen, latestDecisions, next>>
        /\ pc = "execute"
        /\ \/ pc' = "execute"
           \/ pc' = "sigterm" /\ todo' = Current.pids
    BY <1>4 DEF BeginTerminate, AtAction, ActionReturns, osVars, latestVars, historyVars
  <2>2. /\ ListedAreSeen'
        /\ TargetsAreSeen'
        /\ Current' = Current
    BY <2>1, SurvivorInvInside DEF Looping, ExecutePcs
  <2>3. QED
    BY <2>1, <2>2 DEF SurvivorInv, TodoAreTargets, PassedAreTermed, GraceIsServed
<1>5. CASE Signalling
  BY <1>5, SurvivorInvSignalling
<1>6. CASE UNCHANGED vars
  BY <1>6 DEF SurvivorInv, ListedAreSeen, TargetsAreSeen, TodoAreTargets, PassedAreTermed,
              GraceIsServed, Looping, Current, Reachable, vars, osVars, checkVars, latestVars,
              historyVars
<1>7. QED
  BY <1>1, <1>2, <1>3, <1>4, <1>5, <1>6 DEF Next, Check

\* Where the invariant holds, the SIGKILL loop is about to hit survivors only.
LEMMA SurvivorInvSpeaks == TypeInv /\ SurvivorInv => KillOnlySurvivors
<1> SUFFICES ASSUME TypeInv, SurvivorInv, pc = "sigkill", NEW pid \in todo, Reachable(pid)
             PROVE  pid \in seen /\ pid \in termed /\ termAge[pid] = GracePeriod
  BY DEF KillOnlySurvivors
<1>1. /\ next \in 1..Len(latestDecisions)
      /\ Current.pids \subseteq Pids
      /\ pid \in Current.pids
  BY CurrentTyped DEF TypeInv, LoopIndex, ExecutePcs, SurvivorInv, TodoAreTargets
<1>2. pid \in termed /\ termAge[pid] >= GracePeriod
  BY <1>1 DEF SurvivorInv, GraceIsServed
<1>3. termAge[pid] = GracePeriod
  BY <1>1, <1>2, DaemonAssumption DEF TypeInv, TypeOK
<1>4. next \in next..Len(latestDecisions) /\ pid \in latestDecisions[next].pids
  BY <1>1 DEF Current, TypeInv, TypeOK
<1>5. pid \in seen
  BY <1>4 DEF SurvivorInv, TargetsAreSeen, Looping, ExecutePcs, Reachable
<1>6. QED
  BY <1>2, <1>3, <1>5

\* As long as no pid under a running check is given to a new process, SIGKILL
\* reaches only processes that the snapshot listed, that SIGTERM has warned and
\* that have had the whole grace period. (executor.go:138-189)
THEOREM OnlySurvivorsAreKilled == ~ReuseTargets => (Spec => []KillOnlySurvivors)
<1> SUFFICES ASSUME ~ReuseTargets PROVE Spec => []KillOnlySurvivors
  OBVIOUS
<1> DEFINE Inv == TypeInv /\ SnapshotDropped /\ SurvivorInv
<1>1. Init => Inv
  BY TypeInvInit, SnapshotDroppedInit, SurvivorInvInit
<1>2. Inv /\ [Next]_vars => Inv'
  BY TypeInvStep, SnapshotDroppedStep, SurvivorInvStep
<1>3. Inv => KillOnlySurvivors
  BY SurvivorInvSpeaks
<1>4. QED
  BY <1>1, <1>2, <1>3, PTL DEF Spec
-----------------------------------------------------------------------------
(* A check comes to its end.                                               *)

LEMMA BelowAt ==
    ASSUME NEW a1, NEW a2, NEW a3, NEW a4, NEW b1, NEW b2, NEW b3, NEW b4,
           \/ a1 < b1
           \/ a1 = b1 /\ a2 < b2
           \/ a1 = b1 /\ a2 = b2 /\ a3 < b3
           \/ a1 = b1 /\ a2 = b2 /\ a3 = b3 /\ a4 < b4
    PROVE  Below(<<a1, a2, a3, a4>>, <<b1, b2, b3, b4>>)
<1> DEFINE a == <<a1, a2, a3, a4>>
           b == <<b1, b2, b3, b4>>
<1>1. /\ a[1] = a1 /\ a[2] = a2 /\ a[3] = a3 /\ a[4] = a4
      /\ b[1] = b1 /\ b[2] = b2 /\ b[3] = b3 /\ b[4] = b4
  OBVIOUS
<1> HIDE DEF a, b
<1>2. \E i \in 1..4 : a[i] < b[i] /\ \A j \in 1..i-1 : a[j] = b[j]
  <2>1. CASE a1 < b1
    BY <1>1, <2>1
  <2>2. CASE a1 = b1 /\ a2 < b2
    <3>1. \A j \in 1..2-1 : j = 1
      OBVIOUS
    <3>2. a[2] < b[2] /\ \A j \in 1..2-1 : a[j] = b[j]
      BY <1>1, <2>2, <3>1
    <3>3. QED
      BY <3>2
  <2>3. CASE a1 = b1 /\ a2 = b2 /\ a3 < b3
    <3>1. \A j \in 1..3-1 : j = 1 \/ j = 2
      OBVIOUS
    <3>2. a[3] < b[3] /\ \A j \in 1..3-1 : a[j] = b[j]
      BY <1>1, <2>3, <3>1
    <3>3. QED
      BY <3>2
  <2>4. CASE a1 = b1 /\ a2 = b2 /\ a3 = b3 /\ a4 < b4
    <3>1. \A j \in 1..4-1 : j = 1 \/ j = 2 \/ j = 3
      OBVIOUS
    <3>2. a[4] < b[4] /\ \A j \in 1..4-1 : a[j] = b[j]
      BY <1>1, <2>4, <3>1
    <3>3. QED
      BY <3>2
  <2>5. QED
    BY <2>1, <2>2, <2>3, <2>4
<1>3. QED
  BY <1>2 DEF Below, a, b

\* What is left is less if it is less in one respect and the same in all before.
LEMMA AheadBelow ==
    ASSUME \/ PhasesAhead' < PhasesAhead
           \/ PhasesAhead' = PhasesAhead /\ TurnsAhead' < TurnsAhead
           \/ PhasesAhead' = PhasesAhead /\ TurnsAhead' = TurnsAhead /\ StagesAhead' < StagesAhead
           \/ PhasesAhead' = PhasesAhead /\ TurnsAhead' = TurnsAhead /\ StagesAhead' = StagesAhead
              /\ PidsAhead' < PidsAhead
    PROVE  Below(Ahead', Ahead)
  BY BelowAt DEF Ahead

\* An action that returns leaves a stage less of the current decision.
LEMMA ReturnGoesForward ==
    ASSUME TypeInv, pc \in ExecutePcs, NEW err, ActionReturns(err), UNCHANGED <<next, latestVars>>
    PROVE  Below(Ahead', Ahead)
<1>1. pc' = "execute" /\ step' = step + 1 /\ Actions' = Actions
  BY DEF ActionReturns, Actions, Current, latestVars
<1>2. Len(Actions) \in Nat /\ step \in Nat
  BY CurrentTyped DEF TypeInv, TypeOK, LoopIndex
<1>3. PhasesAhead' = PhasesAhead /\ TurnsAhead' = TurnsAhead
  BY <1>1 DEF PhasesAhead, TurnsAhead, Looping, ExecutePcs, latestVars
<1>4. StagesAhead' < StagesAhead
  <2>1. StagesAhead' = 4 * (Len(Actions) - step)
    BY <1>1, <1>2 DEF StagesAhead
  <2>2. StagesAhead \in 4 * (Len(Actions) - step) + 1 .. 4 * (Len(Actions) - step) + 4
    BY <1>2 DEF StagesAhead, ExecutePcs
  <2>3. QED
    BY <1>2, <2>1, <2>2
<1>5. QED
  BY <1>3, <1>4, AheadBelow

\* A signal loop has one pid less before it.
LEMMA SignalGoesForward ==
    ASSUME TypeInv, pc \in {"sigterm", "sigkill"}, NEW pid \in todo, todo' = todo \ {pid},
           UNCHANGED <<pc, next, step, latestVars>>
    PROVE  Below(Ahead', Ahead)
<1>1. IsFiniteSet(todo)
  BY FS_Subset, DaemonAssumption DEF TypeInv, TypeOK
<1>2. Cardinality(todo) \in Nat /\ Cardinality(todo') = Cardinality(todo) - 1
  BY <1>1, FS_CardinalityType, FS_RemoveElement
<1>3. PidsAhead' < PidsAhead
  BY <1>2 DEF PidsAhead
<1>4. /\ PhasesAhead' = PhasesAhead
      /\ TurnsAhead' = TurnsAhead
      /\ StagesAhead' = StagesAhead
  BY DEF PhasesAhead, TurnsAhead, StagesAhead, Looping, Actions, Current, latestVars
<1>5. QED
  BY <1>3, <1>4, AheadBelow

\* The next stage of a termination.
LEMMA StageGoesForward ==
    ASSUME TypeInv,
           \/ pc = "execute" /\ pc' = "sigterm"
           \/ pc = "sigterm" /\ pc' = "grace"
           \/ pc = "grace" /\ pc' = "sigkill",
           UNCHANGED <<next, step, latestVars>>
    PROVE  Below(Ahead', Ahead)
<1>1. Len(Actions) \in Nat /\ step \in Nat
  BY CurrentTyped DEF TypeInv, TypeOK, LoopIndex, ExecutePcs
<1>2. Actions' = Actions
  BY DEF Actions, Current, latestVars
<1>3. StagesAhead' < StagesAhead
  BY <1>1, <1>2 DEF StagesAhead
<1>4. PhasesAhead' = PhasesAhead /\ TurnsAhead' = TurnsAhead
  BY DEF PhasesAhead, TurnsAhead, Looping, ExecutePcs, latestVars
<1>5. QED
  BY <1>3, <1>4, AheadBelow

\* The next decision, from being looked at or executed.
LEMMA DecisionGoesForward ==
    ASSUME TypeInv, pc \in {"decide", "execute"}, UNCHANGED latestVars,
           \/ NextDecision
           \/ pc = "decide" /\ pc' = "execute" /\ next' = next
    PROVE  Below(Ahead', Ahead)
<1>1. Len(latestDecisions) \in Nat /\ next \in Nat /\ Len(latestDecisions') = Len(latestDecisions)
  BY DEF TypeInv, TypeOK, latestVars
<1>2. PhasesAhead' = PhasesAhead
  BY DEF PhasesAhead, NextDecision, Looping, ExecutePcs
<1>3. TurnsAhead' < TurnsAhead
  <2>1. /\ pc = "decide" => TurnsAhead = 2 * (Len(latestDecisions) + 1 - next) + 1
        /\ pc = "execute" => TurnsAhead = 2 * (Len(latestDecisions) + 1 - next)
    BY <1>1 DEF TurnsAhead, Looping, ExecutePcs
  <2>2. CASE NextDecision
    <3>1. TurnsAhead' = 2 * (Len(latestDecisions) + 1 - (next + 1)) + 1
      BY <1>1, <2>2 DEF NextDecision, TurnsAhead, Looping
    <3>2. QED
      BY <1>1, <2>1, <3>1
  <2>3. CASE pc = "decide" /\ pc' = "execute" /\ next' = next
    <3>1. TurnsAhead' = 2 * (Len(latestDecisions) + 1 - next)
      BY <1>1, <2>3 DEF TurnsAhead, Looping, ExecutePcs
    <3>2. QED
      BY <1>1, <2>1, <2>3, <3>1
  <2>4. QED
    BY <2>2, <2>3
<1>4. QED
  BY <1>2, <1>3, AheadBelow

\* The next phase.
LEMMA PhaseGoesForward ==
    ASSUME \/ pc = "collect" /\ pc' = "evaluate"
           \/ pc = "evaluate" /\ pc' = "decide"
           \/ pc = "decide" /\ pc' = "select"
    PROVE  Below(Ahead', Ahead)
<1>1. PhasesAhead' < PhasesAhead
  BY DEF PhasesAhead, Looping, ExecutePcs
<1>2. QED
  BY <1>1, AheadBelow

LEMMA CheckGoesForward ==
    ASSUME TypeInv, Check
    PROVE  Below(Ahead', Ahead)
<1>1. CASE Collect \/ Publish \/ FinishCheck
  BY <1>1, PhaseGoesForward DEF Collect, Publish, FinishCheck
<1>2. CASE SkipDecision \/ BeginExecute \/ ExecuteReturns
  <2>1. pc \in {"decide", "execute"} /\ UNCHANGED latestVars
    BY <1>2 DEF SkipDecision, BeginExecute, ExecuteReturns
  <2>2. CASE SkipDecision \/ ExecuteReturns
    <3>1. NextDecision
      BY <2>2 DEF SkipDecision, ExecuteReturns
    <3>2. QED
      BY <2>1, <3>1, DecisionGoesForward
  <2>3. CASE BeginExecute
    BY <2>1, <2>3, DecisionGoesForward DEF BeginExecute
  <2>4. QED
    BY <1>2, <2>2, <2>3
<1>3. CASE PlainAction \/ NotifyDelivered \/ NotifyFails
  <2>1. pc = "execute" /\ UNCHANGED <<next, latestVars>>
    BY <1>3 DEF PlainAction, NotifyDelivered, NotifyFails, AtAction
  <2>2. ActionReturns(TRUE) \/ ActionReturns(FALSE)
    BY <1>3 DEF PlainAction, NotifyDelivered, NotifyFails
  <2>3. QED
    BY <2>1, <2>2, ReturnGoesForward DEF ExecutePcs
<1>4. CASE BeginTerminate
  <2>1. pc = "execute" /\ UNCHANGED <<next, latestVars>>
    BY <1>4 DEF BeginTerminate, AtAction
  <2>2. CASE Current.pids = {}
    <3>1. ActionReturns(FALSE)
      BY <1>4, <2>2 DEF BeginTerminate
    <3>2. QED
      BY <2>1, <3>1, ReturnGoesForward DEF ExecutePcs
  <2>3. CASE Current.pids # {}
    <3>1. pc' = "sigterm" /\ step' = step
      BY <1>4, <2>3 DEF BeginTerminate
    <3>2. QED
      BY <2>1, <3>1, StageGoesForward
  <2>4. QED
    BY <2>2, <2>3
<1>5. CASE GraceCancelled \/ TerminateReturns
  <2>1. pc \in ExecutePcs /\ UNCHANGED <<next, latestVars>>
    BY <1>5 DEF GraceCancelled, TerminateReturns, ExecutePcs
  <2>2. ActionReturns(TRUE) \/ ActionReturns(FALSE)
    BY <1>5 DEF GraceCancelled, TerminateReturns
  <2>3. QED
    BY <2>1, <2>2, ReturnGoesForward
<1>6. CASE BeginGrace \/ GraceOver
  BY <1>6, StageGoesForward DEF BeginGrace, GraceOver
<1>7. ASSUME NEW pid \in Pids, SigTerm(pid) \/ SigKill(pid)
      PROVE  Below(Ahead', Ahead)
  BY <1>7, SignalGoesForward DEF SigTerm, SigKill
<1>8. QED
  BY <1>1, <1>2, <1>3, <1>4, <1>5, <1>6, <1>7 DEF Check, Signalling

LEMMA OthersLeaveAhead ==
    ASSUME Environment \/ UNCHANGED vars
    PROVE  Ahead' = Ahead
<1>1. UNCHANGED <<pc, next, step, todo, latestDecisions>>
  BY DEF Environment, Spawn, Exit, Alter, LoadChanges, Cancel, ClockTick, TickerFires, vars, checkVars,
         latestVars
<1>2. QED
  BY <1>1 DEF Ahead, PhasesAhead, TurnsAhead, StagesAhead, PidsAhead, Looping, Actions, Current

\* Every step of a check leaves less of it, in phases, decisions, stages of an
\* action and pids, in this order, and between two visits to the select
\* statement nothing else changes what is left.
\* (daemon.go:97-217, executor.go:33-199)
THEOREM ChecksComeForward == Spec => ChecksGoForward
<1>1. Init => TypeInv
  BY TypeInvInit
<1>2. TypeInv /\ [Next]_vars => TypeInv'
  BY TypeInvStep
<1>3. TypeInv /\ [Next]_vars =>
         [Check \/ Ahead' # Ahead => pc = "select" \/ Below(Ahead', Ahead)]_vars
  <2> SUFFICES ASSUME TypeInv, [Next]_vars, pc # "select", Check \/ Ahead' # Ahead
               PROVE  Below(Ahead', Ahead)
    OBVIOUS
  <2>1. ~Select
    BY DEF Select, Stop, PeriodicCheck, LoadCheck, LoadIgnored, Receive
  <2>2. Check
    BY <2>1, OthersLeaveAhead DEF Next
  <2>3. QED
    BY <2>2, CheckGoesForward
<1>4. QED
  BY <1>1, <1>2, <1>3, PTL DEF Spec, ChecksGoForward

-----------------------------------------------------------------------------
(* Nothing comes nearer to its end for ever.                               *)

LEMMA LeastNat ==
    ASSUME NEW S, S \subseteq Nat, S # {}
    PROVE  \E m \in S : \A n \in S : m <= n
<1>1. PICK R : /\ IsWellFoundedOn(R, Nat)
               /\ \A m, n \in Nat : m < n => <<m, n>> \in R
  <2>1. \A m, n \in Nat : m < n => <<m, n>> \in OpToRel(<, Nat)
    BY Zenon DEF OpToRel
  <2>2. QED
    BY <2>1, NatLessThanWellFounded, Zenon
<1>2. IsWellFoundedOn(R, Nat)
  BY <1>1
<1>3. PICK m \in S : \A n \in S : ~(<<n, m>> \in R)
  BY <1>2, WFMin, Zenon
<1>4. \A n \in S : ~(n < m)
  BY <1>1, <1>3
<1>5. QED
  BY <1>4

\* What may be left of a check.
Ranks == Nat \X Nat \X Nat \X Nat

\* The least of a set at one place.
LEMMA LeastAt ==
    ASSUME NEW S, S \subseteq Ranks, S # {}, NEW i \in 1..4
    PROVE  \E T : /\ T \subseteq S /\ T # {}
                  /\ \A x \in T, y \in S : x[i] <= y[i] /\ (y[i] = x[i] => y \in T)
<1> DEFINE places == {x[i] : x \in S}
<1>1. \A x \in Ranks : x[1] \in Nat /\ x[2] \in Nat /\ x[3] \in Nat /\ x[4] \in Nat
  BY DEF Ranks
<1>2. i = 1 \/ i = 2 \/ i = 3 \/ i = 4
  OBVIOUS
<1>3. \A x \in S : x[i] \in Nat
  BY <1>1, <1>2
<1>4. places \subseteq Nat /\ places # {}
  BY <1>3
<1>5. PICK m \in places : \A n \in places : m <= n
  <2> HIDE DEF places
  <2> QED
    BY <1>4, LeastNat
<1> DEFINE T == {x \in S : x[i] = m}
<1>6. T \subseteq S /\ T # {}
  OBVIOUS
<1>7. \A x \in T, y \in S : x[i] <= y[i] /\ (y[i] = x[i] => y \in T)
  BY <1>5
<1> HIDE DEF T
<1>8. QED
  BY <1>6, <1>7

LEMMA SomeRankIsLeast ==
    ASSUME NEW S, S \subseteq Ranks, S # {}
    PROVE  \E x \in S : \A y \in S : ~Below(y, x)
<1>0. 1 \in 1..4 /\ 2 \in 1..4 /\ 3 \in 1..4 /\ 4 \in 1..4
  OBVIOUS
<1>1. PICK S1 : /\ S1 \subseteq S /\ S1 # {}
                /\ \A x \in S1, y \in S : x[1] <= y[1] /\ (y[1] = x[1] => y \in S1)
  BY <1>0, LeastAt, Zenon
<1>2. PICK S2 : /\ S2 \subseteq S1 /\ S2 # {}
                /\ \A x \in S2, y \in S1 : x[2] <= y[2] /\ (y[2] = x[2] => y \in S2)
  <2>1. S1 \subseteq Ranks
    BY <1>1
  <2>2. QED
    BY <1>0, <1>1, <2>1, LeastAt, Zenon
<1>3. PICK S3 : /\ S3 \subseteq S2 /\ S3 # {}
                /\ \A x \in S3, y \in S2 : x[3] <= y[3] /\ (y[3] = x[3] => y \in S3)
  <2>1. S2 \subseteq Ranks
    BY <1>1, <1>2
  <2>2. QED
    BY <1>0, <1>2, <2>1, LeastAt, Zenon
<1>4. PICK S4 : /\ S4 \subseteq S3 /\ S4 # {}
                /\ \A x \in S4, y \in S3 : x[4] <= y[4] /\ (y[4] = x[4] => y \in S4)
  <2>1. S3 \subseteq Ranks
    BY <1>1, <1>2, <1>3
  <2>2. QED
    BY <1>0, <1>3, <2>1, LeastAt, Zenon
<1>5. PICK x \in S4 : TRUE
  BY <1>4
<1>6. x \in S3 /\ x \in S2 /\ x \in S1 /\ x \in S
  BY <1>1, <1>2, <1>3, <1>4
<1>7. /\ \A y \in S : x[1] <= y[1] /\ (y[1] = x[1] => y \in S1)
      /\ \A y \in S1 : x[2] <= y[2] /\ (y[2] = x[2] => y \in S2)
      /\ \A y \in S2 : x[3] <= y[3] /\ (y[3] = x[3] => y \in S3)
      /\ \A y \in S3 : x[4] <= y[4]
  BY <1>1, <1>2, <1>3, <1>4, <1>6
<1>8. ASSUME NEW y \in S, Below(y, x)
      PROVE  FALSE
  <2>0. /\ x[1] \in Nat /\ x[2] \in Nat /\ x[3] \in Nat /\ x[4] \in Nat
        /\ y[1] \in Nat /\ y[2] \in Nat /\ y[3] \in Nat /\ y[4] \in Nat
    BY <1>6 DEF Ranks
  <2>1. PICK i \in 1..4 : y[i] < x[i] /\ \A j \in 1..i-1 : y[j] = x[j]
    BY <1>8 DEF Below
  <2>2. CASE i = 1
    BY <1>7, <2>0, <2>1, <2>2
  <2>3. CASE i = 2
    <3>1. y[1] = x[1]
      BY <2>1, <2>3
    <3>2. y \in S1
      BY <1>7, <3>1
    <3>3. QED
      BY <1>7, <2>0, <2>1, <2>3, <3>2
  <2>4. CASE i = 3
    <3>1. y[1] = x[1] /\ y[2] = x[2]
      BY <2>1, <2>4
    <3>2. y \in S1
      BY <1>7, <3>1
    <3>3. y \in S2
      BY <1>7, <3>1, <3>2
    <3>4. QED
      BY <1>7, <2>0, <2>1, <2>4, <3>3
  <2>5. CASE i = 4
    <3>1. y[1] = x[1] /\ y[2] = x[2] /\ y[3] = x[3]
      BY <2>1, <2>5
    <3>2. y \in S1
      BY <1>7, <3>1
    <3>3. y \in S2
      BY <1>7, <3>1, <3>2
    <3>4. y \in S3
      BY <1>7, <3>1, <3>3
    <3>5. QED
      BY <1>7, <2>0, <2>1, <2>5, <3>4
  <2>6. QED
    BY <2>2, <2>3, <2>4, <2>5
<1>9. QED
  BY <1>6, <1>8

\* The index of the actions is in range while they are executed.
StepInRange ==
    /\ pc = "execute" => step <= Len(Actions) + 1
    /\ pc \in {"sigterm", "grace", "sigkill"} => step <= Len(Actions)
    /\ pc \notin ExecutePcs => step = 1

LEMMA StepInRangeInit == Init => StepInRange
  BY DEF Init, StepInRange, ExecutePcs

LEMMA StepInRangeStep ==
    ASSUME TypeInv, StepInRange, [Next]_vars
    PROVE  StepInRange'
<1>1. CASE Environment \/ UNCHANGED vars
  <2>1. UNCHANGED <<pc, next, step, latestDecisions>>
    BY <1>1 DEF Environment, Spawn, Exit, Alter, LoadChanges, Cancel, ClockTick, TickerFires, vars,
                checkVars, latestVars
  <2>2. QED
    BY <2>1 DEF StepInRange, Actions, Current
<1>2. CASE Select
  BY <1>2 DEF Select, Stop, PeriodicCheck, LoadCheck, LoadIgnored, Receive, StartCheck, checkVars,
              StepInRange, ExecutePcs
<1>3. CASE Collect \/ Publish \/ FinishCheck
  BY <1>3 DEF Collect, Publish, FinishCheck, StepInRange, ExecutePcs
<1>4. CASE SkipDecision \/ ExecuteReturns
  <2>1. NextDecision
    BY <1>4 DEF SkipDecision, ExecuteReturns
  <2>2. QED
    BY <2>1 DEF NextDecision, StepInRange, ExecutePcs
<1>5. CASE BeginExecute
  <2>1. pc = "decide" /\ pc' = "execute" /\ step' = step /\ Actions' = Actions
    BY <1>5 DEF BeginExecute, Actions, Current, latestVars
  <2>2. next <= Len(latestDecisions)
    BY <1>5 DEF BeginExecute
  <2>3. QED
    BY <2>1, <2>2, CurrentTyped DEF TypeInv, StepInRange, ExecutePcs
<1> DEFINE Stays == UNCHANGED <<next, latestDecisions>>
<1>6. ASSUME Stays, pc \in ExecutePcs, step <= Len(Actions), NEW err, ActionReturns(err)
      PROVE  StepInRange'
  <2>1. pc' = "execute" /\ step' = step + 1 /\ Actions' = Actions
    BY <1>6 DEF ActionReturns, Actions, Current
  <2>2. Len(Actions) \in Nat /\ step \in Nat
    BY <1>6, CurrentTyped DEF TypeInv, TypeOK, LoopIndex
  <2>3. QED
    BY <1>6, <2>1, <2>2 DEF StepInRange, ExecutePcs
<1>7. ASSUME Stays, step' = step, step <= Len(Actions), pc' \in {"sigterm", "grace", "sigkill"}
      PROVE  StepInRange'
  BY <1>7 DEF StepInRange, Actions, Current, ExecutePcs
<1>8. CASE PlainAction \/ NotifyDelivered \/ NotifyFails
  <2>1. Stays /\ pc \in ExecutePcs /\ step <= Len(Actions)
    BY <1>8 DEF PlainAction, NotifyDelivered, NotifyFails, AtAction, ExecutePcs, latestVars
  <2>2. ActionReturns(TRUE) \/ ActionReturns(FALSE)
    BY <1>8 DEF PlainAction, NotifyDelivered, NotifyFails
  <2> HIDE DEF Stays
  <2>3. QED
    BY <1>6, <2>1, <2>2
<1>9. CASE BeginTerminate
  <2>1. Stays /\ pc \in ExecutePcs /\ step <= Len(Actions)
    BY <1>9 DEF BeginTerminate, AtAction, ExecutePcs, latestVars
  <2>2. CASE Current.pids = {}
    <3>1. ActionReturns(FALSE)
      BY <1>9, <2>2 DEF BeginTerminate
    <3> HIDE DEF Stays
    <3>2. QED
      BY <1>6, <2>1, <3>1
  <2>3. CASE Current.pids # {}
    <3>1. pc' = "sigterm" /\ step' = step
      BY <1>9, <2>3 DEF BeginTerminate
    <3> HIDE DEF Stays
    <3>2. QED
      BY <1>7, <2>1, <3>1
  <2>4. QED
    BY <2>2, <2>3
<1>10. CASE GraceCancelled \/ TerminateReturns
  <2>1. Stays /\ pc \in {"grace", "sigkill"}
    BY <1>10 DEF GraceCancelled, TerminateReturns, latestVars
  <2>2. pc \in ExecutePcs /\ step <= Len(Actions)
    BY <2>1 DEF StepInRange, ExecutePcs
  <2>3. ActionReturns(TRUE) \/ ActionReturns(FALSE)
    BY <1>10 DEF GraceCancelled, TerminateReturns
  <2> HIDE DEF Stays
  <2>4. QED
    BY <1>6, <2>1, <2>2, <2>3
<1>11. CASE BeginGrace \/ GraceOver
  <2>1. Stays /\ pc \in {"sigterm", "grace"} /\ pc' \in {"grace", "sigkill"} /\ step' = step
    BY <1>11 DEF BeginGrace, GraceOver, latestVars
  <2>2. step <= Len(Actions)
    BY <2>1 DEF StepInRange
  <2> HIDE DEF Stays
  <2>3. QED
    BY <1>7, <2>1, <2>2
<1>12. ASSUME NEW pid \in Pids, SigTerm(pid) \/ SigKill(pid)
       PROVE  StepInRange'
  <2>1. Stays /\ pc \in {"sigterm", "sigkill"} /\ pc' = pc /\ step' = step
    BY <1>12 DEF SigTerm, SigKill, latestVars
  <2>2. step <= Len(Actions)
    BY <2>1 DEF StepInRange
  <2> HIDE DEF Stays
  <2>3. QED
    BY <1>7, <2>1, <2>2
<1>13. QED
  BY <1>1, <1>2, <1>3, <1>4, <1>5, <1>8, <1>9, <1>10, <1>11, <1>12 DEF Next, Check, Signalling

\* What is left of a check is natural numbers.
LEMMA AheadIsRank ==
    ASSUME TypeInv, StepInRange
    PROVE  Ahead \in Ranks
<1>1. PhasesAhead \in Nat
  BY DEF PhasesAhead
<1>2. TurnsAhead \in Nat
  <2>1. Len(latestDecisions) \in Nat /\ next \in 1..Len(latestDecisions) + 1
    BY DEF TypeInv, TypeOK
  <2>2. QED
    BY <2>1 DEF TurnsAhead
<1>3. StagesAhead \in Nat
  <2>1. CASE pc \in ExecutePcs
    <3>1. Len(Actions) \in Nat /\ step \in Nat
      BY <2>1, CurrentTyped DEF TypeInv, TypeOK, LoopIndex
    <3>2. QED
      BY <2>1, <3>1 DEF StagesAhead, StepInRange, ExecutePcs
  <2>2. CASE pc \notin ExecutePcs
    BY <2>2 DEF StagesAhead, ExecutePcs
  <2>3. QED
    BY <2>1, <2>2
<1>4. PidsAhead \in Nat
  <2>1. IsFiniteSet(todo)
    BY FS_Subset, DaemonAssumption DEF TypeInv, TypeOK
  <2>2. Cardinality(todo) \in Nat
    BY <2>1, FS_CardinalityType
  <2>3. QED
    BY <2>2 DEF PidsAhead
<1>5. QED
  BY <1>1, <1>2, <1>3, <1>4 DEF Ahead, Ranks

\* No check goes on for ever: what is left of it is always a list of four
\* natural numbers, and such lists cannot become less without end. With
\* ChecksComeForward, only a check that is not scheduled, or whose grace period
\* does not run out, fails to return to the select statement.
\* (daemon.go:97-217, executor.go:33-199)
THEOREM ChecksAreFinite ==
    /\ Spec => [](Ahead \in Ranks)
    /\ ~ \E f \in [Nat -> Ranks] : \A n \in Nat : Below(f[n + 1], f[n])
<1>1. Spec => [](Ahead \in Ranks)
  <2> DEFINE Inv == TypeInv /\ StepInRange
  <2>1. Init => Inv
    BY TypeInvInit, StepInRangeInit
  <2>2. Inv /\ [Next]_vars => Inv'
    BY TypeInvStep, StepInRangeStep
  <2>3. Inv => Ahead \in Ranks
    BY AheadIsRank
  <2>4. QED
    BY <2>1, <2>2, <2>3, PTL DEF Spec
<1>2. ASSUME NEW f \in [Nat -> Ranks], \A n \in Nat : Below(f[n + 1], f[n])
      PROVE  FALSE
  <2> DEFINE S == {f[n] : n \in Nat}
  <2>1. S \subseteq Ranks /\ S # {}
    OBVIOUS
  <2> HIDE DEF S
  <2>2. PICK x \in S : \A y \in S : ~Below(y, x)
    BY <2>1, SomeRankIsLeast
  <2>3. PICK n \in Nat : x = f[n]
    BY DEF S
  <2>4. f[n + 1] \in S
    BY DEF S
  <2>5. QED
    BY <1>2, <2>2, <2>3, <2>4
<1>3. QED
  BY <1>1, <1>2
=============================================================================
