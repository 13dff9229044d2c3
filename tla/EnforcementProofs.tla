-------------------------- MODULE EnforcementProofs --------------------------
(***************************************************************************)
(* The daemon implements Enforcement: signals go only to processes that    *)
(* the policy describes as they were listed, one policy acts at a time,    *)
(* and cooldown and grace period are served.  The invariants proved on the way are those of       *)
(* Daemon that speak of descriptions, cooldowns and dry runs.              *)
(***************************************************************************)
EXTENDS DaemonProofs

-----------------------------------------------------------------------------
(* Targets are those whom their policies describe.                         *)

\* Every target of a decision is a process of the snapshot that matched.
LEMMA TargetsMatch ==
    ASSUME NEW snap, NEW list \in Evaluations(Policies, snap),
           NEW i \in 1..Len(list), NEW pid \in list[i].pids
    PROVE  \E s \in Matching(Policies[list[i].policy], snap.procs) : s.pid = pid
<1> DEFINE on == EnabledNames(Policies)
<1>1. PICK order \in PriorityOrders(Policies) :
         list = [j \in DOMAIN order |-> EvaluatePolicy(Policies, order[j], snap)]
  BY DEF Evaluations
<1>2. Cardinality(on) \in Nat
  BY DaemonAssumption, FS_Subset, FS_CardinalityType DEF EnabledNames, PolicyNames
<1>3. DOMAIN order = 1..Cardinality(on)
  BY DEF PriorityOrders
<1>4. Len(list) = Cardinality(on)
  BY <1>1, <1>2, <1>3
<1>5. list[i] = EvaluatePolicy(Policies, order[i], snap)
  BY <1>1, <1>3, <1>4
<1> DEFINE hit == {s.pid : s \in Matching(Policies[order[i]], snap.procs)}
           trig == /\ Thresholds(Policies[order[i]], snap)
                   /\ IsAuthorized(PolicySet(Policies), CedarRequest(Policies[order[i]], snap))
<1>6. list[i] = [policy |-> order[i], triggered |-> trig, pids |-> IF trig THEN hit ELSE {}]
  BY <1>5 DEF EvaluatePolicy
<1> HIDE DEF trig
<1>7. pid \in hit /\ list[i].policy = order[i]
  BY <1>6
<1>8. QED
  BY <1>7

\* Apart from a new listing and its evaluation no step changes the snapshot or
\* the decisions a loop runs over, and of a process that is still the listed one
\* it stays known as what it was listed.
LEMMA LoopFrame ==
    ASSUME TypeInv, [Next]_vars, ~Collect, ~Publish
    PROVE  /\ snapshot' = snapshot
           /\ Looping' => /\ Looping
                          /\ latestDecisions' = latestDecisions
                          /\ next' \in Nat /\ next' >= next
           /\ \A q \in Pids : q \in seen' =>
                 /\ q \in seen /\ listedAs'[q] = listedAs[q]
                 /\ Reachable(q)' => Reachable(q)
<1> USE DEF ExecutePcs, Looping
<1>0. /\ next \in Nat
      /\ table \in [Pids -> Kinds \cup {Free}]
      /\ listedAs \in [Pids -> Kinds \cup {Free}]
  BY DEF TypeInv, TypeOK
<1>1. ASSUME NEW pid \in Pids, NEW kind, table' = [table EXCEPT ![pid] = kind], Forget(pid),
             UNCHANGED <<snapshot, pc, latestDecisions, next>>
      PROVE  /\ snapshot' = snapshot
             /\ Looping' => /\ Looping
                            /\ latestDecisions' = latestDecisions
                            /\ next' \in Nat /\ next' >= next
             /\ \A q \in Pids : q \in seen' =>
                   /\ q \in seen /\ listedAs'[q] = listedAs[q]
                   /\ Reachable(q)' => Reachable(q)
  BY <1>0, <1>1 DEF Forget, Reachable
<1>2. ASSUME NEW pid \in Pids, NEW kind \in Kinds, Spawn(pid, kind)
      PROVE  table' = [table EXCEPT ![pid] = kind] /\ Forget(pid)
             /\ UNCHANGED <<snapshot, pc, latestDecisions, next>>
  BY <1>2 DEF Spawn, checkVars, latestVars
<1>3. ASSUME NEW pid \in Pids, Exit(pid)
      PROVE  table' = [table EXCEPT ![pid] = Free] /\ Forget(pid)
             /\ UNCHANGED <<snapshot, pc, latestDecisions, next>>
  BY <1>3 DEF Exit, checkVars, latestVars
<1>4. ASSUME NEW pid \in Pids, SigKill(pid), Reachable(pid)
      PROVE  table' = [table EXCEPT ![pid] = Free] /\ Forget(pid)
             /\ UNCHANGED <<snapshot, pc, latestDecisions, next>>
  BY <1>4 DEF SigKill, latestVars
<1>5. CASE /\ UNCHANGED <<table, seen, listedAs, snapshot>>
           /\ Looping' => /\ Looping
                          /\ latestDecisions' = latestDecisions
                          /\ next' \in Nat /\ next' >= next
  BY <1>5 DEF Reachable
<1>6. CASE \/ LoadChanges \/ Cancel \/ ClockTick \/ UNCHANGED vars
           \/ \E ticker \in {"periodic", "load"} : TickerFires(ticker)
  <2>1. UNCHANGED <<table, seen, listedAs, snapshot, pc, latestDecisions, next>>
    BY <1>6 DEF LoadChanges, Cancel, ClockTick, TickerFires, vars, osVars, checkVars,
                latestVars, historyVars
  <2>2. QED
    BY <1>0, <2>1 DEF Reachable
<1>7. CASE Select
  <2>1. UNCHANGED <<table, seen, listedAs, snapshot>> /\ pc' \in {"collect", "select", "stopped"}
    BY <1>7 DEF Select, Stop, PeriodicCheck, LoadCheck, LoadIgnored, Receive, StartCheck,
                osVars, checkVars, latestVars, historyVars
  <2>2. QED
    BY <2>1 DEF Reachable
<1>8. CASE SkipDecision \/ ExecuteReturns
  <2>1. /\ UNCHANGED <<table, seen, listedAs, snapshot, latestDecisions>>
        /\ next' = next + 1
        /\ Looping
    BY <1>8 DEF SkipDecision, ExecuteReturns, NextDecision, osVars, latestVars, historyVars
  <2>2. QED
    BY <1>0, <2>1 DEF Reachable
<1>9. CASE \/ BeginExecute \/ PlainAction \/ NotifyDelivered \/ NotifyFails
           \/ BeginTerminate \/ BeginGrace \/ GraceCancelled \/ GraceOver \/ TerminateReturns
           \/ \E pid \in Pids : SigTerm(pid)
           \/ \E pid \in Pids : SigKill(pid) /\ ~Reachable(pid)
  <2>1. UNCHANGED <<table, seen, listedAs, snapshot, latestDecisions, next>> /\ Looping
    BY <1>9 DEF BeginExecute, PlainAction, NotifyDelivered, NotifyFails, BeginTerminate,
                BeginGrace, GraceCancelled, GraceOver, TerminateReturns, SigTerm, SigKill,
                AtAction, osVars, latestVars, historyVars
  <2>2. QED
    BY <1>0, <2>1 DEF Reachable
<1>10. CASE FinishCheck
  BY <1>10 DEF FinishCheck, osVars, latestVars, historyVars, Reachable
<1>11. ASSUME NEW pid \in Pids, NEW kind \in Kinds, Alter(pid, kind)
       PROVE  /\ UNCHANGED <<seen, listedAs, snapshot, pc, latestDecisions, next>>
              /\ \A q \in Pids : Reachable(q)' => Reachable(q)
  BY <1>11, AlterKeepsReach DEF TypeInv, checkVars, latestVars, historyVars
<1>12. QED
  BY <1>0, <1>1, <1>2, <1>3, <1>4, <1>6, <1>7, <1>8, <1>9, <1>10, <1>11
     DEF Next, Environment, Check, Signalling

\* Whoever has been seen was something.
LEMMA ListedAreKinds ==
    ASSUME TypeInv, NEW pid \in Pids, pid \in seen
    PROVE  listedAs[pid] \in Kinds
  BY DEF TypeInv, TypeOK

LEMMA DescriptionInvInit == Init => DescriptionInv
  BY DEF Init, DescriptionInv, EmptySnapshot, Looping, ExecutePcs

\* The descriptions stay true as long as the check goes on through its
\* decisions and does not list anybody anew.
LEMMA DescriptionKept ==
    ASSUME TypeInv, DescriptionInv,
           snapshot' = snapshot,
           Looping' => /\ Looping
                       /\ latestDecisions' = latestDecisions
                       /\ next' \in Nat /\ next' >= next,
           \A q \in Pids : q \in seen' => q \in seen /\ listedAs'[q] = listedAs[q]
    PROVE  DescriptionInv'
<1>1. ASSUME NEW s \in snapshot'.procs, s.pid \in seen'
      PROVE  /\ s.name = listedAs'[s.pid].name
             /\ s.parent = listedAs'[s.pid].parent \/ (CollectorFails /\ s.parent = NoName)
  <2>1. s.pid \in Pids
    BY <1>1 DEF TypeInv, TypeOK
  <2>2. QED
    BY <1>1, <2>1 DEF DescriptionInv
<1>2. ASSUME Looping', NEW i \in next'..Len(latestDecisions'),
             NEW pid \in latestDecisions'[i].pids \cap seen'
      PROVE  DescribedBy(pid, Policies[latestDecisions[i].policy])'
  <2>1. next \in Nat \ {0}
    BY DEF TypeInv, TypeOK
  <2>2. /\ Looping
        /\ i \in next..Len(latestDecisions) /\ i \in 1..Len(latestDecisions)
        /\ pid \in latestDecisions[i].pids
    BY <1>2, <2>1
  <2>3. pid \in Pids
    BY <2>2, DecisionTyped DEF TypeInv
  <2>4. DescribedBy(pid, Policies[latestDecisions[i].policy])
    BY <1>2, <2>2, <2>3 DEF DescriptionInv
  <2>5. listedAs'[pid] = listedAs[pid] /\ latestDecisions' = latestDecisions
    BY <1>2, <2>3
  <2>6. QED
    BY <2>4, <2>5 DEF DescribedBy, Describes
<1>3. QED
  BY <1>1, <1>2 DEF DescriptionInv, DescribedBy, Describes

LEMMA DescriptionInvStep ==
    TypeInv /\ DescriptionInv /\ [Next]_vars => DescriptionInv'
<1> SUFFICES ASSUME TypeInv, DescriptionInv, [Next]_vars PROVE DescriptionInv'
  OBVIOUS
<1>1. CASE Collect
  <2>1. ~Looping'
    BY <1>1 DEF Collect, Looping, ExecutePcs
  <2> DEFINE View(orphaned, pid) ==
               [pid    |-> pid,
                name   |-> table[pid].name,
                parent |-> IF pid \in orphaned THEN NoName ELSE table[pid].parent]
  <2>2. \E listed \in SUBSET {pid \in Pids : table[pid] # Free} :
        \E orphaned \in SUBSET listed :
           /\ orphaned # {} => CollectorFails
           /\ snapshot'.procs = {View(orphaned, pid) : pid \in listed}
    <3>1. PICK listed \in SUBSET {pid \in Pids : table[pid] # Free} :
             \E orphaned \in SUBSET listed :
             \E loads \in {load, [load1 |-> 0, load5 |-> 0]} :
                /\ orphaned # {} => CollectorFails
                /\ snapshot' = [procs |-> {View(orphaned, pid) : pid \in listed},
                                load1 |-> loads.load1, load5 |-> loads.load5]
      BY <1>1, Zenon DEF Collect
    <3>2. PICK orphaned \in SUBSET listed :
             \E loads \in {load, [load1 |-> 0, load5 |-> 0]} :
                /\ orphaned # {} => CollectorFails
                /\ snapshot' = [procs |-> {View(orphaned, pid) : pid \in listed},
                                load1 |-> loads.load1, load5 |-> loads.load5]
      BY <3>1, Zenon
    <3> DEFINE views == {View(orphaned, pid) : pid \in listed}
    <3> HIDE DEF views
    <3>3. (orphaned # {} => CollectorFails) /\ snapshot'.procs = views
      BY <3>2 DEF views
    <3>4. QED
      BY <3>3 DEF views
  <2>3. \A s \in snapshot'.procs : s.pid \in seen' => listedAs'[s.pid] = table[s.pid]
    BY <1>1 DEF Collect
  <2>4. ASSUME NEW s \in snapshot'.procs
        PROVE  /\ s.name = table[s.pid].name
               /\ s.parent = table[s.pid].parent \/ (CollectorFails /\ s.parent = NoName)
    <3>1. PICK listed \in SUBSET {pid \in Pids : table[pid] # Free},
               orphaned \in SUBSET {pid \in Pids : table[pid] # Free} :
             /\ orphaned # {} => CollectorFails
             /\ snapshot'.procs = {View(orphaned, pid) : pid \in listed}
      BY <2>2
    <3>2. PICK pid \in listed : s = View(orphaned, pid)
      BY <2>4, <3>1
    <3>3. /\ s.pid = pid
          /\ s.name = table[pid].name
          /\ s.parent = IF pid \in orphaned THEN NoName ELSE table[pid].parent
      BY <3>2
    <3>4. QED
      BY <3>1, <3>3
  <2>5. QED
    BY <2>1, <2>3, <2>4 DEF DescriptionInv
<1>2. CASE Publish
  <2>1. /\ snapshot'.procs = {}
        /\ UNCHANGED <<seen, listedAs, next>>
        /\ latestDecisions' \in Evaluations(Policies, snapshot)
    BY <1>2 DEF Publish, EmptySnapshot, osVars, historyVars
  <2>2. ASSUME NEW i \in next..Len(latestDecisions'),
               NEW pid \in latestDecisions'[i].pids \cap seen
        PROVE  DescribedBy(pid, Policies[latestDecisions'[i].policy])
    <3> DEFINE policy == Policies[latestDecisions'[i].policy]
    <3>1. next \in Nat \ {0}
      BY DEF TypeInv, TypeOK
    <3>2. i \in 1..Len(latestDecisions')
      BY <3>1
    <3>3. PICK s \in Matching(policy, snapshot.procs) : s.pid = pid
      BY <2>1, <2>2, <3>2, TargetsMatch
    <3> HIDE DEF policy
    <3>4. /\ s \in snapshot.procs
          /\ s.name = policy.process
          /\ policy.parent # NoName => s.parent = policy.parent
          /\ s.parent \notin policy.exclude
      BY DEF Matching
    <3>5. /\ s.name = listedAs[pid].name
          /\ s.parent = listedAs[pid].parent \/ (CollectorFails /\ s.parent = NoName)
      BY <2>2, <3>3, <3>4 DEF DescriptionInv
    <3>6. DescribedBy(pid, policy)
      BY <3>4, <3>5 DEF DescribedBy, Describes
    <3>7. QED
      BY <3>6 DEF policy
  <2>3. QED
    BY <2>1, <2>2 DEF DescriptionInv, DescribedBy, Describes
<1>3. CASE ~Collect /\ ~Publish
  <2>1. /\ snapshot' = snapshot
        /\ Looping' => /\ Looping
                       /\ latestDecisions' = latestDecisions
                       /\ next' \in Nat /\ next' >= next
        /\ \A q \in Pids : q \in seen' => q \in seen /\ listedAs'[q] = listedAs[q]
    BY <1>3, LoopFrame
  <2>2. QED
    BY <2>1, DescriptionKept
<1>4. QED
  BY <1>1, <1>2, <1>3

\* Whoever the running policy is about to signal is a listed process of the
\* current decision, and was described by its policy when it was listed.
LEMMA TargetsAreDescribed ==
    ASSUME TypeInv, SurvivorInv, DescriptionInv, pc \in ExecutePcs,
           NEW pid \in Current.pids, Reachable(pid)
    PROVE  /\ next \in 1..Len(latestDecisions)
           /\ Current.policy \in PolicyNames
           /\ pid \in Pids
           /\ pid \in seen
           /\ DescribedBy(pid, Policies[Current.policy])
<1> USE DEF ExecutePcs, Looping
<1>1. /\ next \in 1..Len(latestDecisions)
      /\ Current.policy \in PolicyNames
      /\ Current.pids \subseteq Pids
  BY CurrentTyped DEF TypeInv, LoopIndex
<1>2. next \in next..Len(latestDecisions) /\ pid \in latestDecisions[next].pids
  BY <1>1 DEF Current, TypeInv, TypeOK
<1>3. pid \in seen
  BY <1>2 DEF SurvivorInv, TargetsAreSeen, Reachable
<1>4. DescribedBy(pid, Policies[Current.policy])
  BY <1>2, <1>3 DEF DescriptionInv, Current
<1>5. QED
  BY <1>1, <1>3, <1>4

\* A target that is still there is one whom its policy describes as he was
\* listed, however the check has gone on, and whatever other processes have come
\* and gone since, under pids that are reused or not. (collector.go:133-166,
\* engine.go:86-121)
THEOREM DescriptionsHold == Spec => []DescriptionInv
<1>1. Init => TypeInv /\ DescriptionInv
  BY TypeInvInit, DescriptionInvInit
<1>2. TypeInv /\ DescriptionInv /\ [Next]_vars => (TypeInv /\ DescriptionInv)'
  BY TypeInvStep, DescriptionInvStep
<1>3. QED
  BY <1>1, <1>2, PTL DEF Spec

\* As long as no pid under a running check is given to a new process, what
\* SurvivorInv says of the way from listing to SIGKILL holds in every state.
\* (daemon.go:154-212, executor.go:138-189)
THEOREM SurvivorInvHolds == ~ReuseTargets => (Spec => []SurvivorInv)
<1> SUFFICES ASSUME ~ReuseTargets PROVE Spec => []SurvivorInv
  OBVIOUS
<1> DEFINE Inv == TypeInv /\ SnapshotDropped /\ SurvivorInv
<1>1. Init => Inv
  BY TypeInvInit, SnapshotDroppedInit, SurvivorInvInit
<1>2. Inv /\ [Next]_vars => Inv'
  BY TypeInvStep, SnapshotDroppedStep, SurvivorInvStep
<1>3. QED
  BY <1>1, <1>2, PTL DEF Spec

\* As long as no pid under a running check is given to a new process, whoever
\* gets a signal is himself one whom the check listed and whom the policy describes
\* as he was listed. (daemon.go:154-212, executor.go:138-189)
THEOREM SignalsReachTargets == ~ReuseTargets => (Spec => []SignalsMatchPolicy)
<1> SUFFICES ASSUME ~ReuseTargets PROVE Spec => []SignalsMatchPolicy
  OBVIOUS
<1>1. Spec => []SurvivorInv
  BY SurvivorInvHolds
<1>2. Init => TypeInv
  BY TypeInvInit
<1>3. TypeInv /\ [Next]_vars => TypeInv'
  BY TypeInvStep
<1>4. TypeInv /\ SurvivorInv /\ DescriptionInv => SignalsMatchPolicy
  BY TargetsAreDescribed DEF SignalsMatchPolicy, SurvivorInv, TodoAreTargets, ExecutePcs
<1>5. QED
  BY <1>1, <1>2, <1>3, <1>4, DescriptionsHold, PTL DEF Spec

-----------------------------------------------------------------------------
(* Nobody is left out.                                                     *)

\* Outside its loop SIGKILL has passed nobody, and inside it only the loop
\* itself takes a pid off.
LEMMA SurvivorsAreKilledStep ==
    TypeInv /\ SurvivorsAreKilled /\ [Next]_vars => SurvivorsAreKilled'
<1> SUFFICES ASSUME TypeInv, SurvivorsAreKilled, [Next]_vars, pc' = "sigkill",
                    NEW q \in (Current'.pids \cap seen') \ todo'
             PROVE  ~Reachable(q)'
  BY DEF SurvivorsAreKilled
<1> USE DEF ExecutePcs
<1>1. CASE GraceOver
  <2>1. UNCHANGED <<latestDecisions, next>> /\ todo' = Current.pids
    BY <1>1 DEF GraceOver, latestVars
  <2>2. Current' = Current
    BY <2>1 DEF Current
  <2>3. QED
    BY <2>1, <2>2
<1>2. CASE ~GraceOver
  <2>1. ~Collect /\ ~Publish
    BY DEF Collect, Publish
  <2>2. /\ pc = "sigkill"
        /\ UNCHANGED <<latestDecisions, next>>
        /\ todo' = todo \/ \E pid \in Pids : SigKill(pid) /\ todo' = todo \ {pid}
    <3>1. CASE Environment \/ UNCHANGED vars
      BY <3>1 DEF Environment, Spawn, Exit, Alter, LoadChanges, Cancel, ClockTick, TickerFires,
                  checkVars, latestVars, vars
    <3>2. CASE Select
      BY <3>2 DEF Select, Stop, PeriodicCheck, LoadCheck, LoadIgnored, Receive, StartCheck,
                  checkVars
    <3>3. CASE \/ SkipDecision \/ BeginExecute \/ FinishCheck \/ PlainAction
               \/ NotifyDelivered \/ NotifyFails \/ BeginTerminate \/ ExecuteReturns
      BY <3>3 DEF SkipDecision, BeginExecute, FinishCheck, PlainAction, NotifyDelivered,
                  NotifyFails, BeginTerminate, ExecuteReturns, AtAction, ActionReturns,
                  NextDecision
    <3>4. CASE Signalling
      BY <1>2, <3>4 DEF Signalling, SigTerm, BeginGrace, GraceCancelled, SigKill,
                        TerminateReturns, ActionReturns, latestVars
    <3>5. QED
      BY <2>1, <3>1, <3>2, <3>3, <3>4 DEF Next, Check
  <2>3. Current' = Current /\ Current.pids \subseteq Pids
    BY <2>2, CurrentTyped DEF Current, TypeInv, LoopIndex
  <2>4. q \in Pids /\ q \in seen /\ (Reachable(q)' => Reachable(q))
    BY <2>1, <2>3, LoopFrame
  <2>5. CASE q \notin todo
    BY <2>2, <2>3, <2>4, <2>5 DEF SurvivorsAreKilled
  <2>6. CASE q \in todo
    <3>1. SigKill(q)
      BY <2>2, <2>6
    <3>2. q \in seen' => ~Reachable(q)
      BY <3>1 DEF SigKill, Forget
    <3>3. QED
      BY <2>4, <3>2
  <2>7. QED
    BY <2>5, <2>6
<1>3. QED
  BY <1>1, <1>2

\* The SIGKILL loop leaves nobody out: of the processes that the snapshot
\* listed, those it has passed are gone or belong to another user, also if
\* pids are reused. (executor.go:168-189)
THEOREM NoSurvivorIsSpared == Spec => []SurvivorsAreKilled
<1>1. Init => TypeInv /\ SurvivorsAreKilled
  BY TypeInvInit DEF Init, SurvivorsAreKilled
<1>2. TypeInv /\ SurvivorsAreKilled /\ [Next]_vars => (TypeInv /\ SurvivorsAreKilled)'
  BY TypeInvStep, SurvivorsAreKilledStep
<1>3. QED
  BY <1>1, <1>2, PTL DEF Spec

-----------------------------------------------------------------------------
(* Cooldowns.                                                              *)

\* A policy whose actions are being executed has served its cooldown.
ActingIsCooled == pc \in ExecutePcs => sinceTrigger[Current.policy] = Cooldown

\* Execute is entered by BeginExecute only, and works on one decision.
LEMMA ExecuteFrame ==
    ASSUME [Next]_vars, pc' \in ExecutePcs, ~BeginExecute
    PROVE  /\ pc \in ExecutePcs
           /\ UNCHANGED <<latestDecisions, next>>
           /\ Current' = Current
           /\ sinceTrigger' = sinceTrigger \/ ClockTick
<1> USE DEF ExecutePcs
<1>1. CASE Environment \/ UNCHANGED vars
  BY <1>1 DEF Environment, Spawn, Exit, Alter, LoadChanges, Cancel, ClockTick, TickerFires,
              checkVars, latestVars, vars, Current
<1>2. CASE Select
  BY <1>2 DEF Select, Stop, PeriodicCheck, LoadCheck, LoadIgnored, Receive, StartCheck, checkVars
<1>3. CASE Collect \/ Publish \/ SkipDecision \/ FinishCheck \/ ExecuteReturns
  BY <1>3 DEF Collect, Publish, SkipDecision, FinishCheck, ExecuteReturns, NextDecision
<1>4. CASE PlainAction \/ NotifyDelivered \/ NotifyFails \/ BeginTerminate
  BY <1>4 DEF PlainAction, NotifyDelivered, NotifyFails, BeginTerminate, AtAction,
              latestVars, Current
<1>5. CASE Signalling
  BY <1>5 DEF Signalling, SigTerm, BeginGrace, GraceCancelled, GraceOver, SigKill,
              TerminateReturns, latestVars, Current
<1>6. QED
  BY <1>1, <1>2, <1>3, <1>4, <1>5 DEF Next, Check

LEMMA ActingIsCooledInit == Init => ActingIsCooled
  BY DEF Init, ActingIsCooled, ExecutePcs

LEMMA ActingIsCooledStep ==
    TypeInv /\ ActingIsCooled /\ [Next]_vars => ActingIsCooled'
<1> SUFFICES ASSUME TypeInv, ActingIsCooled, [Next]_vars, pc' \in ExecutePcs
             PROVE  (sinceTrigger[Current.policy])' = Cooldown
  BY DEF ActingIsCooled
<1> USE DEF ExecutePcs
<1>1. CASE BeginExecute
  <2>1. Current.policy \in PolicyNames
    BY <1>1, CurrentTyped DEF BeginExecute, TypeInv
  <2>2. sinceTrigger[Current.policy] \in 0..Cooldown
    BY <2>1 DEF TypeInv, TypeOK
  <2>3. sinceTrigger[Current.policy] = Cooldown
    BY <1>1, <2>2, DaemonAssumption DEF BeginExecute, IsOnCooldown
  <2>4. Current' = Current /\ sinceTrigger' = sinceTrigger
    BY <1>1 DEF BeginExecute, latestVars, Current
  <2>5. QED
    BY <2>3, <2>4
<1>2. CASE ~BeginExecute
  <2>1. /\ pc \in ExecutePcs
        /\ Current' = Current
        /\ sinceTrigger' = sinceTrigger \/ ClockTick
    BY <1>2, ExecuteFrame
  <2>2. sinceTrigger[Current.policy] = Cooldown /\ Current.policy \in PolicyNames
    BY <2>1, CurrentTyped DEF ActingIsCooled, TypeInv, LoopIndex
  <2>3. CASE ClockTick
    BY <2>1, <2>2, <2>3, DaemonAssumption DEF ClockTick, Older
  <2>4. QED
    BY <2>1, <2>2, <2>3
<1>3. QED
  BY <1>1, <1>2

\* The cooldowns change with the clock and when an execution ends.
LEMMA CooldownFrame ==
    ASSUME [Next]_vars, ~ClockTick, ~ExecuteReturns
    PROVE  sinceTrigger' = sinceTrigger
<1>1. CASE Environment \/ Select \/ UNCHANGED vars
  BY <1>1 DEF Environment, Spawn, Exit, Alter, LoadChanges, Cancel, TickerFires, Select, Stop,
              PeriodicCheck, LoadCheck, LoadIgnored, Receive, vars
<1>2. CASE Check
  BY <1>2 DEF Check, Collect, Publish, SkipDecision, BeginExecute, FinishCheck, PlainAction,
              NotifyDelivered, NotifyFails, BeginTerminate, Signalling, SigTerm, BeginGrace,
              GraceCancelled, GraceOver, SigKill, TerminateReturns
<1>3. QED
  BY <1>1, <1>2 DEF Next

\* Two triggers recorded for one policy are a cooldown apart, and a cooldown
\* that has begun runs out by the clock alone. (daemon.go:163-169 and 211)
THEOREM CooldownsRunOut == Spec => CooldownRunsOut
<1> DEFINE Out == \A p \in PolicyNames :
                     sinceTrigger'[p] # sinceTrigger[p] =>
                         \/ sinceTrigger'[p] = 0 /\ sinceTrigger[p] = Cooldown
                         \/ sinceTrigger'[p] = sinceTrigger[p] + 1
<1>1. Init => TypeInv /\ ActingIsCooled
  BY TypeInvInit, ActingIsCooledInit
<1>2. TypeInv /\ ActingIsCooled /\ [Next]_vars => (TypeInv /\ ActingIsCooled)'
  BY TypeInvStep, ActingIsCooledStep
<1>3. TypeInv /\ ActingIsCooled /\ [Next]_vars => [Out]_vars
  <2> SUFFICES ASSUME TypeInv, ActingIsCooled, [Next]_vars PROVE Out
    OBVIOUS
  <2>0. sinceTrigger \in [PolicyNames -> 0..Cooldown] /\ Cooldown \in Nat
    BY DaemonAssumption DEF TypeInv, TypeOK
  <2>1. CASE ClockTick
    BY <2>0, <2>1 DEF ClockTick, Older
  <2>2. CASE ExecuteReturns
    <3>1. sinceTrigger[Current.policy] = Cooldown
      BY <2>2 DEF ExecuteReturns, ActingIsCooled, ExecutePcs
    <3>2. \/ sinceTrigger' = sinceTrigger
          \/ sinceTrigger' = [sinceTrigger EXCEPT ![Current.policy] = 0]
      BY <2>2 DEF ExecuteReturns
    <3>3. QED
      BY <2>0, <3>1, <3>2
  <2>3. QED
    BY <2>1, <2>2, CooldownFrame
<1>4. QED
  BY <1>1, <1>2, <1>3, PTL DEF Spec, CooldownRunsOut

-----------------------------------------------------------------------------
(* Dry runs.                                                               *)

\* In a dry run every triggered decision is skipped: no process is asked to
\* exit, nobody is notified and no cooldown starts. (daemon.go:189-195)
THEOREM DryRunsAreInert == Spec => []DryRunIsInert
<1>1. Init => TypeInv /\ DryRunIsInert
  BY TypeInvInit DEF Init, DryRunIsInert, ExecutePcs
<1>2. TypeInv /\ DryRunIsInert /\ [Next]_vars => DryRunIsInert'
  <2> SUFFICES ASSUME TypeInv, DryRunIsInert, [Next]_vars, dryRun'
               PROVE  /\ termed' = {}
                      /\ pc' \notin ExecutePcs
                      /\ \A p \in PolicyNames : sinceNotify'[p] = Cooldown
                                                /\ sinceTrigger'[p] = Cooldown
    BY DEF DryRunIsInert
  <2>1. dryRun
    BY DEF Next, Environment, Spawn, Exit, Alter, LoadChanges, Cancel, ClockTick, TickerFires,
           Select, Stop, PeriodicCheck, LoadCheck, LoadIgnored, Receive, Check, Collect,
           Publish, SkipDecision, BeginExecute, FinishCheck, PlainAction, NotifyDelivered,
           NotifyFails, BeginTerminate, Signalling, SigTerm, BeginGrace, GraceCancelled,
           GraceOver, SigKill, TerminateReturns, ExecuteReturns, osVars, vars
  <2>2. /\ termed = {}
        /\ pc \notin ExecutePcs
        /\ \A p \in PolicyNames : sinceNotify[p] = Cooldown /\ sinceTrigger[p] = Cooldown
    BY <2>1 DEF DryRunIsInert
  <2>3. ~BeginExecute
    BY <2>1 DEF BeginExecute
  <2>4. pc' \notin ExecutePcs
    BY <2>2, <2>3, ExecuteFrame
  <2>5. CASE ClockTick
    BY <2>2, <2>4, <2>5, DaemonAssumption DEF ClockTick, Older
  <2>6. CASE ~ClockTick
    <3>1. ~Signalling /\ ~NotifyDelivered /\ ~ExecuteReturns
      BY <2>2 DEF Signalling, SigTerm, BeginGrace, GraceCancelled, GraceOver, SigKill,
                  TerminateReturns, NotifyDelivered, ExecuteReturns, AtAction, ExecutePcs
    <3>2. sinceTrigger' = sinceTrigger
      BY <2>6, <3>1, CooldownFrame
    <3>3. sinceNotify' = sinceNotify /\ termed' \subseteq termed
      BY <2>6, <3>1 DEF Next, Environment, Spawn, Exit, Alter, Forget, LoadChanges, Cancel,
         TickerFires, Select, Stop, PeriodicCheck, LoadCheck, LoadIgnored, Receive, Check,
         Collect, Publish, SkipDecision, BeginExecute, FinishCheck, PlainAction, NotifyFails,
         BeginTerminate, historyVars, vars
    <3>4. QED
      BY <2>2, <2>4, <3>2, <3>3
  <2>7. QED
    BY <2>5, <2>6
<1>3. TypeInv /\ [Next]_vars => TypeInv'
  BY TypeInvStep
<1>4. QED
  BY <1>1, <1>2, <1>3, PTL DEF Spec

-----------------------------------------------------------------------------
(* The refinement.                                                         *)

\* The part of the state that Enforcement sees.
Seen == <<table, listedAs, Acting, sinceTrigger, termed, termAge, Doomed>>

LEMMA PromiseInit == Init => Promise!Init
  BY DEF Init, Promise!Init, Acting, Doomed, ExecutePcs

\* The pids of a signal loop belong to the running check.
LEMMA TodoIsInFlight ==
    ASSUME TypeInv, SurvivorInv, pc = "sigkill"
    PROVE  todo \subseteq InFlight
<1>1. todo \subseteq latestDecisions[next].pids
  BY DEF SurvivorInv, TodoAreTargets, Current
<1>2. next \in next..Len(latestDecisions)
  BY DEF TypeInv, TypeOK, LoopIndex, ExecutePcs
<1>3. InFlight = UNION {latestDecisions[i].pids : i \in next..Len(latestDecisions)}
  BY DEF InFlight, ExecutePcs
<1>4. QED
  BY <1>1, <1>2, <1>3

\* A process that goes is no longer doomed, and nobody else is concerned.
LEMMA FreedIsNotDoomed ==
    ASSUME TypeInv, NEW pid \in Pids, table' = [table EXCEPT ![pid] = Free],
           pc' = pc, todo' = todo \/ todo' = todo \ {pid}
    PROVE  Doomed' = Doomed \ {pid}
<1>1. \A q \in Pids \ {pid} : Reachable(q)' <=> Reachable(q)
  BY DEF Reachable, TypeInv, TypeOK
<1>2. ~Reachable(pid)'
  BY DEF Reachable, TypeInv, TypeOK
<1>3. QED
  BY <1>1, <1>2 DEF Doomed, TypeInv, TypeOK

\* The environment's steps are those of Enforcement.
LEMMA PromiseEnvironment ==
    ASSUME TypeInv, SurvivorInv, ~ReuseTargets, Environment
    PROVE  [Promise!Next]_Seen
<1>0. pc' = pc /\ todo' = todo /\ UNCHANGED <<latestDecisions, next>>
  BY DEF Environment, Spawn, Exit, Alter, LoadChanges, Cancel, ClockTick, TickerFires, checkVars,
         latestVars
<1>1. Acting' = Acting
  BY <1>0 DEF Acting, Current
<1>2. ASSUME NEW pid \in Pids, NEW kind \in Kinds, Spawn(pid, kind)
      PROVE  Promise!Next
  <2>1. table[pid] = Free /\ table' = [table EXCEPT ![pid] = kind] /\ pid \notin InFlight
    BY <1>2 DEF Spawn
  <2>2. pc = "sigkill" => pid \notin todo
    BY <2>1, TodoIsInFlight
  <2>3. \A q \in Pids \ {pid} : Reachable(q)' <=> Reachable(q)
    BY <2>1 DEF Reachable, TypeInv, TypeOK
  <2>4. ~Reachable(pid)
    BY <2>1 DEF Reachable
  <2>5. Doomed' = Doomed \ {pid}
    BY <1>0, <2>2, <2>3, <2>4 DEF Doomed, TypeInv, TypeOK
  <2>6. Promise!Start(pid, kind)
    BY <1>1, <1>2, <2>5 DEF Spawn, Forget, Promise!Start, Promise!Becomes
  <2>7. QED
    BY <2>6 DEF Promise!Next
<1>3. ASSUME NEW pid \in Pids, Exit(pid)
      PROVE  Promise!Next
  <2>1. Doomed' = Doomed \ {pid}
    BY <1>0, <1>3, FreedIsNotDoomed DEF Exit
  <2>2. Promise!Exit(pid)
    BY <1>1, <1>3, <2>1 DEF Exit, Forget, Promise!Exit, Promise!Becomes
  <2>3. QED
    BY <2>2 DEF Promise!Next
<1>4. CASE ClockTick
  <2>1. Doomed' = Doomed
    BY <1>0, <1>4 DEF ClockTick, osVars, Doomed, Reachable
  <2>2. Promise!Tick
    BY <1>1, <1>4, <2>1 DEF ClockTick, Older, Promise!Tick, Promise!Elapse, osVars
  <2>3. QED
    BY <2>2 DEF Promise!Next
<1>5. CASE LoadChanges \/ Cancel \/ \E ticker \in {"periodic", "load"} : TickerFires(ticker)
  <2>1. UNCHANGED <<table, historyVars, sinceTrigger>>
    BY <1>5 DEF LoadChanges, Cancel, TickerFires
  <2>2. Doomed' = Doomed
    BY <1>0, <2>1 DEF Doomed, Reachable
  <2>3. QED
    BY <1>1, <2>1, <2>2 DEF historyVars, Seen
<1>6. ASSUME NEW pid \in Pids, NEW kind \in Kinds, Alter(pid, kind)
      PROVE  Promise!Next
  <2>1. \A q \in Pids : Reachable(q)' <=> Reachable(q)
    BY <1>6, AlterKeepsReach DEF TypeInv
  <2>2. Doomed' = Doomed
    BY <1>0, <2>1 DEF Doomed, TypeInv, TypeOK
  <2>3. Promise!Alter(pid, kind)
    BY <1>1, <1>6, <2>2 DEF Alter, Promise!Alter, historyVars
  <2>4. QED
    BY <2>3 DEF Promise!Next
<1>7. QED
  BY <1>2, <1>3, <1>4, <1>5, <1>6 DEF Environment

\* The listing of a check is Enforcement's look at the processes.
LEMMA PromiseCollect ==
    ASSUME TypeInv, Collect
    PROVE  Promise!Next
<1>1. /\ pc = "collect" /\ pc' = "evaluate"
      /\ UNCHANGED <<table, sinceTrigger, termed, termAge>>
      /\ listedAs' \in [Pids -> Kinds \cup {Free}]
      /\ \A pid \in Pids : listedAs'[pid] \in {table[pid], Free}
  BY DEF Collect, osVars, TypeInv, TypeOK
<1>2. Acting = {} /\ Acting' = {} /\ Doomed = {} /\ Doomed' = {}
  BY <1>1 DEF Acting, Doomed, ExecutePcs
<1>3. Promise!Look
  BY <1>1, <1>2 DEF Promise!Look
<1>4. QED
  BY <1>3 DEF Promise!Next

\* A signal is a warning or a kill that Enforcement allows, or reaches nobody.
LEMMA PromiseSignals ==
    ASSUME TypeInv, SurvivorInv, DescriptionInv, NEW pid \in Pids,
           SigTerm(pid) \/ SigKill(pid)
    PROVE  [Promise!Next]_Seen
<1> USE DEF ExecutePcs
<1>1. /\ pc \in {"sigterm", "sigkill"} /\ pid \in todo
      /\ pc' = pc
      /\ UNCHANGED <<latestDecisions, next, sinceTrigger>>
  BY DEF SigTerm, SigKill, latestVars
<1>2. Acting' = Acting /\ Acting = {Current.policy}
  BY <1>1 DEF Acting, Current
<1>3. CASE ~Reachable(pid)
  <2>1. UNCHANGED table /\ todo' = todo \ {pid}
    BY <1>3 DEF SigTerm, SigKill, osVars
  <2>2. Doomed' = Doomed
    BY <1>1, <1>3, <2>1 DEF Doomed, Reachable
  <2>3. QED
    BY <1>1, <1>2, <1>3, <2>2 DEF SigTerm, SigKill, Seen, osVars
<1>4. CASE Reachable(pid)
  <2>0. pid \in Current.pids
    BY <1>1 DEF SurvivorInv, TodoAreTargets
  <2>1. /\ Current.policy \in PolicyNames
        /\ DescribedBy(pid, Policies[Current.policy])
    BY <1>1, <1>4, <2>0, TargetsAreDescribed
  <2>2. listedAs[pid] \in Kinds
    BY <1>1, <1>4, <2>0, ListedAreKinds, TargetsAreDescribed
  <2>3. listedAs[pid] \in TargetKinds[Current.policy]
    BY <2>1, <2>2 DEF TargetKinds, DescribedBy
  <2>4. Promise!MayTouch(Current.policy, pid)
    BY <1>2, <2>3 DEF Promise!MayTouch
  <2>5. CASE SigTerm(pid)
    <3>0. Doomed' = Doomed
      BY <1>1, <2>5 DEF SigTerm, Doomed
    <3>1. Doomed = {}
      BY <2>5 DEF SigTerm, Doomed
    <3>2. Promise!Warn(Current.policy, pid)
      BY <1>1, <1>2, <1>4, <2>4, <2>5, <3>0, <3>1 DEF SigTerm, Promise!Warn, osVars
    <3>3. QED
      BY <2>1, <3>2 DEF Promise!Next
  <2>6. CASE SigKill(pid)
    <3>1. pc = "sigkill"
      BY <2>6 DEF SigKill
    <3>2. pid \in Doomed
      BY <1>1, <1>4, <3>1 DEF Doomed
    <3>3. Doomed' = Doomed \ {pid}
      BY <1>1, <1>4, <2>6, FreedIsNotDoomed DEF SigKill
    <3>4. Promise!Kill(pid)
      BY <1>1, <1>2, <1>4, <2>6, <3>2, <3>3
         DEF SigKill, Forget, Promise!Kill, Promise!Becomes
    <3>5. QED
      BY <2>1, <3>4 DEF Promise!Next
  <2>7. QED
    BY <2>5, <2>6
<1>5. QED
  BY <1>3, <1>4

\* Execute begins and ends as Enforcement's executions do.
LEMMA PromiseExecutions ==
    ASSUME TypeInv, ActingIsCooled, BeginExecute \/ ExecuteReturns
    PROVE  [Promise!Next]_Seen
<1> USE DEF ExecutePcs
<1>1. Current.policy \in PolicyNames
  BY CurrentTyped DEF BeginExecute, ExecuteReturns, TypeInv, LoopIndex
<1>2. CASE BeginExecute
  <2>1. sinceTrigger[Current.policy] \in 0..Cooldown
    BY <1>1 DEF TypeInv, TypeOK
  <2>2. sinceTrigger[Current.policy] = Cooldown
    BY <1>2, <2>1, DaemonAssumption DEF BeginExecute, IsOnCooldown
  <2>3. Acting = {} /\ Acting' = {Current.policy}
    BY <1>2 DEF BeginExecute, Acting, Current, latestVars
  <2>4. Doomed' = Doomed
    BY <1>2 DEF BeginExecute, Doomed
  <2>5. Promise!Begin(Current.policy)
    BY <1>2, <2>2, <2>3, <2>4 DEF BeginExecute, Promise!Begin, osVars, historyVars
  <2>6. QED
    BY <1>1, <2>5 DEF Promise!Next
<1>3. CASE ExecuteReturns
  <2>1. Acting = {Current.policy} /\ Acting' = {}
    BY <1>3 DEF ExecuteReturns, NextDecision, Acting
  <2>2. /\ sinceTrigger' \in {sinceTrigger, [sinceTrigger EXCEPT ![Current.policy] = 0]}
        /\ UNCHANGED <<table, listedAs, termed, termAge>>
    BY <1>3 DEF ExecuteReturns, osVars, historyVars
  <2>3. Doomed = {} /\ Doomed' = {}
    BY <1>3 DEF ExecuteReturns, NextDecision, Doomed
  <2>4. Promise!End(Current.policy)
    BY <2>1, <2>2, <2>3 DEF Promise!End
  <2>5. QED
    BY <1>1, <2>4 DEF Promise!Next
<1>4. QED
  BY <1>2, <1>3

\* When the grace period is over every target that is still there is doomed.
LEMMA PromiseGraceOver ==
    ASSUME TypeInv, SurvivorInv, DescriptionInv, GraceOver
    PROVE  [Promise!Next]_Seen
<1> USE DEF ExecutePcs
<1>1. /\ pc = "grace" /\ graceLeft = 0 /\ pc' = "sigkill" /\ todo' = Current.pids
      /\ UNCHANGED <<table, listedAs, latestDecisions, next, sinceTrigger, termed, termAge>>
  BY DEF GraceOver, osVars, latestVars, historyVars
<1>2. Acting = {Current.policy} /\ Acting' = Acting
  BY <1>1 DEF Acting, Current
<1>3. Doomed = {} /\ Doomed' = {pid \in Current.pids : Reachable(pid)}
  BY <1>1 DEF Doomed, Reachable
<1>4. Current.policy \in PolicyNames /\ Current.pids \subseteq Pids
  BY <1>1, CurrentTyped DEF TypeInv, LoopIndex
<1>5. ASSUME NEW pid \in Doomed'
      PROVE  /\ pid \in termed
             /\ termAge[pid] = GracePeriod
             /\ Promise!MayTouch(Current.policy, pid)
  <2>1. pid \in Current.pids /\ Reachable(pid) /\ pid \in Pids
    BY <1>3, <1>4, <1>5
  <2>2. pid \in termed /\ termAge[pid] + graceLeft >= GracePeriod
    BY <1>1, <2>1 DEF SurvivorInv, GraceIsServed
  <2>3. termAge[pid] = GracePeriod
    BY <1>1, <2>1, <2>2, DaemonAssumption DEF TypeInv, TypeOK
  <2>4. DescribedBy(pid, Policies[Current.policy])
    BY <1>1, <2>1, TargetsAreDescribed
  <2>5. listedAs[pid] \in Kinds
    BY <1>1, <2>1, ListedAreKinds, TargetsAreDescribed
  <2>6. listedAs[pid] \in TargetKinds[Current.policy]
    BY <1>4, <2>4, <2>5 DEF TargetKinds, DescribedBy
  <2>7. QED
    BY <1>2, <2>2, <2>3, <2>6 DEF Promise!MayTouch
<1>6. Promise!Doom(Current.policy)
  BY <1>1, <1>2, <1>3, <1>5 DEF Promise!Doom
<1>7. QED
  BY <1>4, <1>6 DEF Promise!Next

\* Every other step of the daemon is invisible to Enforcement.
LEMMA PromiseStutters ==
    ASSUME [Next]_vars, ~Environment, ~Collect, ~BeginExecute, ~ExecuteReturns, ~GraceOver,
           \A pid \in Pids : ~SigTerm(pid) /\ ~SigKill(pid)
    PROVE  UNCHANGED Seen
<1> USE DEF ExecutePcs
<1>1. UNCHANGED <<table, listedAs, sinceTrigger, termed, termAge>>
  BY DEF Next, Select, Stop, PeriodicCheck, LoadCheck, LoadIgnored, Receive, Check,
         Publish, SkipDecision, FinishCheck, PlainAction, NotifyDelivered,
         NotifyFails, BeginTerminate, Signalling, BeginGrace, GraceCancelled,
         TerminateReturns, osVars, historyVars, vars
<1>2. pc \in ExecutePcs => pc' \in ExecutePcs
  BY DEF Next, Select, Stop, PeriodicCheck, LoadCheck, LoadIgnored, Receive, Check,
         Publish, SkipDecision, FinishCheck, PlainAction, NotifyDelivered,
         NotifyFails, BeginTerminate, Signalling, BeginGrace, GraceCancelled,
         TerminateReturns, ActionReturns, AtAction, vars, checkVars
<1>3. (Doomed = {} /\ Doomed' = {}) \/ UNCHANGED <<pc, todo>>
  BY DEF Next, Select, Stop, PeriodicCheck, LoadCheck, LoadIgnored, Receive, Check,
         Publish, SkipDecision, FinishCheck, PlainAction, NotifyDelivered,
         NotifyFails, BeginTerminate, Signalling, BeginGrace, GraceCancelled,
         TerminateReturns, ActionReturns, NextDecision, StartCheck, AtAction, vars, checkVars,
         Doomed
<1>4. Doomed' = Doomed
  BY <1>1, <1>3 DEF Doomed, Reachable
<1>5. CASE pc' \in ExecutePcs
  <2>1. pc \in ExecutePcs /\ Current' = Current
    BY <1>5, ExecuteFrame
  <2>2. QED
    BY <1>1, <1>5, <1>4, <2>1 DEF Seen, Acting
<1>6. CASE pc' \notin ExecutePcs
  BY <1>1, <1>2, <1>6, <1>4 DEF Seen, Acting
<1>7. QED
  BY <1>5, <1>6

\* What makes the steps of the daemon steps of Enforcement.
PromiseInv == SnapshotDropped /\ SurvivorInv /\ DescriptionInv /\ ActingIsCooled

LEMMA PromiseInvInit == Init => PromiseInv
  BY SnapshotDroppedInit, SurvivorInvInit, DescriptionInvInit, ActingIsCooledInit DEF PromiseInv

LEMMA PromiseInvStep ==
    TypeInv /\ PromiseInv /\ ~ReuseTargets /\ [Next]_vars => PromiseInv'
  BY SnapshotDroppedStep, SurvivorInvStep, DescriptionInvStep, ActingIsCooledStep
     DEF PromiseInv

LEMMA PromiseStep ==
    ASSUME TypeInv, PromiseInv, ~ReuseTargets, [Next]_vars
    PROVE  [Promise!Next]_Seen
<1> USE DEF PromiseInv
<1>1. CASE Environment
  BY <1>1, PromiseEnvironment
<1>2. CASE \E pid \in Pids : SigTerm(pid) \/ SigKill(pid)
  BY <1>2, PromiseSignals
<1>3. CASE BeginExecute \/ ExecuteReturns
  BY <1>3, PromiseExecutions
<1>4. CASE GraceOver
  BY <1>4, PromiseGraceOver
<1>5. CASE Collect
  BY <1>5, PromiseCollect
<1>6. QED
  BY <1>1, <1>2, <1>3, <1>4, <1>5, PromiseStutters

\* The daemon implements Enforcement, as long as no pid under a running check
\* is given to a new process: policies act one at a time and a cooldown apart,
\* on processes they were written for when the check listed them, and kill only
\* who was warned and has had the grace period. (daemon.go:97-217,
\* executor.go:33-199)
THEOREM DaemonKeepsPromise == ~ReuseTargets => (Spec => Enforced)
<1> SUFFICES ASSUME ~ReuseTargets PROVE Spec => Enforced
  OBVIOUS
<1>1. Init => TypeInv /\ PromiseInv /\ Promise!Init
  BY TypeInvInit, PromiseInvInit, PromiseInit
<1>2. TypeInv /\ PromiseInv /\ [Next]_vars => (TypeInv /\ PromiseInv)'
  BY TypeInvStep, PromiseInvStep
<1>3. TypeInv /\ PromiseInv /\ [Next]_vars => [Promise!Next]_Seen
  BY PromiseStep
<1>4. [Promise!Next]_Seen => [Promise!Next]_(Promise!vars)
  BY DEF Seen, Promise!vars
<1>5. QED
  BY <1>1, <1>2, <1>3, <1>4, PTL DEF Spec, Enforced, Promise!Spec

-----------------------------------------------------------------------------
(* What the promise amounts to.                                            *)

\* The theorems about Enforcement for what the daemon takes for its state.
Kept == INSTANCE PromiseProofs WITH
    Targets <- TargetKinds,
    looked  <- listedAs,
    acting  <- Acting,
    since   <- sinceTrigger,
    warned  <- termed,
    age     <- termAge,
    doomed  <- Doomed,
    running <- TRUE

LEMMA KeptIsPromise ==
    /\ Promise!Init <=> Kept!Init
    /\ [Promise!Next]_(Promise!vars) <=> [Kept!Next]_(Kept!vars)
    /\ Promise!KillsAreDue <=> Kept!KillsAreDue
<1>1. ASSUME NEW pid \in Pids, NEW kind
      PROVE  Promise!Becomes(pid, kind) <=> Kept!Becomes(pid, kind)
  BY DEF Promise!Becomes, Kept!Becomes
<1>2. ASSUME NEW pid \in Pids
      PROVE  /\ \A kind \in Kinds : Promise!Start(pid, kind) <=> Kept!Start(pid, kind)
             /\ Promise!Exit(pid) <=> Kept!Exit(pid)
             /\ Promise!Kill(pid) <=> Kept!Kill(pid)
             /\ \A kind \in Kinds : Promise!Alter(pid, kind) <=> Kept!Alter(pid, kind)
  BY <1>1 DEF Promise!Start, Kept!Start, Promise!Exit, Kept!Exit, Promise!Kill, Kept!Kill,
              Promise!Alter, Kept!Alter
<1>3. (Promise!Tick <=> Kept!Tick) /\ (Promise!Look <=> Kept!Look)
  BY DEF Promise!Tick, Kept!Tick, Promise!Elapse, Kept!Elapse, Promise!Look, Kept!Look
<1>4. ASSUME NEW p \in PolicyNames
      PROVE  /\ Promise!Begin(p) <=> Kept!Begin(p)
             /\ Promise!Doom(p) <=> Kept!Doom(p)
             /\ Promise!End(p) <=> Kept!End(p)
             /\ \A pid \in Pids : Promise!Warn(p, pid) <=> Kept!Warn(p, pid)
  BY DEF Promise!Begin, Kept!Begin, Promise!Doom, Kept!Doom, Promise!End, Kept!End,
         Promise!Warn, Kept!Warn, Promise!MayTouch, Kept!MayTouch
<1>5. Promise!Next <=> Kept!Next
  BY <1>2, <1>3, <1>4 DEF Promise!Next, Kept!Next
<1>6. QED
  BY <1>5 DEF Promise!Init, Kept!Init, Promise!vars, Kept!vars,
              Promise!KillsAreDue, Kept!KillsAreDue

\* Whoever the SIGKILL loop has still to hit has been sent SIGTERM and has had the
\* whole grace period, and it is himself whom the check listed and the executing
\* policy describes as he was then, as long as no pid under a running check is
\* given to a new process. Whether he would still match nobody asks: a process
\* that has called exec since, or lost its parent, is killed with the others.
\* (executor.go:150-196)
THEOREM DaemonKillsWhenDue == ~ReuseTargets => (Spec => []Promise!KillsAreDue)
<1>1. GracePeriod \in Nat /\ Cooldown \in Nat
  BY DaemonAssumption
<1>2. Kept!Spec => []Kept!KillsAreDue
  BY <1>1, Kept!KillsAreAlwaysDue
<1>3. Enforced => []Promise!KillsAreDue
  BY <1>2, KeptIsPromise, PTL DEF Enforced, Promise!Spec, Kept!Spec
<1>4. QED
  BY <1>3, DaemonKeepsPromise

-----------------------------------------------------------------------------
(* The spacing of notifications.                                           *)

\* No error is left from one execution to the next.
CleanStart == pc \notin ExecutePcs => ~failed

LEMMA CleanStartInit == Init => CleanStart
  BY DEF Init, CleanStart

LEMMA CleanStartStep == CleanStart /\ [Next]_vars => CleanStart'
<1> SUFFICES ASSUME CleanStart, [Next]_vars, pc' \notin ExecutePcs PROVE ~failed'
  BY DEF CleanStart
<1> USE DEF CleanStart, ExecutePcs
<1>1. CASE Environment \/ UNCHANGED vars
  BY <1>1 DEF Environment, Spawn, Exit, Alter, LoadChanges, Cancel, ClockTick, TickerFires,
              checkVars, vars
<1>2. CASE Select
  BY <1>2 DEF Select, Stop, PeriodicCheck, LoadCheck, LoadIgnored, Receive, StartCheck, checkVars
<1>3. CASE Collect \/ Publish \/ SkipDecision \/ FinishCheck \/ ExecuteReturns
  BY <1>3 DEF Collect, Publish, SkipDecision, FinishCheck, ExecuteReturns, NextDecision
<1>4. CASE BeginExecute \/ PlainAction \/ NotifyDelivered \/ NotifyFails \/ BeginTerminate
  BY <1>4 DEF BeginExecute, PlainAction, NotifyDelivered, NotifyFails, BeginTerminate,
              AtAction, ActionReturns
<1>5. CASE Signalling
  BY <1>5 DEF Signalling, SigTerm, BeginGrace, GraceCancelled, GraceOver, SigKill,
              TerminateReturns, ActionReturns
<1>6. QED
  BY <1>1, <1>2, <1>3, <1>4, <1>5 DEF Next, Check

\* The policies that are not executed keep their spacing if no clock moves.
LEMMA SpacedAside ==
    ASSUME NEW p \in PolicyNames, Spaced(p), ~Executing(p), ~Executing(p)',
           sinceTrigger'[p] = sinceTrigger[p], sinceNotify'[p] = sinceNotify[p]
    PROVE  Spaced(p)'
  BY DEF Spaced

\* An action other than the one that notifies keeps the spacing of the policy
\* that is executed, if it does not fail.
LEMMA SpacedInside ==
    ASSUME TypeInv, NEW p \in PolicyNames, Spaced(p), Executing(p), Executing(p)',
           Current' = Current, failed' = failed, step' \in {step, step + 1},
           sinceNotify'[p] = sinceNotify[p]
    PROVE  Spaced(p)'
<1>1. step \in Nat /\ Actions' = Actions
  BY DEF TypeInv, TypeOK, Actions
<1>2. NotifyPending' => NotifyPending
  BY <1>1 DEF NotifyPending
<1>3. QED
  BY <1>2 DEF Spaced

\* The actions of a reliable policy that notifies.
LEMMA ReliableActions ==
    ASSUME TypeInv, ReliableNotifiers, pc = "execute", step <= Len(Actions),
           Notifies(Current.policy)
    PROVE  /\ step \in 1..Len(Actions)
           /\ Actions[step] \in KnownActions
           /\ Actions[step] = "diagnose" => "diagnose" \notin FailingActions
           /\ Actions[step] = "notify" => \A i \in (step + 1)..Len(Actions) : Actions[i] # "notify"
<1>1. Current.policy \in PolicyNames /\ Len(Actions) \in Nat
  BY CurrentTyped DEF TypeInv, LoopIndex, ExecutePcs
<1>2. step \in 1..Len(Actions)
  BY <1>1 DEF TypeInv, TypeOK
<1>3. Actions = Policies[Current.policy].actions /\ Actions \in Seq(STRING)
  BY <1>1, DaemonAssumption DEF Actions
<1>4. DOMAIN Actions = 1..Len(Actions)
  BY <1>3
<1>5. /\ \A i \in DOMAIN Actions :
            /\ Actions[i] \in KnownActions
            /\ Actions[i] = "diagnose" => "diagnose" \notin FailingActions
      /\ \A i, j \in DOMAIN Actions : Actions[i] = "notify" /\ Actions[j] = "notify" => i = j
  BY <1>1, <1>3 DEF ReliableNotifiers
<1>6. \A i \in (step + 1)..Len(Actions) : i \in DOMAIN Actions /\ i # step
  BY <1>2, <1>4
<1>7. QED
  BY <1>2, <1>4, <1>5, <1>6

LEMMA CooldownInvInit == Init => CooldownInv
<1> SUFFICES ASSUME Init, NEW p \in PolicyNames PROVE Spaced(p)
  BY DEF CooldownInv
<1>1. ~Executing(p)
  BY DEF Init, Executing, ExecutePcs
<1>2. sinceTrigger[p] = Cooldown /\ sinceNotify[p] = Cooldown
  BY DEF Init
<1>3. QED
  BY <1>1, <1>2, DaemonAssumption DEF Spaced

LEMMA CooldownInvStep ==
    TypeInv /\ ActingIsCooled /\ CleanStart /\ CooldownInv /\ ReliableNotifiers /\ [Next]_vars
        => CooldownInv'
<1> SUFFICES ASSUME TypeInv, ActingIsCooled, CleanStart, CooldownInv, ReliableNotifiers,
                    [Next]_vars, ~ctxDone', NEW p \in PolicyNames, Notifies(p)
             PROVE  Spaced(p)'
  BY DEF CooldownInv, Notifies
<1> USE DEF ExecutePcs
<1>1. ~ctxDone
  BY DEF Next, Environment, Spawn, Exit, Alter, LoadChanges, Cancel, ClockTick, TickerFires,
         Select, Stop, PeriodicCheck, LoadCheck, LoadIgnored, Receive, Check, Collect,
         Publish, SkipDecision, BeginExecute, FinishCheck, PlainAction, NotifyDelivered,
         NotifyFails, BeginTerminate, Signalling, SigTerm, BeginGrace, GraceCancelled,
         GraceOver, SigKill, TerminateReturns, ExecuteReturns, osVars, vars
<1>2. Spaced(p)
  BY <1>1 DEF CooldownInv
<1>3. /\ sinceTrigger[p] \in 0..Cooldown /\ sinceNotify[p] \in 0..Cooldown
      /\ sinceTrigger \in [PolicyNames -> 0..Cooldown]
      /\ sinceNotify \in [PolicyNames -> 0..Cooldown]
      /\ Cooldown \in Nat
  BY DaemonAssumption DEF TypeInv, TypeOK
<1>4. CASE ClockTick
  <2>1. /\ Executing(p)' = Executing(p)
        /\ failed' = failed
        /\ NotifyPending' = NotifyPending
    BY <1>4 DEF ClockTick, latestVars, Executing, Current, NotifyPending, Actions
  <2>2. /\ sinceTrigger'[p] = Older(sinceTrigger[p], Cooldown)
        /\ sinceNotify'[p] = Older(sinceNotify[p], Cooldown)
    BY <1>4 DEF ClockTick
  <2>3. QED
    BY <1>2, <1>3, <2>1, <2>2 DEF Spaced, Older
<1>5. CASE BeginExecute
  <2>1. /\ pc = "decide" /\ pc' = "execute"
        /\ Current' = Current
        /\ UNCHANGED <<failed, sinceTrigger, sinceNotify>>
        /\ sinceTrigger[Current.policy] >= Cooldown \/ Current.policy # p
    BY <1>3, <1>5 DEF BeginExecute, IsOnCooldown, latestVars, historyVars, Current
  <2>2. ~failed /\ ~Executing(p)
    BY <2>1 DEF CleanStart, Executing
  <2>3. CASE Current.policy = p
    <3>1. sinceNotify[p] = Cooldown
      BY <1>2, <1>3, <2>1, <2>2, <2>3 DEF Spaced
    <3>2. Executing(p)' /\ ~failed' /\ sinceNotify'[p] = Cooldown
      BY <2>1, <2>2, <2>3, <3>1 DEF Executing
    <3>3. QED
      BY <3>2 DEF Spaced
  <2>4. CASE Current.policy # p
    <3>1. ~Executing(p)'
      BY <2>1, <2>4 DEF Executing
    <3>2. QED
      BY <1>2, <2>1, <2>2, <3>1, SpacedAside
  <2>5. QED
    BY <2>3, <2>4
<1>6. CASE ExecuteReturns
  <2>1. pc = "execute" /\ pc' = "decide" /\ sinceNotify' = sinceNotify
    BY <1>6 DEF ExecuteReturns, NextDecision, historyVars
  <2>2. ~Executing(p)'
    BY <2>1 DEF Executing
  <2>3. CASE Current.policy = p /\ failed
    <3>1. sinceNotify[p] = Cooldown /\ sinceTrigger' = sinceTrigger
      BY <1>2, <1>6, <2>1, <2>3 DEF ExecuteReturns, Executing, Spaced
    <3>2. QED
      BY <1>3, <2>1, <2>2, <3>1 DEF Spaced
  <2>4. CASE Current.policy = p /\ ~failed
    <3>1. sinceTrigger'[p] = 0
      BY <1>3, <1>6, <2>4 DEF ExecuteReturns
    <3>2. QED
      BY <1>3, <2>1, <2>2, <3>1 DEF Spaced
  <2>5. CASE Current.policy # p
    <3>1. ~Executing(p) /\ sinceTrigger'[p] = sinceTrigger[p]
      BY <1>3, <1>6, <2>5 DEF Executing, ExecuteReturns
    <3>2. QED
      BY <1>2, <2>1, <2>2, <3>1, SpacedAside
  <2>6. QED
    BY <2>3, <2>4, <2>5
<1>7. CASE ~ClockTick /\ ~BeginExecute /\ ~ExecuteReturns /\ pc' \notin ExecutePcs
  <2>1. pc \notin ExecutePcs
    BY <1>7 DEF Next, Environment, Spawn, Exit, Alter, LoadChanges, Cancel, TickerFires, Select,
       Stop, PeriodicCheck, LoadCheck, LoadIgnored, Receive, Check, Collect, Publish,
       SkipDecision, FinishCheck, PlainAction, NotifyDelivered, NotifyFails, BeginTerminate,
       Signalling, SigTerm, BeginGrace, GraceCancelled, GraceOver, SigKill,
       TerminateReturns, ActionReturns, AtAction, checkVars, vars
  <2>2. sinceNotify' = sinceNotify
    BY <1>7, <2>1 DEF Next, Environment, Spawn, Exit, Alter, LoadChanges, Cancel, TickerFires,
       Select, Stop, PeriodicCheck, LoadCheck, LoadIgnored, Receive, Check, Collect,
       Publish, SkipDecision, FinishCheck, PlainAction, NotifyDelivered, NotifyFails,
       BeginTerminate, Signalling, SigTerm, BeginGrace, GraceCancelled, GraceOver, SigKill,
       TerminateReturns, AtAction, historyVars, vars
  <2>3. sinceTrigger' = sinceTrigger
    BY <1>7, CooldownFrame
  <2>4. QED
    BY <1>2, <1>7, <2>1, <2>2, <2>3, SpacedAside DEF Executing
<1>8. CASE ~ClockTick /\ ~BeginExecute /\ ~ExecuteReturns /\ pc' \in ExecutePcs
  <2>1. /\ pc \in ExecutePcs
        /\ Current' = Current
        /\ Executing(p)' = Executing(p)
        /\ sinceTrigger' = sinceTrigger
    BY <1>8, ExecuteFrame DEF Executing
  <2>2. CASE NotifyDelivered \/ NotifyFails
    <3>1. /\ pc = "execute" /\ step <= Len(Actions) /\ Actions[step] = "notify"
          /\ step' = step + 1
      BY <2>2 DEF NotifyDelivered, NotifyFails, AtAction, ActionReturns
    <3>2. CASE Current.policy = p
      <4>1. /\ step \in 1..Len(Actions)
            /\ \A i \in (step + 1)..Len(Actions) : Actions[i] # "notify"
        BY <3>1, <3>2, ReliableActions
      <4>2. ~NotifyPending'
        BY <2>1, <3>1, <4>1 DEF NotifyPending, Actions
      <4>3. NotifyPending
        BY <3>1, <4>1 DEF NotifyPending
      <4>4. Executing(p) /\ Executing(p)'
        BY <2>1, <3>2 DEF Executing
      <4>5. ~failed /\ sinceNotify[p] = Cooldown
        BY <1>2, <4>3, <4>4 DEF Spaced
      <4>6. failed' => sinceNotify'[p] = Cooldown
        BY <2>2, <4>5 DEF NotifyDelivered, NotifyFails, ActionReturns, historyVars
      <4>7. QED
        BY <4>2, <4>4, <4>6 DEF Spaced
    <3>3. CASE Current.policy # p
      <4>1. ~Executing(p) /\ ~Executing(p)'
        BY <2>1, <3>3 DEF Executing
      <4>2. sinceNotify'[p] = sinceNotify[p]
        BY <1>3, <2>2, <3>3 DEF NotifyDelivered, NotifyFails, historyVars
      <4>3. QED
        BY <1>2, <2>1, <4>1, <4>2, SpacedAside
    <3>4. QED
      BY <3>2, <3>3
  <2>3. CASE ~NotifyDelivered /\ ~NotifyFails
    <3>1. sinceNotify' = sinceNotify
      BY <1>8, <2>1, <2>3 DEF Next, Environment, Spawn, Exit, Alter, LoadChanges, Cancel,
         TickerFires, Select, Stop, PeriodicCheck, LoadCheck, LoadIgnored, Receive, Check,
         Collect, Publish, SkipDecision, FinishCheck, PlainAction, BeginTerminate,
         Signalling, SigTerm, BeginGrace, GraceCancelled, GraceOver, SigKill,
         TerminateReturns, historyVars, vars
    <3>2. CASE Current.policy = p
      <4>1. Executing(p) /\ Executing(p)'
        BY <2>1, <3>2 DEF Executing
      <4>2. failed' = failed /\ step' \in {step, step + 1}
        <5>1. CASE PlainAction
          <6>1. /\ pc = "execute" /\ step <= Len(Actions)
                /\ Actions[step] \in KnownActions
                /\ Actions[step] = "diagnose" => "diagnose" \notin FailingActions
            BY <3>2, <5>1, ReliableActions DEF PlainAction, AtAction
          <6>2. failed \in BOOLEAN
            BY DEF TypeInv, TypeOK
          <6>3. QED
            BY <5>1, <6>1, <6>2 DEF PlainAction, AtAction, ActionReturns
        <5>2. CASE BeginTerminate \/ TerminateReturns
          BY <5>2 DEF BeginTerminate, TerminateReturns, ActionReturns, TypeInv, TypeOK
        <5>3. CASE \/ BeginGrace \/ GraceOver
                   \/ \E pid \in Pids : SigTerm(pid) \/ SigKill(pid)
          BY <5>3 DEF BeginGrace, GraceOver, SigTerm, SigKill
        <5>4. CASE Environment \/ UNCHANGED vars
          BY <5>4 DEF Environment, Spawn, Exit, Alter, LoadChanges, Cancel, ClockTick, TickerFires,
                      checkVars, vars
        <5>5. ~GraceCancelled /\ ~Select /\ ~Collect /\ ~Publish /\ ~SkipDecision /\ ~FinishCheck
          BY <1>1, <2>1 DEF GraceCancelled, Select, Stop, PeriodicCheck, LoadCheck,
             LoadIgnored, Receive, Collect, Publish, SkipDecision, FinishCheck
        <5>6. QED
          BY <1>8, <2>3, <5>1, <5>2, <5>3, <5>4, <5>5 DEF Next, Check, Signalling
      <4>3. QED
        BY <1>2, <2>1, <3>1, <4>1, <4>2, SpacedInside
    <3>3. CASE Current.policy # p
      <4>1. ~Executing(p) /\ ~Executing(p)'
        BY <2>1, <3>3 DEF Executing
      <4>2. QED
        BY <1>2, <2>1, <3>1, <4>1, SpacedAside
    <3>4. QED
      BY <3>2, <3>3
  <2>4. QED
    BY <2>2, <2>3
<1>9. QED
  BY <1>4, <1>5, <1>6, <1>7, <1>8

\* If every policy that notifies does so once and its other actions cannot
\* fail, its trigger is never older than its last notification.
\* (daemon.go:163-211)
THEOREM TriggersFollowNotifications == ReliableNotifiers => (Spec => []CooldownInv)
<1> SUFFICES ASSUME ReliableNotifiers PROVE Spec => []CooldownInv
  OBVIOUS
<1> DEFINE Inv == TypeInv /\ ActingIsCooled /\ CleanStart /\ CooldownInv
<1>1. Init => Inv
  BY TypeInvInit, ActingIsCooledInit, CleanStartInit, CooldownInvInit
<1>2. Inv /\ [Next]_vars => Inv'
  BY TypeInvStep, ActingIsCooledStep, CleanStartStep, CooldownInvStep
<1>3. QED
  BY <1>1, <1>2, PTL DEF Spec

\* If every policy that notifies does so once and its other actions cannot
\* fail, two of its notifications are a cooldown apart until shutdown.
\* (daemon.go:163-169 and 211; config.go:62)
THEOREM NotificationsAreSpaced == ReliableNotifiers => (Spec => []NotifySpacing)
<1> SUFFICES ASSUME ReliableNotifiers PROVE Spec => []NotifySpacing
  OBVIOUS
<1> DEFINE Inv == TypeInv /\ CooldownInv
<1>1. Spec => []CooldownInv
  BY TriggersFollowNotifications
<1>2. Spec => []TypeInv
  BY TypeInvInit, TypeInvStep, PTL DEF Spec
<1>3. Inv => NotifySpacing
  <2> SUFFICES ASSUME Inv, AtAction("notify"), ~ctxDone
               PROVE  sinceNotify[Current.policy] = Cooldown
    BY DEF NotifySpacing
  <2> USE DEF ExecutePcs
  <2>1. pc = "execute" /\ step <= Len(Actions) /\ Actions[step] = "notify"
    BY DEF AtAction
  <2>2. Current.policy \in PolicyNames /\ Len(Actions) \in Nat
    BY <2>1, CurrentTyped DEF TypeInv, LoopIndex
  <2>3. step \in 1..Len(Actions)
    BY <2>1, <2>2 DEF TypeInv, TypeOK
  <2>4. Actions = Policies[Current.policy].actions /\ Actions \in Seq(STRING)
    BY <2>2, DaemonAssumption DEF Actions
  <2>5. Notifies(Current.policy) /\ NotifyPending
    BY <2>1, <2>3, <2>4 DEF Notifies, NotifyPending
  <2>6. Spaced(Current.policy) /\ Executing(Current.policy)
    BY <2>1, <2>2, <2>5 DEF CooldownInv, Executing
  <2>7. QED
    BY <2>5, <2>6 DEF Spaced
<1>4. QED
  BY <1>1, <1>2, <1>3, PTL
=============================================================================
