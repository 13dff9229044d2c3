---------------------------- MODULE PromiseProofs ----------------------------
(***************************************************************************)
(* What the abstract specifications amount to, whatever implements them:   *)
(* that a process is warned, and has the grace period, before it is killed *)
(* is written into no action of Enforcement but follows from how warnings, *)
(* kills and the processes that come and go are put together.              *)
(***************************************************************************)
EXTENDS Lifetime, TLAPS

Promised == TypeOK /\ KillsAreDue

LEMMA PromisedInit ==
    ASSUME GracePeriod \in Nat, Cooldown \in Nat, Init
    PROVE  Promised
  BY DEF Init, Promised, TypeOK, KillsAreDue

\* A clock stays within its bound, and there it stops.
LEMMA ElapseStops ==
    ASSUME NEW bound \in Nat, NEW clock \in 0..bound
    PROVE  Elapse(clock, bound) \in 0..bound /\ Elapse(bound, bound) = bound
  BY DEF Elapse

\* Whoever replaces a process that is being killed is not doomed, and the
\* others are as they were.
LEMMA BecomesKeeps ==
    ASSUME Promised, GracePeriod \in Nat,
           NEW pid \in Pids, NEW kind \in Kinds \cup {Free}, Becomes(pid, kind),
           UNCHANGED <<acting, since>>
    PROVE  Promised'
<1> USE DEF Promised, TypeOK, Becomes
<1>1. TypeOK'
  OBVIOUS
<1>2. ASSUME NEW q \in doomed'
      PROVE  /\ q \in warned' /\ age'[q] = GracePeriod
             /\ \E p \in acting' : looked'[q] \in Targets[p]
  <2>1. q \in doomed /\ q \in Pids \ {pid}
    BY <1>2
  <2>2. age'[q] = age[q] /\ looked'[q] = looked[q]
    BY <2>1
  <2>3. QED
    BY <2>1, <2>2 DEF KillsAreDue
<1>3. QED
  BY <1>1, <1>2 DEF KillsAreDue

\* What a process turns into is not looked at.
LEMMA AlterKeeps ==
    ASSUME Promised, NEW pid \in Pids, NEW kind \in Kinds, Alter(pid, kind)
    PROVE  Promised'
  BY DEF Alter, Promised, TypeOK, KillsAreDue

\* The program looks when it kills nobody.
LEMMA LookKeeps ==
    ASSUME Promised, Look
    PROVE  Promised'
<1>1. doomed = {}
  BY DEF Look, Promised, KillsAreDue
<1>2. QED
  BY <1>1 DEF Look, Promised, TypeOK, KillsAreDue

\* Time does not take the grace period back.
LEMMA TickKeeps ==
    ASSUME Promised, GracePeriod \in Nat, Cooldown \in Nat, Tick
    PROVE  Promised'
<1> USE DEF Promised, TypeOK
<1>1. \A pid \in Pids : age'[pid] \in 0..GracePeriod
  BY ElapseStops DEF Tick
<1>2. \A p \in PolicyNames : since'[p] \in 0..Cooldown
  BY ElapseStops DEF Tick
<1>3. TypeOK'
  BY <1>1, <1>2 DEF Tick
<1>4. \A pid \in doomed : age'[pid] = GracePeriod
  BY ElapseStops DEF Tick, KillsAreDue
<1>5. KillsAreDue'
  BY <1>4 DEF Tick, KillsAreDue
<1>6. QED
  BY <1>3, <1>5

LEMMA WorldKeeps ==
    ASSUME Promised, GracePeriod \in Nat, Cooldown \in Nat, World
    PROVE  Promised'
<1>1. ASSUME NEW pid \in Pids, NEW kind \in Kinds, Start(pid, kind)
      PROVE  Promised'
  BY <1>1, BecomesKeeps DEF Start
<1>2. ASSUME NEW pid \in Pids, Exit(pid)
      PROVE  Promised'
  BY <1>2, BecomesKeeps DEF Exit
<1>3. QED
  BY <1>1, <1>2, AlterKeeps, TickKeeps DEF World

\* A policy does not stop acting, nor is anybody warned anew, while a kill is
\* under way.
LEMMA PoliciesKeep ==
    ASSUME Promised, GracePeriod \in Nat, Cooldown \in Nat, NEW p \in PolicyNames,
           \/ Begin(p) \/ Doom(p) \/ End(p)
           \/ \E pid \in Pids : Warn(p, pid)
    PROVE  Promised'
<1> USE DEF Promised, TypeOK
<1>1. CASE Begin(p)
  <2>1. doomed' = {}
    BY <1>1 DEF Begin, KillsAreDue
  <2>2. QED
    BY <1>1, <2>1 DEF Begin, KillsAreDue
<1>2. CASE Doom(p)
  BY <1>2 DEF Doom, MayTouch, KillsAreDue
<1>3. CASE End(p)
  <2>1. [since EXCEPT ![p] = 0] \in [PolicyNames -> 0..Cooldown]
    OBVIOUS
  <2>2. QED
    BY <1>3, <2>1 DEF End, KillsAreDue
<1>4. ASSUME NEW pid \in Pids, Warn(p, pid)
      PROVE  Promised'
  BY <1>4 DEF Warn, KillsAreDue
<1>5. QED
  BY <1>1, <1>2, <1>3, <1>4

LEMMA PromisedStep ==
    ASSUME Promised, GracePeriod \in Nat, Cooldown \in Nat, [Next]_vars
    PROVE  Promised'
<1>1. ASSUME NEW pid \in Pids, Kill(pid)
      PROVE  Promised'
  BY <1>1, BecomesKeeps DEF Kill
<1>2. CASE UNCHANGED vars
  BY <1>2 DEF vars, Promised, TypeOK, KillsAreDue
<1>3. CASE World
  BY <1>3, WorldKeeps
<1>4. CASE \E p \in PolicyNames : \/ Begin(p) \/ Doom(p) \/ End(p)
                                  \/ \E pid \in Pids : Warn(p, pid)
  BY <1>4, PoliciesKeep
<1>5. QED
  BY <1>1, <1>2, <1>3, <1>4, LookKeeps DEF Next, World

\* Enforcement promises what it is written for: nobody is killed who was not
\* warned, or before his time is up, or for a policy that was not written for
\* what he was when the program saw him.
\* (executor.go:150-196)
THEOREM KillsAreAlwaysDue ==
    GracePeriod \in Nat /\ Cooldown \in Nat => (Spec => []KillsAreDue)
<1> SUFFICES ASSUME GracePeriod \in Nat, Cooldown \in Nat PROVE Spec => []KillsAreDue
  OBVIOUS
<1>1. Init => Promised
  BY PromisedInit
<1>2. Promised /\ [Next]_vars => Promised'
  BY PromisedStep
<1>3. Promised => KillsAreDue
  BY DEF Promised
<1>4. QED
  BY <1>1, <1>2, <1>3, PTL DEF Spec

-----------------------------------------------------------------------------
(* Over the whole life of the program.                                     *)

\* While the program is down only processes and clocks move, and no clock of a
\* process runs.
LEMMA DownIsIdleStep ==
    ASSUME DownIsIdle, [LifeNext]_lifeVars
    PROVE  DownIsIdle'
<1>1. ASSUME World, UNCHANGED running
      PROVE  DownIsIdle'
  BY <1>1 DEF DownIsIdle, World, Start, Exit, Alter, Becomes, Tick
<1>2. QED
  BY <1>1 DEF DownIsIdle, LifeNext, Stop, Restart, lifeVars, vars

LEMMA LifeKeeps ==
    ASSUME Promised, GracePeriod \in Nat, Cooldown \in Nat, [LifeNext]_lifeVars
    PROVE  Promised'
<1>1. CASE Stop
  BY <1>1 DEF Stop, Promised, TypeOK, KillsAreDue
<1>2. CASE Restart \/ UNCHANGED lifeVars
  <2>1. UNCHANGED vars
    BY <1>2 DEF Restart, lifeVars
  <2>2. QED
    BY <2>1, PromisedStep
<1>3. QED
  BY <1>1, <1>2, PromisedStep, WorldKeeps DEF LifeNext

\* The same over all stops and restarts, and a program that is down, or going
\* there, does nothing to anybody and owes nobody a kill: a warning given by
\* one run is worth nothing in the next. (daemon.go:82-95, app.go:74-80)
THEOREM KillsAreDueForLife ==
    GracePeriod \in Nat /\ Cooldown \in Nat => (LifeSpec => [](KillsAreDue /\ DownIsIdle))
<1> SUFFICES ASSUME GracePeriod \in Nat, Cooldown \in Nat
             PROVE  LifeSpec => [](KillsAreDue /\ DownIsIdle)
  OBVIOUS
<1>1. LifeInit => Promised /\ DownIsIdle
  BY PromisedInit DEF LifeInit, DownIsIdle
<1>2. Promised /\ DownIsIdle /\ [LifeNext]_lifeVars => (Promised /\ DownIsIdle)'
  BY LifeKeeps, DownIsIdleStep
<1>3. Promised => KillsAreDue
  BY DEF Promised
<1>4. QED
  BY <1>1, <1>2, <1>3, PTL DEF LifeSpec
=============================================================================
