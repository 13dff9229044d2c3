------------------------------- MODULE Engine -------------------------------
(***************************************************************************)
(* The policy engine (internal/policy/engine.go, convert.go) and the part  *)
(* of the collector that builds the snapshot it reads                      *)
(* (internal/collector/collector.go), as operators on plain data.          *)
(*                                                                         *)
(* A policy is a record                                                    *)
(*   [process, maxCount, actions, priority, enabled,                       *)
(*    parent, exclude, minLoad1, minLoad5]                                 *)
(* where a missing `conditions' table is parent = NoName, exclude = {} and *)
(* both loads 0, which the code treats alike.  A snapshot is a record      *)
(* [procs, load1, load5] where procs is a set of [pid, name, parent].      *)
(* Loads are integers, in thousandths, so that the truncation to           *)
(* hundredths that Cedar needs is visible.  Reasons and log lines are      *)
(* left out.                                                               *)
(***************************************************************************)
EXTENDS Integers, FiniteSets, Sequences

NoName == ""

-----------------------------------------------------------------------------
(* The collector's indices.                                                *)

\* Parent names are looked up among the processes of the same snapshot: a
\* process whose parent was not listed keeps the empty name.
ParentName(raw, p) ==
    IF \E q \in raw : q.pid = p.ppid
    THEN (CHOOSE q \in raw : q.pid = p.ppid).name
    ELSE NoName

\* Mutant of ResolveParents: the parent's pid is indexed instead of the process's.
ResolveParentsSwapped(raw) ==
    {[pid |-> p.ppid, name |-> p.name, parent |-> ParentName(raw, p)] : p \in raw}

\* What Snapshot.ByName holds once the index has been rebuilt with the names
\* of the parents.
ResolveParents(raw) ==
    {[pid |-> p.pid, name |-> p.name, parent |-> ParentName(raw, p)] : p \in raw}

-----------------------------------------------------------------------------
(* The thresholds that the Go code checks.                                 *)

\* Mutant of Matching: exclude_parents is not applied.
MatchingAnyParent(policy, procs) ==
    {p \in procs :
        /\ p.name = policy.process
        /\ policy.parent # NoName => p.parent = policy.parent}

Matching(policy, procs) ==
    {p \in procs :
        /\ p.name = policy.process
        /\ policy.parent # NoName => p.parent = policy.parent
        /\ p.parent \notin policy.exclude}

LoadReached(load, min) == min > 0 => load >= min

Thresholds(policy, snap) ==
    /\ Cardinality(Matching(policy, snap.procs)) >= policy.maxCount
    /\ LoadReached(snap.load1, policy.minLoad1)
    /\ LoadReached(snap.load5, policy.minLoad5)

-----------------------------------------------------------------------------
(* The Cedar policy set.  A permit names the resource it covers and the    *)
(* lower bounds its when clause puts on the attributes of the context; the *)
(* process_name condition repeats the resource and is folded into it.      *)

AnyResource == "*"

\* int64(load * 100)
Hundredths(load) == load \div 10

Bound(attr, min) == [attr |-> attr, min |-> min]

\* Mutant of GeneratedPermit: the thresholds are rounded up, the loads down.
GeneratedPermitCeil(policy) ==
    [resource |-> policy.process,
     when |-> {Bound("process_count", policy.maxCount)}
              \cup {b \in {Bound("load1", Hundredths(policy.minLoad1 + 9))} :
                        policy.minLoad1 > 0}
              \cup {b \in {Bound("load5", Hundredths(policy.minLoad5 + 9))} :
                        policy.minLoad5 > 0}]

GeneratedPermit(policy) ==
    [resource |-> policy.process,
     when |-> {Bound("process_count", policy.maxCount)}
              \cup {b \in {Bound("load1", Hundredths(policy.minLoad1))} :
                        policy.minLoad1 > 0}
              \cup {b \in {Bound("load5", Hundredths(policy.minLoad5))} :
                        policy.minLoad5 > 0}]

DefaultPermit == [resource |-> AnyResource, when |-> {}]

EnabledNames(policies) == {n \in DOMAIN policies : policies[n].enabled}

PolicySet(policies) ==
    {GeneratedPermit(policies[n]) : n \in EnabledNames(policies)}
    \cup {DefaultPermit}

CedarRequest(policy, snap) ==
    [resource |-> policy.process,
     context  |-> [process_count |-> Cardinality(Matching(policy, snap.procs)),
                   load1         |-> Hundredths(snap.load1),
                   load5         |-> Hundredths(snap.load5)]]

Satisfied(permit, request) ==
    /\ permit.resource \in {AnyResource, request.resource}
    /\ \A b \in permit.when : request.context[b.attr] >= b.min

\* cedar-go: with no forbid policy, one satisfied permit allows the request.
IsAuthorized(permits, request) ==
    \E permit \in permits : Satisfied(permit, request)

-----------------------------------------------------------------------------
(* Evaluation.                                                             *)

\* PIDs are filled in only for a policy that triggers.
EvaluatePolicy(policies, n, snap) ==
    LET policy    == policies[n]
        triggered == /\ Thresholds(policy, snap)
                     /\ IsAuthorized(PolicySet(policies), CedarRequest(policy, snap))
    IN  [policy    |-> n,
         triggered |-> triggered,
         pids      |-> IF triggered
                       THEN {p.pid : p \in Matching(policy, snap.procs)}
                       ELSE {}]

\* Mutant of PriorityOrders: lowest priority first.
AscendingOrders(policies) ==
    LET on == EnabledNames(policies)
    IN  {order \in [1..Cardinality(on) -> on] :
            \A i, j \in DOMAIN order :
                i < j => /\ order[i] # order[j]
                         /\ policies[order[i]].priority <= policies[order[j]].priority}

\* sort.Slice is not stable and starts from map order: any order in which
\* the priorities do not increase may come out.
PriorityOrders(policies) ==
    LET on == EnabledNames(policies)
    IN  {order \in [1..Cardinality(on) -> on] :
            \A i, j \in DOMAIN order :
                i < j => /\ order[i] # order[j]
                         /\ policies[order[i]].priority >= policies[order[j]].priority}

\* The decision lists one call of Evaluate may return.
Evaluations(policies, snap) ==
    {[i \in DOMAIN order |-> EvaluatePolicy(policies, order[i], snap)] :
        order \in PriorityOrders(policies)}
=============================================================================
