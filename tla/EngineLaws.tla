------------------------------ MODULE EngineLaws ------------------------------
(***************************************************************************)
(* A machine that walks over the inputs of an evaluation: the raw process  *)
(* list, the loads and the configuration file change one at a time, and    *)
(* the laws below must hold of every input.                                *)
(***************************************************************************)
EXTENDS Engine, Config, Diagnostics

CONSTANTS RawLists,   \* process lists: sets of [pid, ppid, name]
          LoadPairs,  \* pairs <<load1, load5>>, in thousandths
          Files       \* configuration files

\* A list has a process once and not the kernel, whose pid is 0: ListPIDs keeps
\* only pids above it. (libproc_darwin.go:65-69)
ASSUME EngineLawsAssumption ==
    /\ \A raw \in RawLists :
          /\ IsFiniteSet(raw)
          /\ \A p, q \in raw : p.pid = q.pid => p = q
          /\ \A p \in raw : p.pid # 0
    /\ \A l \in LoadPairs : l[1] \in Nat /\ l[2] \in Nat
    /\ \A file \in Files : \A cfg \in Load(file) :
          /\ IsFiniteSet(DOMAIN cfg.policies)
          /\ \A n \in DOMAIN cfg.policies :
                /\ cfg.policies[n].maxCount \in Int
                /\ cfg.policies[n].priority \in Int
                /\ cfg.policies[n].enabled \in BOOLEAN
                /\ cfg.policies[n].minLoad1 \in Int
                /\ cfg.policies[n].minLoad5 \in Int

VARIABLES raw, loads, config

vars == <<raw, loads, config>>

\* A file that cannot be loaded keeps the program from starting.
Configs == UNION {Load(file) : file \in Files}

Init == raw \in RawLists /\ loads \in LoadPairs /\ config \in Configs

NewProcesses == raw' \in RawLists /\ UNCHANGED <<loads, config>>
NewLoads     == loads' \in LoadPairs /\ UNCHANGED <<raw, config>>
NewConfig    == config' \in Configs /\ UNCHANGED <<raw, loads>>

Next == NewProcesses \/ NewLoads \/ NewConfig

Spec == Init /\ [][Next]_vars

-----------------------------------------------------------------------------
policies == config.policies

snap == [procs |-> ResolveParents(raw), load1 |-> loads[1], load5 |-> loads[2]]

Decisions == {EvaluatePolicy(policies, n, snap) : n \in EnabledNames(policies)}

\* A decision is about listed processes only. (engine.go:86-100 and 172-175)
TypeOK ==
    /\ raw \in RawLists /\ loads \in LoadPairs /\ config \in Configs
    /\ Decisions \subseteq [policy : EnabledNames(policies), triggered : BOOLEAN,
                            pids : SUBSET ListedPids(raw)]

\* The permit generated for a policy is satisfied whenever the thresholds of
\* the Go code are, although Cedar sees loads cut to hundredths: Cedar never
\* takes back a trigger, and would not if the default permit were removed.
\* (engine.go:123-161, convert.go:46-91)
CedarConfirmsThresholds ==
    \A n \in EnabledNames(policies) :
        Thresholds(policies[n], snap) =>
            Satisfied(GeneratedPermit(policies[n]), CedarRequest(policies[n], snap))

\* The processes a triggered policy is about to act on are at least max_count,
\* and each of them, by the raw process list, has the policy's name, the
\* parent asked for, and no excluded parent that was listed with it.
\* (engine.go:86-131 and 172-175, collector.go:148-166)
TargetsAreRunaways ==
    \A d \in Decisions :
        /\ d.triggered => Cardinality(d.pids) >= policies[d.policy].maxCount
        /\ \A pid \in d.pids : \E p \in raw :
              /\ p.pid = pid
              /\ p.name = policies[d.policy].process
              /\ \A q \in raw : q.pid = p.ppid => q.name \notin policies[d.policy].exclude
              /\ policies[d.policy].parent # NoName =>
                    \E q \in raw : q.pid = p.ppid /\ q.name = policies[d.policy].parent

\* An evaluation has an outcome, and in every outcome each enabled policy is
\* decided as it would be alone, wherever the sort put it, and a more important
\* policy is never decided after a less important one. (engine.go:47-72)
EvaluationOrder ==
    /\ Evaluations(policies, snap) # {}
    /\ \A list \in Evaluations(policies, snap) :
          /\ {list[i] : i \in DOMAIN list} = Decisions
          /\ \A i, j \in DOMAIN list :
                policies[list[i].policy].priority > policies[list[j].policy].priority => i < j

\* What the validate command accepts can be acted on: whenever a policy of
\* such a configuration triggers it has a process to act on, a process that is
\* listed under the configured name, and something to do that the executor
\* knows, whichever keys the file leaves out.
\* (config.go:149-204, engine.go:102-175, executor.go:33-70)
ValidatedPoliciesCanAct ==
    Validate(config) =>
        \A d \in Decisions : d.triggered =>
            /\ d.pids # {}
            /\ policies[d.policy].actions # <<>>
            /\ \A i \in DOMAIN policies[d.policy].actions :
                  policies[d.policy].actions[i] \in ValidActions

\* The chain written for a target leads to it parent by parent without meeting
\* a process twice, and stops only where no ancestor is left to add, also when
\* the parents form a cycle. (diagnostics.go:180-202)
ChainsLeadToTargets ==
    \A d \in Decisions : \A pid \in d.pids :
        LET chain == ParentChain(raw, pid)
        IN  /\ chain # <<>>
            /\ chain[Len(chain)].pid = pid
            /\ \A i \in DOMAIN chain : chain[i] \in raw
            /\ \A i \in 1..Len(chain) - 1 : chain[i].pid = chain[i + 1].ppid
            /\ \A i, j \in DOMAIN chain : chain[i].pid = chain[j].pid => i = j
            /\ chain[1].ppid \notin ListedPids(raw) \ {chain[i].pid : i \in DOMAIN chain}

\* The summary counts the targets under the parents the engine chose them by:
\* under the one the policy asks for it has them all, and an excluded parent is
\* not in it. (diagnostics.go:153-171, engine.go:86-121, collector.go:148-166)
SummaryAgreesWithPolicy ==
    \A d \in Decisions : d.triggered =>
        LET summary == ParentSummary(raw, d.pids)
            policy  == policies[d.policy]
        IN  /\ DOMAIN summary \cap policy.exclude = {}
            /\ \A name \in DOMAIN summary : summary[name] \in 1..Cardinality(d.pids)
            /\ policy.parent # NoName /\ d.pids # {} =>
                  summary = [name \in {policy.parent} |-> Cardinality(d.pids)]
=============================================================================
