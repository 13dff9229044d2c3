----------------------------- MODULE Diagnostics -----------------------------
(***************************************************************************)
(* The process tree that a diagnostic capture writes for the targets of a  *)
(* decision (internal/diagnostics/diagnostics.go).  It reads the snapshot  *)
(* that the decision was made on, here as the raw list of [pid, ppid,      *)
(* name] the collector started from.                                       *)
(*                                                                         *)
(* The list is put together one process at a time, so pids that are given  *)
(* to new processes meanwhile may leave parents that form a cycle.         *)
(*                                                                         *)
(* The other files of a capture (top, ps, samples) are the output of       *)
(* commands.                                                               *)
(***************************************************************************)
EXTENDS Integers, FiniteSets, Sequences

ListedPids(raw) == {p.pid : p \in raw}

ProcessByPID(raw, pid) == CHOOSE p \in raw : p.pid = pid

\* Mutant of ChainsUp: the next ancestor goes to the end of the chain.
ChainsUpReversed(raw) ==
    LET pids == ListedPids(raw)
        up[seen \in SUBSET pids] ==
            [current \in pids \ seen |->
                LET p == ProcessByPID(raw, current)
                    known == seen \cup {current}
                IN  IF p.ppid \in pids \ known /\ p.ppid # 0
                    THEN <<p>> \o up[known][p.ppid]
                    ELSE <<p>>]
    IN  up

\* What current adds to the chain when the processes of seen are in it already:
\* its ancestors, the first one in front. A parent that is 0, not listed or seen
\* has none to add.
ChainsUp(raw) ==
    LET pids == ListedPids(raw)
        up[seen \in SUBSET pids] ==
            [current \in pids \ seen |->
                LET p == ProcessByPID(raw, current)
                    known == seen \cup {current}
                IN  IF p.ppid \in pids \ known /\ p.ppid # 0
                    THEN Append(up[known][p.ppid], p)
                    ELSE <<p>>]
    IN  up

\* From the first ancestor that is listed down to pid.
ParentChain(raw, pid) ==
    IF pid \in ListedPids(raw) THEN ChainsUp(raw)[{}][pid] ELSE <<>>

\* Those of pids whose parent is listed under this name.
Children(raw, pids, name) ==
    {pid \in pids \cap ListedPids(raw) :
        \E q \in raw : q.pid = ProcessByPID(raw, pid).ppid /\ q.name = name}

\* Mutant of ParentSummary: parents without children among pids are listed too.
ParentSummaryOfAll(raw, pids) ==
    [name \in {q.name : q \in raw} |-> Cardinality(Children(raw, pids, name))]

\* How many of pids are children of the processes of each name.
ParentSummary(raw, pids) ==
    [name \in {n \in {q.name : q \in raw} : Children(raw, pids, n) # {}} |->
        Cardinality(Children(raw, pids, name))]
=============================================================================
