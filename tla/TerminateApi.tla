---------------------------- MODULE TerminateApi ----------------------------
(***************************************************************************)
(* POST /api/terminate (internal/api/handlers.go) next to the daemon.      *)
(*                                                                         *)
(* Each request runs in a goroutine of the HTTP server.  It takes no part  *)
(* in the daemon's checkMu: it validates its pids against the snapshot of  *)
(* some earlier check and signals them one by one while another check may  *)
(* be collecting, waiting out a grace period or killing.  Decoding errors  *)
(* and the broadcast of the outcome are left out.                          *)
(***************************************************************************)
EXTENDS Daemon

CONSTANTS
    Clients,   \* whose requests run at the same time
    Requests   \* what a client may ask for: [pids, force]

ASSUME TerminateApiAssumption ==
    \A r \in Requests : r.pids \in Seq(Pids) /\ r.force \in BOOLEAN

VARIABLES
    handler,    \* the handler of each client's request
    \* history
    published,  \* pids whose process is still the one in latestSnapshot
    asked       \* pids whose process got SIGTERM from a handler

sysVars == <<vars, handler, published, asked>>

-----------------------------------------------------------------------------
\* `valid' are the pids the handler accepted, `left' the places in the request of
\* those it has not come to, `listed' the accepted pids whose process is still
\* the one they were accepted for.
Handler(at, request, status) ==
    [at |-> at, request |-> request, status |-> status,
     valid |-> {}, left |-> {}, terminated |-> {}, failed |-> {}, listed |-> {}]

Idle == Handler("idle", [pids |-> <<>>, force |-> FALSE], 0)

\* Of a reply that has been written only the status is kept.
Replied(status) == Handler("replied", Idle.request, status)

PidsAt(pids, places) == {pids[i] : i \in places}

SysInit ==
    /\ Init
    /\ handler = [c \in Clients |-> Idle]
    /\ published = {}
    /\ asked = {}

\* What is remembered about a process ends with it, when it goes or another one
\* comes; a process that only changes is still there.
Remember(known, noted, handlers) ==
    LET gone == {pid \in Pids : (table[pid] = Free) # (table'[pid] = Free)}
    IN  /\ published' = known \ gone
        /\ asked' = noted \ gone
        /\ handler' = [c \in Clients |-> [handlers[c] EXCEPT !.listed = @ \ gone]]

-----------------------------------------------------------------------------
\* A request without pids is refused at once.
Arrive(c, request) ==
    /\ handler[c].at = "idle"
    /\ handler' = [handler EXCEPT ![c] =
          IF request.pids = <<>> THEN Replied(400) ELSE Handler("decoded", request, 0)]
    /\ UNCHANGED <<vars, published, asked>>

\* The places of the pids that the snapshot has; others are dropped, not refused.
Accepted(pids) == {i \in DOMAIN pids : pids[i] \in latestSnapshot}

Refuse(c, status) ==
    /\ handler' = [handler EXCEPT ![c] = Replied(status)]
    /\ UNCHANGED <<vars, published, asked>>

NoSnapshotYet(c) ==
    /\ handler[c].at = "decoded"
    /\ latestSnapshot = NoSnapshot
    /\ Refuse(c, 503)

\* The validation: one read of latestSnapshot tells which pids are accepted.
Validates(c) ==
    /\ handler[c].at = "decoded"
    /\ latestSnapshot # NoSnapshot

NobodyAccepted(c) ==
    /\ Validates(c)
    /\ Accepted(handler[c].request.pids) = {}
    /\ Refuse(c, 400)

\* The handler at its next stage, with the pids it accepted.
Accepting(c, at) ==
    LET request == handler[c].request
        places == Accepted(request.pids)
        accepted == PidsAt(request.pids, places)
    IN  [Handler(at, request, 0) EXCEPT
            !.valid = accepted, !.left = places, !.listed = accepted \cap published]

DryRunReply(c) ==
    LET accepted == Accepting(c, "answering")
    IN  /\ Validates(c)
        /\ accepted.left # {}
        /\ dryRun
        /\ handler' = [handler EXCEPT ![c] = [accepted EXCEPT !.left = {}, !.failed = accepted.valid]]
        /\ UNCHANGED <<vars, published, asked>>

\* Mutant of BeginSignals: dry_run is not looked at.
BeginSignalsWet(c) ==
    /\ Validates(c)
    /\ Accepted(handler[c].request.pids) # {}
    /\ handler' = [handler EXCEPT ![c] = Accepting(c, "signalling")]
    /\ UNCHANGED <<vars, published, asked>>

BeginSignals(c) ==
    /\ Validates(c)
    /\ Accepted(handler[c].request.pids) # {}
    /\ ~dryRun
    /\ handler' = [handler EXCEPT ![c] = Accepting(c, "signalling")]
    /\ UNCHANGED <<vars, published, asked>>

\* Pids are signalled in the order of the request; a repeated one again.
NextPlace(h, i) ==
    /\ h.at = "signalling"
    /\ i \in h.left
    /\ \A j \in h.left : i <= j

\* Mutant of Outcome: whatever the signal returned, it is reported as sent.
OutcomeIgnored(h, i) ==
    [h EXCEPT !.left = @ \ {i}, !.terminated = @ \cup {h.request.pids[i]}]

\* Term or Kill: a process that is gone counts as terminated, one that may not
\* be signalled as failed.
Outcome(h, i) ==
    LET pid == h.request.pids[i]
    IN  IF table[pid] = Free \/ table[pid].owned
        THEN [h EXCEPT !.left = @ \ {i}, !.terminated = @ \cup {pid}]
        ELSE [h EXCEPT !.left = @ \ {i}, !.failed = @ \cup {pid}]

Term(c, i) ==
    LET pid == handler[c].request.pids[i]
    IN  /\ NextPlace(handler[c], i)
        /\ ~handler[c].request.force
        /\ handler' = [handler EXCEPT ![c] = Outcome(@, i)]
        /\ asked' = IF Reachable(pid) THEN asked \cup {pid} ELSE asked
        /\ UNCHANGED <<vars, published>>

Kill(c, i) ==
    LET pid == handler[c].request.pids[i]
    IN  /\ NextPlace(handler[c], i)
        /\ handler[c].request.force
        /\ IF Reachable(pid)
           THEN table' = [table EXCEPT ![pid] = Free] /\ Forget(pid)
           ELSE UNCHANGED <<table, seen, listedAs, termed, termAge>>
        /\ Remember(published, asked, [handler EXCEPT ![c] = Outcome(@, i)])
        /\ UNCHANGED <<load, ctxDone, dryRun, ticks, checkVars, latestVars, sinceTrigger, sinceNotify>>

\* The outcome of every accepted pid is known.
Answered(h) == h.at \in {"signalling", "answering"} /\ h.left = {}

\* Mutant of Reply: no status is written.
ReplyWithoutStatus(c) ==
    /\ Answered(handler[c])
    /\ handler' = [handler EXCEPT ![c] = Replied(0)]
    /\ UNCHANGED <<vars, published, asked>>

Reply(c) ==
    /\ Answered(handler[c])
    /\ handler' = [handler EXCEPT ![c] = Replied(200)]
    /\ UNCHANGED <<vars, published, asked>>

Return(c) ==
    /\ handler[c].at = "replied"
    /\ handler' = [handler EXCEPT ![c] = Idle]
    /\ UNCHANGED <<vars, published, asked>>

Serve(c) ==
    \/ NoSnapshotYet(c)
    \/ NobodyAccepted(c)
    \/ DryRunReply(c)
    \/ BeginSignals(c)
    \/ \E i \in handler[c].left : Term(c, i)
    \/ \E i \in handler[c].left : Kill(c, i)
    \/ Reply(c)
    \/ Return(c)

\* The daemon goes on whatever the handlers do.
DaemonStep ==
    /\ Next
    /\ Remember(IF pc = "evaluate" /\ pc' = "decide" THEN seen ELSE published, asked, handler)

SysNext ==
    \/ DaemonStep
    \/ \E c \in Clients, request \in Requests : Arrive(c, request)
    \/ \E c \in Clients : Serve(c)

SysSpec == SysInit /\ [][SysNext]_sysVars

-----------------------------------------------------------------------------
\* A handler has written a status exactly when it has replied.
\* (handlers.go:143-209)
ApiTypeOK ==
    /\ \A c \in Clients :
          /\ handler[c].at \in {"idle", "decoded", "signalling", "answering", "replied"}
          /\ handler[c].status \in {0, 200, 400, 503}
          /\ handler[c].at = "replied" <=> handler[c].status # 0
          /\ handler[c].request \in Requests \cup {Idle.request}
          /\ handler[c].left \subseteq DOMAIN handler[c].request.pids
          /\ \A s \in {"valid", "terminated", "failed", "listed"} : handler[c][s] \subseteq Pids
    /\ published \subseteq Pids
    /\ asked \subseteq Pids

\* A reply accounts for every accepted pid, and tells the truth about the
\* process it was accepted for, if that is still there: reported as terminated
\* it was asked to exit, and cannot be there at all if the request forced it;
\* reported as failed it belongs to another user.
\* (handlers.go:163-208, daemon.go:301-325, executor.go:295-327)
RepliesAreTrue ==
    \A c \in Clients :
        LET h == handler[c]
        IN  Answered(h) =>
              /\ h.terminated \cup h.failed = h.valid
              /\ \A pid \in h.listed \cap h.terminated : ~h.request.force /\ pid \in asked
              /\ ~dryRun => \A pid \in h.listed \cap h.failed : ~table[pid].owned

\* In a dry run neither the daemon nor any request touches a process.
\* (daemon.go:189-195, handlers.go:175-184)
DryRunTouchesNobody ==
    dryRun =>
        /\ DryRunIsInert
        /\ asked = {}
        /\ \A c \in Clients : handler[c].terminated = {} /\ handler[c].at # "signalling"
=============================================================================
