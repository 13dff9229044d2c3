--------------------------- MODULE TerminateProofs ---------------------------
(***************************************************************************)
(* Theorems about terminate requests next to the daemon, for every         *)
(* configuration, number of clients and set of requests.  For the daemon,  *)
(* requests are nothing but more reasons for processes to exit, so what is *)
(* proved of the daemon alone holds beside them.                           *)
(***************************************************************************)
EXTENDS TerminateApi, EnforcementProofs

-----------------------------------------------------------------------------
(* What the daemon does, as far as handlers can see it.                    *)

\* Whoever was there at the last snapshot, and is remembered, is still there.
SeenAlive == \A pid \in seen : pid \in Pids /\ table[pid] # Free

\* Whoever was there and is there still belongs to the same user.
OwnersStay ==
    \A pid \in Pids :
        table[pid] # Free /\ table'[pid] # Free => table'[pid].owned = table[pid].owned

\* Only Publish changes what is published, only Collect makes somebody seen,
\* and whoever stays seen is still there.
LEMMA DaemonFrame ==
    ASSUME TypeOK, [Next]_vars
    PROVE  /\ dryRun' = dryRun
           /\ Publish \/ UNCHANGED latestVars
           /\ Publish <=> pc = "evaluate" /\ pc' = "decide"
           /\ Publish => UNCHANGED <<table, seen>>
           /\ \/ Collect
              \/ /\ seen' \subseteq seen
                 /\ \A pid \in seen' : pid \in Pids /\ table[pid] # Free => table'[pid] # Free
<1> USE DEF TypeOK, osVars, checkVars, latestVars, historyVars
<1>1. CASE UNCHANGED vars
  BY <1>1 DEF vars, Publish
<1>2. ASSUME NEW pid \in Pids, NEW kind \in Kinds, Spawn(pid, kind) \/ Exit(pid)
      PROVE  /\ dryRun' = dryRun
             /\ UNCHANGED latestVars
             /\ pc' = pc
             /\ seen' \subseteq seen
             /\ \A q \in seen' : q \in Pids /\ table[q] # Free => table'[q] # Free
  BY <1>2 DEF Spawn, Exit, Forget
<1>3. ASSUME NEW pid \in Pids, NEW kind \in Kinds, Alter(pid, kind)
      PROVE  /\ dryRun' = dryRun
             /\ UNCHANGED <<latestVars, pc, seen>>
             /\ \A q \in seen' : q \in Pids /\ table[q] # Free => table'[q] # Free
  <2>1. UNCHANGED <<dryRun, latestVars, pc, seen>>
    BY <1>3 DEF Alter
  <2>2. \A q \in Pids : table'[q] = Free <=> table[q] = Free
    BY <1>3, AlterKeepsReach
  <2>3. QED
    BY <2>1, <2>2
<1>4. CASE Collect
  BY <1>4 DEF Collect, Publish
<1>5. CASE Publish
  BY <1>5 DEF Publish
<1>6. ASSUME NEW pid \in Pids, SigTerm(pid) \/ SigKill(pid)
      PROVE  /\ dryRun' = dryRun
             /\ UNCHANGED latestVars
             /\ pc' = pc
             /\ pc # "evaluate"
             /\ seen' \subseteq seen
             /\ \A q \in seen' : q \in Pids /\ table[q] # Free => table'[q] # Free
  BY <1>6 DEF SigTerm, SigKill, Forget
<1>7. CASE \/ LoadChanges \/ Cancel \/ ClockTick
           \/ \E ticker \in {"periodic", "load"} : TickerFires(ticker)
           \/ Select
           \/ SkipDecision \/ BeginExecute \/ FinishCheck
           \/ PlainAction \/ NotifyDelivered \/ NotifyFails \/ BeginTerminate
           \/ BeginGrace \/ GraceCancelled \/ GraceOver \/ TerminateReturns
           \/ ExecuteReturns
  <2>1. /\ dryRun' = dryRun
        /\ UNCHANGED latestVars
        /\ pc = "evaluate" => pc' = pc
        /\ UNCHANGED <<table, seen>>
    BY <1>7 DEF LoadChanges, Cancel, ClockTick, TickerFires, Select, Stop, PeriodicCheck, LoadCheck,
                LoadIgnored, Receive, StartCheck, SkipDecision, BeginExecute, FinishCheck,
                PlainAction, NotifyDelivered, NotifyFails, BeginTerminate, BeginGrace,
                GraceCancelled, GraceOver, TerminateReturns, ExecuteReturns, AtAction,
                ActionReturns, NextDecision
  <2>2. QED
    BY <2>1 DEF Publish
<1>8. QED
  <2>1. ASSUME NEW pid \in Pids, Exit(pid)
        PROVE  \E kind \in Kinds : Spawn(pid, kind) \/ Exit(pid)
    BY <2>1 DEF Exit
  <2>2. CASE \E pid \in Pids : \E kind \in Kinds : Spawn(pid, kind) \/ Exit(pid)
    BY <2>2, <1>2 DEF Publish
  <2>3. CASE \E pid \in Pids : SigTerm(pid) \/ SigKill(pid)
    BY <2>3, <1>6 DEF Publish
  <2>4. CASE \E pid \in Pids, kind \in Kinds : Alter(pid, kind)
    BY <2>4, <1>3 DEF Publish
  <2>5. QED
    BY <1>1, <1>4, <1>5, <1>7, <2>1, <2>2, <2>3, <2>4 DEF Next, Environment, Check, Signalling

LEMMA SeenAliveStep ==
    ASSUME TypeOK, SeenAlive, [Next]_vars
    PROVE  SeenAlive'
<1>1. CASE Collect
  BY <1>1 DEF Collect, SeenAlive, osVars
<1>2. CASE /\ seen' \subseteq seen
           /\ \A pid \in seen' : pid \in Pids /\ table[pid] # Free => table'[pid] # Free
  BY <1>2 DEF SeenAlive
<1>3. QED
  BY <1>1, <1>2, DaemonFrame

LEMMA OwnersStayStep ==
    ASSUME TypeOK, [Next]_vars
    PROVE  OwnersStay
<1> USE DEF osVars
<1>1. ASSUME NEW pid \in Pids, NEW kind \in Kinds,
             Spawn(pid, kind) \/ Alter(pid, kind)
      PROVE  OwnersStay
  BY <1>1 DEF Spawn, Alter, OwnersStay, TypeOK
<1>2. ASSUME NEW pid \in Pids, Exit(pid) \/ SigKill(pid) \/ SigTerm(pid)
      PROVE  OwnersStay
  BY <1>2 DEF Exit, SigKill, SigTerm, OwnersStay, TypeOK
<1>3. CASE UNCHANGED table
  BY <1>3 DEF OwnersStay
<1>4. CASE \/ UNCHANGED vars
           \/ LoadChanges \/ Cancel \/ ClockTick
           \/ \E ticker \in {"periodic", "load"} : TickerFires(ticker)
           \/ Select \/ Collect \/ Publish
           \/ SkipDecision \/ BeginExecute \/ FinishCheck
           \/ PlainAction \/ NotifyDelivered \/ NotifyFails \/ BeginTerminate
           \/ BeginGrace \/ GraceCancelled \/ GraceOver \/ TerminateReturns
           \/ ExecuteReturns
  <2>1. UNCHANGED table
    BY <1>4 DEF vars, LoadChanges, Cancel, ClockTick, TickerFires, Select, Stop, PeriodicCheck,
                LoadCheck, LoadIgnored, Receive, Collect, Publish, SkipDecision, BeginExecute,
                FinishCheck, PlainAction, NotifyDelivered, NotifyFails, BeginTerminate,
                BeginGrace, GraceCancelled, GraceOver, TerminateReturns, ExecuteReturns
  <2>2. QED
    BY <2>1, <1>3
<1>5. QED
  BY <1>1, <1>2, <1>4 DEF Next, Environment, Check, Signalling

-----------------------------------------------------------------------------
(* The daemon does not notice the requests.                                *)

\* A SIGKILL sent for a client is, for the daemon, a process that exits.
LEMMA KillIsExit ==
    ASSUME TypeOK, NEW c \in Clients, NEW i \in handler[c].left,
           handler[c].request.pids[i] \in Pids,
           Kill(c, i)
    PROVE  [Next]_vars
<1> DEFINE pid == handler[c].request.pids[i]
<1>1. CASE Reachable(pid)
  <2>1. Exit(pid)
    BY <1>1 DEF Kill, Exit, Reachable
  <2>2. QED
    BY <2>1 DEF Next, Environment
<1>2. CASE ~Reachable(pid)
  <2>1. UNCHANGED <<table, seen, listedAs, termed, termAge>>
    BY <1>2 DEF Kill
  <2>2. QED
    BY <2>1 DEF Kill, vars, osVars, checkVars, latestVars, historyVars
<1>3. QED
  BY <1>1, <1>2

-----------------------------------------------------------------------------
(* The invariant of the handlers.                                          *)

HandlerRecord ==
    [at : {"idle", "decoded", "signalling", "answering", "replied"},
     request : Requests \cup {Idle.request}, status : {0, 200, 400, 503},
     valid : SUBSET Pids, left : SUBSET Nat, terminated : SUBSET Pids,
     failed : SUBSET Pids, listed : SUBSET Pids]

\* What the stage of a handler says of its other fields, and what it knows of
\* the processes that are still those it accepted.
HandlerFacts(h) ==
    /\ h.at = "replied" <=> h.status # 0
    /\ h.left \subseteq DOMAIN h.request.pids
    /\ h.at \notin {"signalling", "answering"} =>
          h.terminated = {} /\ h.failed = {} /\ h.listed = {}
    /\ h.at = "signalling" =>
          /\ ~dryRun
          /\ PidsAt(h.request.pids, h.left) \cup h.terminated \cup h.failed = h.valid
          /\ \A pid \in h.listed \cap h.terminated : ~h.request.force /\ pid \in asked
          /\ \A pid \in h.listed \cap h.failed : ~table[pid].owned
    /\ h.at = "answering" =>
          dryRun /\ h.left = {} /\ h.terminated = {} /\ h.failed = h.valid
    /\ \A pid \in h.listed : table[pid] # Free

Handlers ==
    /\ handler \in [Clients -> HandlerRecord]
    /\ \A c \in Clients : HandlerFacts(handler[c])
    /\ \A pid \in published : pid \in Pids /\ table[pid] # Free
    /\ asked \subseteq Pids
    /\ dryRun => asked = {}

SysInv == TypeInv /\ SeenAlive /\ Handlers

LEMMA RequestTyped ==
    ASSUME NEW request \in Requests \cup {Idle.request}
    PROVE  /\ request.pids \in Seq(Pids)
           /\ request.force \in BOOLEAN
           /\ DOMAIN request.pids \subseteq Nat
           /\ \A i \in DOMAIN request.pids : request.pids[i] \in Pids
<1>1. request.pids \in Seq(Pids) /\ request.force \in BOOLEAN
  <2>1. CASE request \in Requests
    BY <2>1, TerminateApiAssumption
  <2>2. CASE request = Idle.request
    <3>1. Idle.request = [pids |-> <<>>, force |-> FALSE]
      BY DEF Idle, Handler
    <3>2. QED
      BY <2>2, <3>1
  <2>3. QED
    BY <2>1, <2>2
<1>2. QED
  BY <1>1

LEMMA Updated ==
    ASSUME NEW h \in HandlerRecord, NEW left \in SUBSET Nat,
           NEW valid \in SUBSET Pids, NEW listed \in SUBSET Pids, NEW reported \in SUBSET Pids
    PROVE  /\ [h EXCEPT !.valid = valid, !.left = left, !.listed = listed] \in HandlerRecord
           /\ [h EXCEPT !.left = left, !.failed = reported] \in HandlerRecord
           /\ [h EXCEPT !.left = left, !.terminated = reported] \in HandlerRecord
<1> DEFINE stages == {"idle", "decoded", "signalling", "answering", "replied"}
           requests == Requests \cup {Idle.request}
           codes == {0, 200, 400, 503}
           pidSets == SUBSET Pids
           places == SUBSET Nat
<1>a. HandlerRecord = [at : stages, request : requests, status : codes,
                       valid : pidSets, left : places, terminated : pidSets,
                       failed : pidSets, listed : pidSets]
  BY DEF HandlerRecord
<1>b. left \in places /\ {valid, listed, reported} \subseteq pidSets
  OBVIOUS
<1> HIDE DEF stages, requests, codes, pidSets, places
<1>1. [h EXCEPT !.valid = valid, !.left = left, !.listed = listed] \in HandlerRecord
  BY <1>a, <1>b
<1>2. [h EXCEPT !.left = left, !.failed = reported] \in HandlerRecord
  BY <1>a, <1>b
<1>3. [h EXCEPT !.left = left, !.terminated = reported] \in HandlerRecord
  BY <1>a, <1>b
<1>4. QED
  BY <1>1, <1>2, <1>3

LEMMA IdleTyped ==
    /\ Idle \in HandlerRecord
    /\ Idle.at = "idle" /\ Idle.status = 0
    /\ Idle.left = {} /\ Idle.terminated = {} /\ Idle.failed = {} /\ Idle.listed = {}
  BY DEF Idle, Handler, HandlerRecord

LEMMA RepliedTyped ==
    ASSUME NEW status \in {200, 400, 503}
    PROVE  /\ Replied(status) \in HandlerRecord
           /\ HandlerFacts(Replied(status))
<1>1. Idle.request \in Requests \cup {Idle.request}
  OBVIOUS
<1>2. Replied(status) = [at |-> "replied", request |-> Idle.request, status |-> status,
                         valid |-> {}, left |-> {}, terminated |-> {}, failed |-> {}, listed |-> {}]
  BY DEF Replied, Handler
<1>3. Replied(status) \in HandlerRecord
  BY <1>1, <1>2 DEF HandlerRecord
<1>4. QED
  BY <1>2, <1>3 DEF HandlerFacts

LEMMA SysInvInit == SysInit => SysInv
<1> SUFFICES ASSUME SysInit PROVE Handlers /\ SeenAlive
  BY TypeInvInit DEF SysInit, SysInv
<1>1. SeenAlive
  BY DEF SysInit, Init, SeenAlive
<1>2. HandlerFacts(Idle)
  BY IdleTyped DEF HandlerFacts
<1>3. QED
  BY <1>1, <1>2, IdleTyped DEF SysInit, Handlers

\* When processes go, handlers forget them and keep what they know of others.
LEMMA HandlerForgets ==
    ASSUME NEW h \in HandlerRecord, NEW gone,
           OwnersStay,
           \A pid \in Pids : pid \notin gone /\ table[pid] # Free => table'[pid] # Free,
           NEW k, k = [h EXCEPT !.listed = @ \ gone],
           asked' = asked \ gone, dryRun' = dryRun,
           HandlerFacts(h)
    PROVE  k \in HandlerRecord /\ HandlerFacts(k)'
<1>1. /\ k \in HandlerRecord
      /\ k.listed = h.listed \ gone
      /\ k.at = h.at /\ k.request = h.request /\ k.status = h.status /\ k.valid = h.valid
      /\ k.left = h.left /\ k.terminated = h.terminated /\ k.failed = h.failed
  BY DEF HandlerRecord
<1>2. \A pid \in k.listed :
          /\ pid \in h.listed
          /\ table'[pid] # Free
          /\ table'[pid].owned = table[pid].owned
  BY <1>1 DEF HandlerRecord, HandlerFacts, OwnersStay
<1>3. QED
  BY <1>1, <1>2 DEF HandlerFacts

\* Whatever processes a step ends, what is remembered of the others stays true.
LEMMA RememberKeepsHandlers ==
    ASSUME SysInv, OwnersStay, dryRun' = dryRun,
           NEW known, \A pid \in known : pid \in Pids /\ table[pid] # Free,
           Remember(known, asked, handler)
    PROVE  Handlers'
<1> DEFINE gone == {pid \in Pids : (table[pid] = Free) # (table'[pid] = Free)}
<1>1. /\ published' = known \ gone
      /\ handler' = [c \in Clients |-> [handler[c] EXCEPT !.listed = @ \ gone]]
      /\ asked' = asked \ gone
  BY DEF Remember
<1>2. ASSUME NEW c \in Clients
      PROVE  handler'[c] \in HandlerRecord /\ HandlerFacts(handler[c])'
  <2>1. handler[c] \in HandlerRecord /\ HandlerFacts(handler[c])
    BY DEF SysInv, Handlers
  <2>2. \A pid \in Pids : pid \notin gone /\ table[pid] # Free => table'[pid] # Free
    OBVIOUS
  <2>3. handler'[c] = [handler[c] EXCEPT !.listed = @ \ gone]
    BY <1>1
  <2> HIDE DEF gone
  <2>4. QED
    BY <1>1, <2>1, <2>2, <2>3, HandlerForgets
<1>3. \A pid \in published' : pid \in Pids /\ table'[pid] # Free
  BY <1>1
<1>4. handler' \in [Clients -> HandlerRecord]
  BY <1>1, <1>2
<1>5. QED
  BY <1>1, <1>2, <1>3, <1>4 DEF SysInv, Handlers

LEMMA DaemonStepKeepsHandlers ==
    ASSUME SysInv, DaemonStep
    PROVE  SysInv'
<1>1. TypeOK /\ [Next]_vars
  BY DEF SysInv, TypeInv, DaemonStep
<1>2. TypeInv' /\ SeenAlive'
  BY <1>1, TypeInvStep, SeenAliveStep DEF SysInv
<1>3. dryRun' = dryRun /\ OwnersStay
  BY <1>1, DaemonFrame, OwnersStayStep
<1> DEFINE known == IF pc = "evaluate" /\ pc' = "decide" THEN seen ELSE published
<1>4. Remember(known, asked, handler)
  BY DEF DaemonStep
<1>5. \A pid \in known : pid \in Pids /\ table[pid] # Free
  BY DEF SysInv, SeenAlive, Handlers
<1> HIDE DEF known
<1>6. QED
  BY <1>2, <1>3, <1>4, <1>5, RememberKeepsHandlers DEF SysInv

\* A step of one handler that leaves the world alone.
LEMMA HandlerMoves ==
    ASSUME SysInv, NEW c \in Clients, NEW k \in HandlerRecord,
           HandlerFacts(k), handler' = [handler EXCEPT ![c] = k],
           UNCHANGED <<vars, published, asked>>
    PROVE  SysInv'
<1>1. TypeInv' /\ SeenAlive'
  <2>1. TypeOK /\ [Next]_vars
    BY DEF SysInv, TypeInv
  <2>2. QED
    BY <2>1, TypeInvStep, SeenAliveStep DEF SysInv
<1>2. UNCHANGED <<table, dryRun>>
  BY DEF vars, osVars
<1>3. handler' \in [Clients -> HandlerRecord]
  BY DEF SysInv, Handlers
<1>4. ASSUME NEW d \in Clients PROVE HandlerFacts(handler[d])'
  <2>1. HandlerFacts(handler'[d])
    BY DEF SysInv, Handlers
  <2>2. QED
    BY <1>2, <2>1 DEF HandlerFacts
<1>5. QED
  BY <1>1, <1>2, <1>3, <1>4 DEF SysInv, Handlers

LEMMA ArriveKeepsHandlers ==
    ASSUME SysInv, NEW c \in Clients, NEW request \in Requests, Arrive(c, request)
    PROVE  SysInv'
<1>1. CASE request.pids = <<>>
  <2>1. handler' = [handler EXCEPT ![c] = Replied(400)] /\ UNCHANGED <<vars, published, asked>>
    BY <1>1 DEF Arrive
  <2>2. Replied(400) \in HandlerRecord /\ HandlerFacts(Replied(400))
    BY RepliedTyped
  <2>3. QED
    BY <2>1, <2>2, HandlerMoves
<1>2. CASE request.pids # <<>>
  <2> DEFINE k == Handler("decoded", request, 0)
  <2>1. k = [at |-> "decoded", request |-> request, status |-> 0, valid |-> {}, left |-> {},
             terminated |-> {}, failed |-> {}, listed |-> {}]
    BY DEF Handler
  <2>2. k \in HandlerRecord /\ HandlerFacts(k)
    <3> HIDE DEF k
    <3> QED BY <2>1 DEF HandlerRecord, HandlerFacts
  <2>3. handler' = [handler EXCEPT ![c] = k] /\ UNCHANGED <<vars, published, asked>>
    BY <1>2 DEF Arrive
  <2> HIDE DEF k
  <2>4. QED
    BY <2>2, <2>3, HandlerMoves
<1>3. QED
  BY <1>1, <1>2

\* A handler that has validated its pids knows which of them are still the
\* processes the snapshot listed.
LEMMA AcceptingTyped ==
    ASSUME SysInv, NEW c \in Clients, Validates(c), NEW at \in {"signalling", "answering"}
    PROVE  LET request == handler[c].request
               places == Accepted(request.pids)
               valid == PidsAt(request.pids, places)
               h == Accepting(c, at)
           IN  /\ h \in HandlerRecord
               /\ h.at = at /\ h.request = request /\ h.status = 0
               /\ h.valid = valid /\ h.left = places
               /\ h.terminated = {} /\ h.failed = {}
               /\ places \subseteq DOMAIN request.pids
               /\ \A pid \in h.listed : table[pid] # Free
<1> DEFINE request == handler[c].request
           places == Accepted(request.pids)
           valid == PidsAt(request.pids, places)
<1>1. handler[c] \in HandlerRecord
  BY DEF SysInv, Handlers
<1>2. request \in Requests \cup {Idle.request}
  BY <1>1 DEF HandlerRecord
<1>3. places \subseteq DOMAIN request.pids
  BY DEF Accepted
<1>4. places \in SUBSET Nat /\ valid \in SUBSET Pids
  BY <1>2, <1>3, RequestTyped DEF PidsAt
<1> DEFINE base == Handler(at, request, 0)
           h == Accepting(c, at)
<1>5. h = [base EXCEPT !.valid = valid, !.left = places, !.listed = valid \cap published]
  BY DEF Accepting
<1>6. base = [at |-> at, request |-> request, status |-> 0, valid |-> {}, left |-> {},
              terminated |-> {}, failed |-> {}, listed |-> {}]
  BY DEF Handler
<1>7. \A pid \in published : table[pid] # Free
  BY DEF SysInv, Handlers
<1> HIDE DEF base, h, request, places, valid
<1>8. base \in HandlerRecord
  BY <1>2, <1>6 DEF HandlerRecord
<1>9. h \in HandlerRecord
  BY <1>4, <1>5, <1>8, Updated
<1>10. /\ h.at = at /\ h.request = request /\ h.status = 0
       /\ h.valid = valid /\ h.left = places
       /\ h.terminated = {} /\ h.failed = {} /\ h.listed = valid \cap published
  BY <1>5, <1>6
<1>11. QED
  BY <1>3, <1>7, <1>9, <1>10 DEF h, request, places, valid

LEMMA ValidationKeepsHandlers ==
    ASSUME SysInv, NEW c \in Clients,
           NoSnapshotYet(c) \/ NobodyAccepted(c) \/ DryRunReply(c) \/ BeginSignals(c)
    PROVE  SysInv'
<1>1. CASE NoSnapshotYet(c) \/ NobodyAccepted(c)
  <2>1. PICK status \in {200, 400, 503} : Refuse(c, status)
    BY <1>1 DEF NoSnapshotYet, NobodyAccepted
  <2>2. Replied(status) \in HandlerRecord /\ HandlerFacts(Replied(status))
    BY RepliedTyped
  <2>3. QED
    BY <2>1, <2>2, HandlerMoves DEF Refuse
<1>2. CASE DryRunReply(c)
  <2> DEFINE h == Accepting(c, "answering")
             k == [h EXCEPT !.left = {}, !.failed = h.valid]
  <2>1. Validates(c) /\ dryRun
        /\ handler' = [handler EXCEPT ![c] = k] /\ UNCHANGED <<vars, published, asked>>
    BY <1>2 DEF DryRunReply
  <2>2. /\ h \in HandlerRecord
        /\ h.at = "answering" /\ h.status = 0 /\ h.terminated = {}
        /\ \A pid \in h.listed : table[pid] # Free
    BY <2>1, AcceptingTyped
  <2> HIDE DEF h
  <2>3. k \in HandlerRecord
    <3>1. h.valid \in SUBSET Pids /\ {} \in SUBSET Nat
      BY <2>2 DEF HandlerRecord
    <3>2. QED
      BY <2>2, <3>1, Updated
  <2>4. /\ k.at = "answering" /\ k.status = 0 /\ k.left = {}
        /\ k.terminated = {} /\ k.failed = h.valid
    BY <2>2 DEF HandlerRecord
  <2>5. k.valid = h.valid /\ k.listed = h.listed
    BY <2>2 DEF HandlerRecord
  <2> HIDE DEF k
  <2>6. HandlerFacts(k)
    BY <2>1, <2>2, <2>4, <2>5 DEF HandlerFacts
  <2>7. QED
    BY <2>1, <2>3, <2>6, HandlerMoves
<1>3. CASE BeginSignals(c)
  <2> DEFINE h == Accepting(c, "signalling")
  <2>1. Validates(c) /\ ~dryRun
        /\ handler' = [handler EXCEPT ![c] = h] /\ UNCHANGED <<vars, published, asked>>
    BY <1>3 DEF BeginSignals
  <2>2. /\ h \in HandlerRecord
        /\ h.at = "signalling" /\ h.status = 0 /\ h.terminated = {} /\ h.failed = {}
        /\ h.valid = PidsAt(h.request.pids, h.left)
        /\ h.left \subseteq DOMAIN h.request.pids
        /\ \A pid \in h.listed : table[pid] # Free
    BY <2>1, AcceptingTyped
  <2> HIDE DEF h
  <2>3. HandlerFacts(h)
    BY <2>1, <2>2 DEF HandlerFacts
  <2>4. QED
    BY <2>1, <2>2, <2>3, HandlerMoves
<1>4. QED
  BY <1>1, <1>2, <1>3

LEMMA ReplyKeepsHandlers ==
    ASSUME SysInv, NEW c \in Clients, Reply(c) \/ Return(c)
    PROVE  SysInv'
<1>1. CASE Reply(c)
  <2>1. Replied(200) \in HandlerRecord /\ HandlerFacts(Replied(200))
    BY RepliedTyped
  <2>2. handler' = [handler EXCEPT ![c] = Replied(200)] /\ UNCHANGED <<vars, published, asked>>
    BY <1>1 DEF Reply
  <2>3. QED
    BY <2>1, <2>2, HandlerMoves
<1>2. CASE Return(c)
  <2>1. HandlerFacts(Idle)
    BY IdleTyped DEF HandlerFacts
  <2>2. QED
    BY <1>2, <2>1, IdleTyped, HandlerMoves DEF Return
<1>3. QED
  BY <1>1, <1>2

\* What a signal adds to the outcome of a request.
LEMMA OutcomeTyped ==
    ASSUME SysInv, NEW c \in Clients, NEW i \in handler[c].left, NextPlace(handler[c], i)
    PROVE  LET h == handler[c]
               pid == h.request.pids[i]
               k == Outcome(h, i)
           IN  /\ pid \in Pids
               /\ k \in HandlerRecord
               /\ k.at = "signalling" /\ k.status = 0 /\ ~dryRun
               /\ k.request = h.request /\ k.listed = h.listed
               /\ k.left \subseteq DOMAIN k.request.pids
               /\ PidsAt(k.request.pids, k.left) \cup k.terminated \cup k.failed = k.valid
               /\ \A q \in k.listed \cap k.terminated :
                     \/ q = pid /\ Reachable(pid)
                     \/ ~k.request.force /\ q \in asked
               /\ \A q \in k.listed \cap k.failed : ~table[q].owned
               /\ \A q \in k.listed : q \in Pids /\ table[q] # Free
<1> DEFINE h == handler[c]
           pid == h.request.pids[i]
           k == Outcome(h, i)
<1>1. h \in HandlerRecord /\ HandlerFacts(h)
  BY DEF SysInv, Handlers
<1>2. h.at = "signalling"
  BY DEF NextPlace
<1>3. /\ h.request \in Requests \cup {Idle.request}
      /\ h.left \subseteq DOMAIN h.request.pids
      /\ h.listed \subseteq Pids /\ h.left \subseteq Nat
  BY <1>1 DEF HandlerRecord, HandlerFacts
<1>4. pid \in Pids
  BY <1>3, RequestTyped
<1>5. PidsAt(h.request.pids, h.left) = PidsAt(h.request.pids, h.left \ {i}) \cup {pid}
  BY DEF PidsAt
<1> DEFINE gone == table[pid] = Free \/ table[pid].owned
<1>6. k = IF gone THEN [h EXCEPT !.left = h.left \ {i}, !.terminated = h.terminated \cup {pid}]
                  ELSE [h EXCEPT !.left = h.left \ {i}, !.failed = h.failed \cup {pid}]
  BY DEF Outcome
<1>7. pid \in h.listed /\ gone => Reachable(pid)
  BY <1>1 DEF HandlerFacts, Reachable
<1>8. pid \in h.listed /\ ~gone => ~table[pid].owned
  OBVIOUS
<1> HIDE DEF h, pid, k, gone
<1>9. /\ k \in HandlerRecord
      /\ k.left = h.left \ {i}
      /\ k.at = h.at /\ k.status = h.status /\ k.request = h.request
      /\ k.valid = h.valid /\ k.listed = h.listed
      /\ k.terminated = IF gone THEN h.terminated \cup {pid} ELSE h.terminated
      /\ k.failed = IF gone THEN h.failed ELSE h.failed \cup {pid}
  <2>1. CASE gone
    <3>1. k = [h EXCEPT !.left = h.left \ {i}, !.terminated = h.terminated \cup {pid}]
      BY <1>6, <2>1
    <3>2. h.left \ {i} \in SUBSET Nat /\ h.terminated \cup {pid} \in SUBSET Pids
      BY <1>1, <1>3, <1>4 DEF HandlerRecord
    <3>3. k \in HandlerRecord
      BY <1>1, <3>1, <3>2, Updated
    <3>4. /\ k.left = h.left \ {i} /\ k.terminated = h.terminated \cup {pid}
          /\ k.at = h.at /\ k.status = h.status /\ k.request = h.request
          /\ k.valid = h.valid /\ k.listed = h.listed /\ k.failed = h.failed
      BY <1>1, <3>1 DEF HandlerRecord
    <3>5. QED
      BY <2>1, <3>3, <3>4
  <2>2. CASE ~gone
    <3>1. k = [h EXCEPT !.left = h.left \ {i}, !.failed = h.failed \cup {pid}]
      BY <1>6, <2>2
    <3>2. h.left \ {i} \in SUBSET Nat /\ h.failed \cup {pid} \in SUBSET Pids
      BY <1>1, <1>3, <1>4 DEF HandlerRecord
    <3>3. k \in HandlerRecord
      BY <1>1, <3>1, <3>2, Updated
    <3>4. /\ k.left = h.left \ {i} /\ k.failed = h.failed \cup {pid}
          /\ k.at = h.at /\ k.status = h.status /\ k.request = h.request
          /\ k.valid = h.valid /\ k.listed = h.listed /\ k.terminated = h.terminated
      BY <1>1, <3>1 DEF HandlerRecord
    <3>5. QED
      BY <2>2, <3>3, <3>4
  <2>3. QED
    BY <2>1, <2>2
<1>10. /\ k.at = "signalling" /\ k.status = 0 /\ ~dryRun
       /\ k.left \subseteq DOMAIN k.request.pids
       /\ PidsAt(k.request.pids, k.left) \cup k.terminated \cup k.failed = k.valid
  BY <1>1, <1>2, <1>3, <1>5, <1>9 DEF HandlerFacts
<1>11. /\ \A q \in k.listed \cap k.terminated :
             \/ q = pid /\ Reachable(pid)
             \/ ~k.request.force /\ q \in asked
       /\ \A q \in k.listed \cap k.failed : ~table[q].owned
       /\ \A q \in k.listed : q \in Pids /\ table[q] # Free
  BY <1>1, <1>2, <1>3, <1>7, <1>8, <1>9 DEF HandlerFacts
<1>12. QED
  BY <1>4, <1>9, <1>10, <1>11 DEF h, pid, k

LEMMA TermKeepsHandlers ==
    ASSUME SysInv, NEW c \in Clients, NEW i \in handler[c].left, Term(c, i)
    PROVE  SysInv'
<1> DEFINE pid == handler[c].request.pids[i]
           k == Outcome(handler[c], i)
<1>1. /\ NextPlace(handler[c], i)
      /\ ~handler[c].request.force
      /\ handler' = [handler EXCEPT ![c] = k]
      /\ asked' = IF Reachable(pid) THEN asked \cup {pid} ELSE asked
      /\ UNCHANGED <<vars, published>>
  BY DEF Term, SysInv, Handlers
<1>2. UNCHANGED <<table, dryRun>>
  BY <1>1 DEF vars, osVars
<1>3. TypeInv' /\ SeenAlive'
  <2>1. TypeOK /\ [Next]_vars
    BY <1>1 DEF SysInv, TypeInv
  <2>2. QED
    BY <2>1, TypeInvStep, SeenAliveStep DEF SysInv
<1>4. /\ pid \in Pids
      /\ k \in HandlerRecord
      /\ k.at = "signalling" /\ k.status = 0 /\ ~dryRun
      /\ k.request = handler[c].request
      /\ k.left \subseteq DOMAIN k.request.pids
      /\ PidsAt(k.request.pids, k.left) \cup k.terminated \cup k.failed = k.valid
      /\ \A q \in k.listed \cap k.terminated :
            \/ q = pid /\ Reachable(pid)
            \/ ~k.request.force /\ q \in asked
      /\ \A q \in k.listed \cap k.failed : ~table[q].owned
      /\ \A q \in k.listed : table[q] # Free
  BY <1>1, OutcomeTyped
<1> HIDE DEF k, pid
<1>5. handler' \in [Clients -> HandlerRecord]
  BY <1>1, <1>4 DEF SysInv, Handlers
<1>6. ASSUME NEW d \in Clients PROVE HandlerFacts(handler[d])'
  <2>1. CASE d = c
    <3>1. handler'[d] = k
      BY <1>1, <2>1 DEF SysInv, Handlers
    <3>2. QED
      BY <1>1, <1>2, <1>4, <3>1 DEF HandlerFacts
  <2>2. CASE d # c
    <3>1. handler'[d] = handler[d] /\ HandlerFacts(handler[d])
      BY <1>1, <2>2 DEF SysInv, Handlers
    <3>2. QED
      BY <1>1, <1>2, <3>1 DEF HandlerFacts
  <2>3. QED
    BY <2>1, <2>2
<1>7. asked' \subseteq Pids /\ (dryRun' => asked' = {})
  BY <1>1, <1>2, <1>4 DEF SysInv, Handlers
<1>8. QED
  BY <1>1, <1>2, <1>3, <1>5, <1>6, <1>7 DEF SysInv, Handlers

LEMMA KillKeepsHandlers ==
    ASSUME SysInv, NEW c \in Clients, NEW i \in handler[c].left, Kill(c, i)
    PROVE  SysInv' /\ [Next]_vars
<1> DEFINE pid == handler[c].request.pids[i]
           k == Outcome(handler[c], i)
           gone == {q \in Pids : (table[q] = Free) # (table'[q] = Free)}
<1>1. /\ NextPlace(handler[c], i)
      /\ handler' = [d \in Clients |->
                        [[handler EXCEPT ![c] = k][d] EXCEPT !.listed = @ \ gone]]
      /\ published' = published \ gone
      /\ asked' = asked \ gone
      /\ dryRun' = dryRun
  BY DEF Kill, Remember, SysInv, Handlers
<1>2. /\ pid \in Pids
      /\ k \in HandlerRecord
      /\ k.at = "signalling" /\ k.status = 0 /\ ~dryRun
      /\ k.left \subseteq DOMAIN k.request.pids
      /\ PidsAt(k.request.pids, k.left) \cup k.terminated \cup k.failed = k.valid
      /\ \A q \in k.listed \cap k.terminated :
            \/ q = pid /\ Reachable(pid)
            \/ ~k.request.force /\ q \in asked
      /\ \A q \in k.listed \cap k.failed : ~table[q].owned
      /\ \A q \in k.listed : q \in Pids /\ table[q] # Free
  BY <1>1, OutcomeTyped
<1>3. TypeOK /\ [Next]_vars
  BY <1>2, KillIsExit DEF SysInv, TypeInv
<1>4. TypeInv' /\ SeenAlive'
  BY <1>3, TypeInvStep, SeenAliveStep DEF SysInv
<1>5. Reachable(pid) => pid \in gone
  BY <1>2, <1>3 DEF Kill, Reachable, TypeOK
<1>6. OwnersStay /\ \A q \in Pids : q \notin gone /\ table[q] # Free => table'[q] # Free
  BY <1>3, OwnersStayStep
<1> HIDE DEF k, pid, gone
<1>7. ASSUME NEW d \in Clients PROVE handler'[d] \in HandlerRecord /\ HandlerFacts(handler[d])'
  <2>1. CASE d = c
    <3>1. handler'[d] = [k EXCEPT !.listed = @ \ gone]
      BY <1>1, <2>1 DEF SysInv, Handlers
    <3> DEFINE l == handler'[d]
    <3>2. /\ l \in HandlerRecord
          /\ l.listed = k.listed \ gone
          /\ l.at = k.at /\ l.request = k.request /\ l.status = k.status /\ l.valid = k.valid
          /\ l.left = k.left /\ l.terminated = k.terminated /\ l.failed = k.failed
      BY <1>2, <3>1 DEF HandlerRecord
    <3>3. \A q \in l.listed :
              /\ q \in k.listed /\ q \notin gone
              /\ table'[q] # Free
              /\ table'[q].owned = table[q].owned
      BY <1>2, <1>6, <3>2 DEF OwnersStay
    <3>4. HandlerFacts(handler[d])'
      BY <1>1, <1>2, <1>5, <3>2, <3>3 DEF HandlerFacts
    <3>5. QED
      BY <3>2, <3>4
  <2>2. CASE d # c
    <3>1. handler[d] \in HandlerRecord /\ HandlerFacts(handler[d])
      BY DEF SysInv, Handlers
    <3>2. handler'[d] = [handler[d] EXCEPT !.listed = @ \ gone]
      BY <1>1, <2>2 DEF SysInv, Handlers
    <3>3. QED
      BY <1>1, <1>6, <3>1, <3>2, HandlerForgets
  <2>3. QED
    BY <2>1, <2>2
<1>8. handler' \in [Clients -> HandlerRecord]
  BY <1>1, <1>7
<1>9. /\ \A q \in published' : q \in Pids /\ table'[q] # Free
      /\ asked' \subseteq Pids
      /\ dryRun' => asked' = {}
  BY <1>1, <1>6 DEF SysInv, Handlers
<1>10. QED
  BY <1>3, <1>4, <1>7, <1>8, <1>9 DEF SysInv, Handlers

\* Every step keeps the invariant and is one that the daemon knows.
LEMMA SysStep == SysInv /\ [SysNext]_sysVars => SysInv' /\ [Next]_vars
<1> SUFFICES ASSUME SysInv, [SysNext]_sysVars PROVE SysInv' /\ [Next]_vars
  OBVIOUS
<1>1. CASE UNCHANGED sysVars
  <2>1. [Next]_vars /\ UNCHANGED <<table, dryRun, handler, published, asked>>
    BY <1>1 DEF sysVars, vars, osVars
  <2>2. TypeInv' /\ SeenAlive'
    BY <2>1, TypeInvStep, SeenAliveStep DEF SysInv, TypeInv
  <2>3. Handlers'
    BY <2>1 DEF SysInv, Handlers, HandlerFacts
  <2>4. QED
    BY <2>1, <2>2, <2>3 DEF SysInv
<1>2. CASE DaemonStep
  BY <1>2, DaemonStepKeepsHandlers DEF DaemonStep
<1>3. ASSUME NEW c \in Clients, NEW request \in Requests, Arrive(c, request)
      PROVE  SysInv' /\ [Next]_vars
  BY <1>3, ArriveKeepsHandlers DEF Arrive
<1>4. ASSUME NEW c \in Clients, Serve(c) PROVE SysInv' /\ [Next]_vars
  <2>1. CASE NoSnapshotYet(c) \/ NobodyAccepted(c) \/ DryRunReply(c) \/ BeginSignals(c)
    BY <2>1, ValidationKeepsHandlers
       DEF NoSnapshotYet, NobodyAccepted, DryRunReply, BeginSignals, Refuse
  <2>2. CASE Reply(c) \/ Return(c)
    BY <2>2, ReplyKeepsHandlers DEF Reply, Return
  <2>3. CASE \E i \in handler[c].left : Term(c, i)
    BY <2>3, TermKeepsHandlers DEF Term
  <2>4. CASE \E i \in handler[c].left : Kill(c, i)
    BY <2>4, KillKeepsHandlers
  <2>5. QED
    BY <1>4, <2>1, <2>2, <2>3, <2>4 DEF Serve
<1>5. QED
  BY <1>1, <1>2, <1>3, <1>4 DEF SysNext

LEMMA SysInvHolds == SysSpec => []SysInv
<1>1. SysInv /\ [SysNext]_sysVars => SysInv'
  BY SysStep
<1>2. QED
  BY <1>1, SysInvInit, PTL DEF SysSpec

-----------------------------------------------------------------------------
(* The theorems about requests.                                            *)

\* Whatever clients ask for, the daemon behaves as it does without them: to it
\* a forced request is a process that exits. What is proved of Daemon!Spec
\* holds beside any number of requests. (handlers.go:143-209, daemon.go:97-325)
THEOREM RequestsAreExits == SysSpec => Spec
<1>1. SysInit => Init
  BY DEF SysInit
<1>2. SysInv /\ [SysNext]_sysVars => [Next]_vars
  BY SysStep
<1>3. QED
  BY <1>1, <1>2, SysInvHolds, PTL DEF SysSpec, Spec

\* The stages of a handler and what it has written go together.
\* (handlers.go:143-209)
THEOREM HandlersTyped == SysSpec => []ApiTypeOK
<1>1. SysInv => ApiTypeOK
  BY DEF SysInv, Handlers, HandlerRecord, HandlerFacts, ApiTypeOK
<1>2. QED
  BY <1>1, SysInvHolds, PTL

\* Every reply accounts for all pids it accepted, and is true of each process
\* that is still the one the snapshot listed. (handlers.go:163-208,
\* daemon.go:301-325, executor.go:295-327)
THEOREM RepliesTellTheTruth == SysSpec => []RepliesAreTrue
<1>1. SysInv => RepliesAreTrue
  BY DEF SysInv, Handlers, HandlerFacts, RepliesAreTrue, Answered, PidsAt
<1>2. QED
  BY <1>1, SysInvHolds, PTL

\* In a dry run neither checks nor requests touch a process.
\* (daemon.go:189-195, handlers.go:175-184)
THEOREM DryRunsTouchNobody == SysSpec => []DryRunTouchesNobody
<1>1. SysSpec => []DryRunIsInert
  BY RequestsAreExits, DryRunsAreInert, PTL
<1>2. SysInv /\ DryRunIsInert => DryRunTouchesNobody
  BY DEF SysInv, Handlers, HandlerFacts, DryRunTouchesNobody
<1>3. QED
  BY <1>1, <1>2, SysInvHolds, PTL

\* Beside requests, too, the executor kills only whom it has warned, as long as
\* no pid under a running check is given to a new process. (executor.go:138-189)
THEOREM KillsStandRequests == ~ReuseTargets => (SysSpec => []KillOnlySurvivors)
  BY RequestsAreExits, OnlySurvivorsAreKilled, PTL

\* Beside requests, too, the SIGKILL loop leaves no survivor out.
\* (executor.go:168-189)
THEOREM SurvivorsFallBesideRequests == SysSpec => []SurvivorsAreKilled
  BY RequestsAreExits, NoSurvivorIsSpared, PTL

\* Beside requests, too, the daemon implements Enforcement: it does not act on a
\* process that a request has killed, nor count a client's SIGTERM as its own
\* warning. (daemon.go:97-325, handlers.go:143-209)
THEOREM PromiseStandsRequests == ~ReuseTargets => (SysSpec => Enforced)
  BY RequestsAreExits, DaemonKeepsPromise
=============================================================================
