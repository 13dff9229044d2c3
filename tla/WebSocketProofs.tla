-------------------------- MODULE WebSocketProofs --------------------------
(***************************************************************************)
(* Theorems about WebSocket, for any number of connections and requests    *)
(* and any lengths of the timers. Types and the registry are one inductive *)
(* invariant: that a goroutine writes only where it may rests on a         *)
(* broadcast's loop being empty outside the read lock, and that the        *)
(* registry holds the open connections rests on where handlers are. That    *)
(* broadcasts are the rounds of Rounds follows step by step; the heartbeat *)
(* rests on that invariant, too, and on who has the turn at a connection.  *)
(***************************************************************************)
EXTENDS WebSocket, TLAPS

Inv == TypeOK /\ RegistryIsOpen

-----------------------------------------------------------------------------
(* A connection is well typed when it is opened, and stays so.             *)
LEMMA FreshType == Fresh \in Connection
  BY WebSocketAssumption DEF Fresh, Connection, Clock

LEMMA AtType ==
  ASSUME NEW r \in Connection,
         NEW s \in {"register", "greet", "close"}
  PROVE  /\ [r EXCEPT !.at = s] \in Connection
         /\ [r EXCEPT !.at = s].at = s
  BY DEF Connection

LEMMA WriteErrType ==
  ASSUME NEW r \in Connection, NEW w \in Writers, HasTurn(w, r)
  PROVE  /\ [r EXCEPT !.mu = Tail(@), !.writeErr = TRUE] \in Connection
         /\ [r EXCEPT !.mu = Tail(@), !.writeErr = TRUE].at = r.at
         /\ [r EXCEPT !.mu = Tail(@)] \in Connection
         /\ [r EXCEPT !.mu = Tail(@)].at = r.at
  <1>1. Tail(r.mu) \in Seq(Writers)
    BY DEF HasTurn, Connection
  <1>2. QED
    BY <1>1 DEF Connection

LEMMA IsWritingType ==
  ASSUME NEW r \in Connection, NEW w \in Writers
  PROVE  /\ [r EXCEPT !.isWriting = FALSE] \in Connection
         /\ [r EXCEPT !.isWriting = FALSE].at = r.at
         /\ [r EXCEPT !.isWriting = TRUE, !.mu = Append(@, w)]
                \in Connection
         /\ [r EXCEPT !.isWriting = TRUE, !.mu = Append(@, w)].at = r.at
  <1>1. Append(r.mu, w) \in Seq(Writers)
    BY DEF Connection
  <1>2. QED
    BY <1>1 DEF Connection

LEMMA HandledType ==
  ASSUME NEW r \in Connection, NEW ok \in BOOLEAN
  PROVE  /\ Handled(r, ok) \in Connection
         /\ Handled(r, ok).at \in {"select", "unregister"}
  <1>1. PingPeriod \in Clock(PingPeriod) /\ PongWait \in Clock(PongWait)
    BY WebSocketAssumption DEF Clock
  <1>2. None \in Clock(PingPeriod)
    BY DEF Clock
  <1>3. CASE ~ok
    BY <1>2, <1>3 DEF Handled, Connection
  <1>4. CASE ok /\ r.at = "greet"
    BY <1>1, <1>4 DEF Handled, Connection
  <1>5. CASE ok /\ r.at # "greet"
    BY <1>5 DEF Handled, Connection
  <1>6. QED
    BY <1>3, <1>4, <1>5

(* A clock that has run out stays at zero, and one that is not set unset.  *)
LEMMA ElapseType ==
  ASSUME NEW limit \in Nat, NEW n \in Clock(limit)
  PROVE  Elapse(n) \in Clock(limit)
  BY WebSocketAssumption DEF Elapse, Clock

(* What a goroutine may write to is a client: a handler that writes is     *)
(* registered, and a broadcast holds registered connections only.          *)
LEMMA TargetsAreClients ==
  ASSUME Inv, NEW w \in Writers
  PROVE  Targets(w) \subseteq clients
  <1>1. CASE w \in Conns
    BY <1>1 DEF Inv, RegistryIsOpen, Targets
  <1>2. CASE w \notin Conns
    BY <1>2 DEF Inv, RegistryIsOpen, Targets, Writers
  <1>3. QED
    BY <1>1, <1>2

(* A handler that is not at a write does not disturb those who are.        *)
LEMMA HandlerMoves ==
  ASSUME Inv, NEW c \in Conns, conn[c].at \notin {"greet", "ping"},
         \A d \in Conns \ {c} : conn'[d] = conn[d],
         UNCHANGED <<todo, writing>>
  PROVE  WritesInPlace'
  <1> SUFFICES ASSUME NEW w \in Writers, writing[w] # None
               PROVE  writing[w].conn \in Targets(w)'
    BY DEF WritesInPlace
  <1>1. writing[w].conn \in Targets(w)
    BY DEF Inv, TypeOK, WritesInPlace
  <1>2. CASE w \in Conns
    <2>1. w # c /\ conn'[w] = conn[w]
      BY <1>1, <1>2 DEF Targets
    <2>2. QED
      BY <1>1, <1>2, <2>1 DEF Targets
  <1>3. CASE w \notin Conns
    BY <1>1, <1>3 DEF Targets
  <1>4. QED
    BY <1>2, <1>3

(* Steps that move no handler and begin or end no write keep everything.   *)
LEMMA NobodyMoves ==
  ASSUME Inv,
         conn' \in [Conns -> Connection],
         \A d \in Conns : conn'[d].at = conn[d].at,
         writing' \in [Writers -> [conn : Conns, left : Clock(WriteWait)] \cup {None}],
         \A w \in Writers : writing'[w] # None =>
             writing[w] # None /\ writing'[w].conn = writing[w].conn,
         crashed' \in BOOLEAN,
         UNCHANGED <<clients, readers, pending, todo>>
  PROVE  Inv'
  <1>1. \A w \in Writers : Targets(w)' = Targets(w)
    BY DEF Targets
  <1>2. WritesInPlace'
    BY <1>1 DEF Inv, TypeOK, WritesInPlace
  <1>3. LockInPlace'
    BY DEF Inv, TypeOK, LockInPlace
  <1>4. RegistryIsOpen'
    BY DEF Inv, RegistryIsOpen
  <1>5. QED
    BY <1>2, <1>3, <1>4 DEF Inv, TypeOK

-----------------------------------------------------------------------------
(* Where the end of a write leaves the others.                             *)
LEMMA HandlerWriteEnds ==
  ASSUME Inv, NEW c \in Conns,
         \A d \in Conns \ {c} : conn'[d] = conn[d],
         writing' = [writing EXCEPT ![c] = None], todo' = todo
  PROVE  WritesInPlace'
  <1> SUFFICES ASSUME NEW v \in Writers, writing'[v] # None
               PROVE  writing'[v].conn \in Targets(v)'
    BY DEF WritesInPlace
  <1>1. v # c /\ writing'[v] = writing[v]
    BY DEF Inv, TypeOK, Writers
  <1>2. writing[v].conn \in Targets(v)
    BY <1>1 DEF Inv, TypeOK, WritesInPlace
  <1>3. QED
    BY <1>1, <1>2 DEF Targets

LEMMA BroadcastWriteEnds ==
  ASSUME Inv, NEW b \in Broadcasters, b \notin Conns,
         \A d \in Conns : conn'[d].at = conn[d].at,
         writing' = [writing EXCEPT ![b] = None],
         \A a \in Broadcasters \ {b} : todo'[a] = todo[a]
  PROVE  WritesInPlace'
  <1> SUFFICES ASSUME NEW v \in Writers, writing'[v] # None
               PROVE  writing'[v].conn \in Targets(v)'
    BY DEF WritesInPlace
  <1>1. v # b /\ writing'[v] = writing[v]
    BY DEF Inv, TypeOK, Writers
  <1>2. writing[v].conn \in Targets(v)
    BY <1>1 DEF Inv, TypeOK, WritesInPlace
  <1>3. QED
    BY <1>1, <1>2 DEF Targets, Writers

(* After a panic of the ticker nothing is left.                            *)
LEMMA EmptyInv ==
  ASSUME conn' = [d \in Conns |-> Fresh],
         clients' = {}, readers' = {}, pending' = None, crashed' \in BOOLEAN,
         todo' = [b \in Broadcasters |-> {}],
         writing' = [v \in Writers |-> None]
  PROVE  Inv'
  <1>1. WritesInPlace' /\ LockInPlace'
    BY DEF WritesInPlace, LockInPlace
  <1>2. RegistryIsOpen'
    BY DEF RegistryIsOpen, Fresh
  <1>3. QED
    BY <1>1, <1>2, FreshType DEF Inv, TypeOK

(* The steps that end a write.                                             *)
LEMMA ReturnsInv ==
  ASSUME Inv, NEW w \in Writers, NEW c \in Targets(w),
         NEW r \in Connection, r.at = conn[c].at,
         NEW ok \in BOOLEAN, Returns(w, c, r, ok)
  PROVE  Inv'
  <1>1. c \in Conns /\ c \in clients
    BY TargetsAreClients DEF Inv, TypeOK
  <1>2. CASE w \in Conns
    <2>1. c = w
      BY <1>2 DEF Targets
    <2>2. conn' = [conn EXCEPT ![c] = Handled(r, ok)] /\ todo' = todo
      BY <1>2 DEF Returns
    <2>3. conn' \in [Conns -> Connection]
      BY <2>2, HandledType DEF Inv, TypeOK
    <2>4. conn'[c].at \in {"select", "unregister"}
      BY <1>1, <2>2, HandledType DEF Inv, TypeOK
    <2>5. conn[c].at \in {"greet", "ping"}
      BY <1>2 DEF Targets
    <2>o. \A d \in Conns \ {c} : conn'[d] = conn[d]
      BY <2>2 DEF Inv, TypeOK
    <2>e. writing' = [writing EXCEPT ![c] = None]
      BY <2>1 DEF Returns
    <2>w. WritesInPlace'
      BY <1>1, <2>2, <2>o, <2>e, HandlerWriteEnds
    <2>l. LockInPlace'
      BY <2>2, <2>5 DEF Inv, TypeOK, LockInPlace, Returns
    <2>6. TypeOK'
      BY <2>2, <2>3, <2>w, <2>l DEF Inv, TypeOK, Returns
    <2>7. RegistryIsOpen'
      BY <1>1, <2>2, <2>4, <2>5 DEF Inv, TypeOK, RegistryIsOpen, Returns
    <2>8. QED
      BY <2>6, <2>7 DEF Inv
  <1>3. CASE w \notin Conns
    <2>1. w \in Broadcasters
      BY <1>3 DEF Writers
    <2>2. conn' = [conn EXCEPT ![c] = r] /\ todo' = [todo EXCEPT ![w] = @ \ {c}]
      BY <1>3 DEF Returns
    <2>3. conn' \in [Conns -> Connection] /\ \A d \in Conns : conn'[d].at = conn[d].at
      BY <2>2 DEF Inv, TypeOK
    <2>o. \A b \in Broadcasters \ {w} : todo'[b] = todo[b]
      BY <2>2 DEF Inv, TypeOK
    <2>e. writing' = [writing EXCEPT ![w] = None]
      BY DEF Returns
    <2>w. WritesInPlace'
      BY <1>3, <2>1, <2>3, <2>o, <2>e, BroadcastWriteEnds
    <2>l. LockInPlace'
      BY <2>3 DEF Inv, TypeOK, LockInPlace, Returns
    <2>4. TypeOK'
      BY <1>1, <2>1, <2>2, <2>3, <2>w, <2>l DEF Inv, TypeOK, Returns
    <2>5. RegistryIsOpen'
      BY <1>1, <2>1, <2>2, <2>3 DEF Inv, TypeOK, RegistryIsOpen, Returns
    <2>6. QED
      BY <2>4, <2>5 DEF Inv
  <1>4. QED
    BY <1>2, <1>3

LEMMA PanicsInv ==
  ASSUME Inv, NEW w \in Writers, NEW c \in Targets(w),
         NEW r \in Connection, r.at = conn[c].at, Panics(w, c, r)
  PROVE  Inv'
  <1>1. c \in Conns /\ c \in clients
    BY TargetsAreClients DEF Inv, TypeOK
  <1>2. CASE w = Ticker
    <2>1. /\ conn' = [d \in Conns |-> Fresh]
          /\ clients' = {} /\ readers' = {} /\ pending' = None /\ crashed' = TRUE
          /\ todo' = [b \in Broadcasters |-> {}]
          /\ writing' = [v \in Writers |-> None]
      BY <1>2 DEF Panics
    <2>2. QED
      BY <2>1, EmptyInv
  <1>3. CASE w \in Conns
    <2>1. c = w /\ conn[c].at \in {"greet", "ping"}
      BY <1>3 DEF Targets
    <2>2. conn' = [conn EXCEPT ![c] = [r EXCEPT !.at = "unregister", !.ping = None]]
      BY <1>3, WebSocketAssumption DEF Panics
    <2>3. /\ conn' \in [Conns -> Connection]
          /\ conn'[c].at = "unregister"
      BY <1>1, <2>2 DEF Inv, TypeOK, Connection, Clock
    <2>k. /\ writing' = [writing EXCEPT ![w] = None]
          /\ UNCHANGED <<clients, readers, pending, todo, crashed>>
      BY <1>3, WebSocketAssumption DEF Panics
    <2>o. \A d \in Conns \ {c} : conn'[d] = conn[d]
      BY <2>2 DEF Inv, TypeOK
    <2>e. writing' = [writing EXCEPT ![c] = None]
      BY <2>1, <2>k
    <2>w. WritesInPlace'
      BY <1>1, <2>k, <2>o, <2>e, HandlerWriteEnds
    <2>l. LockInPlace'
      BY <2>1, <2>2, <2>k DEF Inv, TypeOK, LockInPlace
    <2>4. TypeOK'
      BY <2>3, <2>k, <2>w, <2>l DEF Inv, TypeOK
    <2>5. RegistryIsOpen'
      BY <1>1, <2>1, <2>2, <2>3, <2>k DEF Inv, TypeOK, RegistryIsOpen
    <2>6. QED
      BY <2>4, <2>5 DEF Inv
  <1>4. CASE w \in Requesters
    <2>1. w \in Broadcasters /\ w \notin Conns /\ w # Ticker
      BY <1>4, WebSocketAssumption DEF Broadcasters
    <2>2. conn' = [conn EXCEPT ![c] = r] /\ todo' = [todo EXCEPT ![w] = {}]
      BY <2>1 DEF Panics
    <2>3. conn' \in [Conns -> Connection] /\ \A d \in Conns : conn'[d].at = conn[d].at
      BY <2>2 DEF Inv, TypeOK
    <2>w. WritesInPlace'
      BY <2>1, <2>2, <2>3, BroadcastWriteEnds DEF Panics
    <2>l. LockInPlace'
      BY <2>1, <2>3 DEF Inv, TypeOK, LockInPlace, Panics
    <2>4. TypeOK'
      BY <2>1, <2>2, <2>3, <2>w, <2>l DEF Inv, TypeOK, Panics
    <2>5. RegistryIsOpen'
      BY <1>1, <2>1, <2>2, <2>3 DEF Inv, TypeOK, RegistryIsOpen, Panics
    <2>6. QED
      BY <2>4, <2>5 DEF Inv
  <1>5. QED
    BY <1>2, <1>3, <1>4 DEF Writers, Broadcasters

LEMMA FinishInv ==
  ASSUME Inv, NEW w \in Writers, NEW c \in Targets(w),
         NEW r \in Connection, r.at = conn[c].at,
         NEW ok \in BOOLEAN, Finish(w, c, r, ok)
  PROVE  Inv'
  <1>1. CASE r.isWriting
    <2> DEFINE s == [r EXCEPT !.isWriting = FALSE]
    <2>1. s \in Connection /\ s.at = conn[c].at
      BY IsWritingType
    <2>2. Returns(w, c, s, ok)
      BY <1>1 DEF Finish
    <2> HIDE DEF s
    <2>3. QED
      BY <2>1, <2>2, ReturnsInv
  <1>2. CASE ~r.isWriting
    BY <1>2, PanicsInv DEF Finish
  <1>3. QED
    BY <1>1, <1>2

(* The steps of a write.                                                   *)
LEMMA WriteInv ==
  ASSUME Inv, NEW w \in Writers, Write(w)
  PROVE  Inv'
  <1>0. conn \in [Conns -> Connection]
    BY DEF Inv, TypeOK
  <1>1. ASSUME NEW c \in Conns, WriteRefused(w, c)
        PROVE  Inv'
    BY <1>0, <1>1, ReturnsInv DEF WriteRefused
  <1>2. ASSUME NEW c \in Conns, WriteBegins(w, c)
        PROVE  Inv'
    <2>1. /\ conn' \in [Conns -> Connection]
          /\ \A d \in Conns : conn'[d].at = conn[d].at
      <3> DEFINE r == [conn[c] EXCEPT !.isWriting = TRUE,
                                    !.mu = Append(@, w)]
      <3>1. r \in Connection /\ r.at = conn[c].at
        BY <1>0, IsWritingType
      <3>2. conn' = [conn EXCEPT ![c] = r]
        BY <1>2 DEF WriteBegins
      <3> HIDE DEF r
      <3>3. QED
        BY <1>0, <3>1, <3>2
    <2>2. conn[c].deadline \in Clock(WriteWait)
      BY <1>0 DEF Connection
    <2>3. \A v \in Writers : Targets(v)' = Targets(v)
      BY <1>2, <2>1 DEF WriteBegins, Targets
    <2>w. WritesInPlace'
      BY <1>2, <2>3 DEF Inv, TypeOK, WriteBegins, WritesInPlace
    <2>l. LockInPlace'
      BY <1>2, <2>1 DEF Inv, TypeOK, WriteBegins, LockInPlace
    <2>4. TypeOK'
      BY <1>2, <2>1, <2>2, <2>w, <2>l DEF Inv, TypeOK, WriteBegins
    <2>5. RegistryIsOpen'
      BY <1>2, <2>1 DEF Inv, RegistryIsOpen, WriteBegins
    <2>6. QED
      BY <2>4, <2>5 DEF Inv
  <1>3. ASSUME NEW c \in Conns, WritePanics(w, c)
        PROVE  Inv'
    BY <1>0, <1>3, PanicsInv DEF WritePanics
  <1>4. ASSUME WriteSucceeds(w)
        PROVE  Inv'
    <2> DEFINE c == writing[w].conn
               r == [conn[c] EXCEPT !.mu = Tail(@)]
    <2>1. c \in Targets(w) /\ c \in Conns
      BY <1>4 DEF WriteSucceeds, Inv, TypeOK, WritesInPlace
    <2>2. r \in Connection /\ r.at = conn[c].at
      BY <1>0, <1>4, <2>1, WriteErrType DEF WriteSucceeds
    <2>3. Finish(w, c, r, TRUE)
      BY <1>4 DEF WriteSucceeds
    <2> HIDE DEF c, r
    <2>4. QED
      BY <2>1, <2>2, <2>3, FinishInv
  <1>5. ASSUME WriteFails(w)
        PROVE  Inv'
    <2> DEFINE c == writing[w].conn
               r == [conn[c] EXCEPT !.mu = Tail(@), !.writeErr = TRUE]
    <2>1. c \in Targets(w) /\ c \in Conns
      BY <1>5 DEF WriteFails, Inv, TypeOK, WritesInPlace
    <2>2. r \in Connection /\ r.at = conn[c].at
      BY <1>0, <1>5, <2>1, WriteErrType DEF WriteFails
    <2>3. Finish(w, c, r, FALSE)
      BY <1>5 DEF WriteFails
    <2> HIDE DEF c, r
    <2>4. QED
      BY <2>1, <2>2, <2>3, FinishInv
  <1>6. QED
    BY <1>1, <1>2, <1>3, <1>4, <1>5 DEF Write

-----------------------------------------------------------------------------
(* The registry.                                                           *)
LEMMA RegistryInv ==
  ASSUME Inv, NEW c \in Conns, Connect(c) \/ Registry(c)
  PROVE  Inv'
  <1>0. conn \in [Conns -> Connection]
    BY DEF Inv, TypeOK
  <1>1. CASE Connect(c)
    <2>1. /\ conn' \in [Conns -> Connection]
          /\ conn'[c].at = "register"
          /\ \A d \in Conns \ {c} : conn'[d] = conn[d]
      <3> DEFINE r == [conn[c] EXCEPT !.at = "register"]
      <3>1. r \in Connection /\ r.at = "register"
        BY <1>0, AtType
      <3>2. conn' = [conn EXCEPT ![c] = r]
        BY <1>1 DEF Connect
      <3> HIDE DEF r
      <3>3. QED
        BY <1>0, <3>1, <3>2
    <2>2. WritesInPlace'
      BY <1>1, <2>1, HandlerMoves DEF Connect
    <2>3. LockInPlace'
      BY <1>1, <2>1 DEF Connect, Inv, TypeOK, LockInPlace
    <2>4. RegistryIsOpen'
      BY <1>1, <2>1 DEF Connect, Inv, RegistryIsOpen
    <2>5. QED
      BY <1>1, <2>1, <2>2, <2>3, <2>4 DEF Connect, Inv, TypeOK
  <1>2. CASE Lock(c)
    <2>1. WritesInPlace'
      BY <1>2, HandlerMoves DEF Lock
    <2>2. LockInPlace'
      BY <1>2 DEF Lock, LockInPlace
    <2>3. RegistryIsOpen'
      BY <1>2 DEF Lock, Inv, RegistryIsOpen
    <2>4. QED
      BY <1>2, <2>1, <2>2, <2>3 DEF Lock, Inv, TypeOK
  <1>3. CASE RegisterClient(c)
    <2>1. /\ conn' \in [Conns -> Connection]
          /\ conn'[c].at = "greet"
          /\ \A d \in Conns \ {c} : conn'[d] = conn[d]
      <3> DEFINE r == [conn[c] EXCEPT !.at = "greet"]
      <3>1. r \in Connection /\ r.at = "greet"
        BY <1>0, AtType
      <3>2. conn' = [conn EXCEPT ![c] = r]
        BY <1>3 DEF RegisterClient
      <3> HIDE DEF r
      <3>3. QED
        BY <1>0, <3>1, <3>2
    <2>2. WritesInPlace'
      BY <1>3, <2>1, HandlerMoves DEF RegisterClient
    <2>3. LockInPlace'
      BY <1>3 DEF RegisterClient, LockInPlace
    <2>4. RegistryIsOpen'
      BY <1>3, <2>1 DEF RegisterClient, Inv, RegistryIsOpen
    <2>5. QED
      BY <1>3, <2>1, <2>2, <2>3, <2>4 DEF RegisterClient, Inv, TypeOK
  <1>4. CASE UnregisterClient(c)
    <2>1. /\ conn' \in [Conns -> Connection]
          /\ conn'[c].at = "close"
          /\ \A d \in Conns \ {c} : conn'[d] = conn[d]
      <3> DEFINE r == [conn[c] EXCEPT !.at = "close"]
      <3>1. r \in Connection /\ r.at = "close"
        BY <1>0, AtType
      <3>2. conn' = [conn EXCEPT ![c] = r]
        BY <1>4 DEF UnregisterClient
      <3> HIDE DEF r
      <3>3. QED
        BY <1>0, <3>1, <3>2
    <2>2. WritesInPlace'
      BY <1>4, <2>1, HandlerMoves DEF UnregisterClient
    <2>3. LockInPlace'
      BY <1>4 DEF UnregisterClient, LockInPlace
    <2>4. RegistryIsOpen'
      BY <1>4, <2>1 DEF UnregisterClient, Inv, RegistryIsOpen
    <2>5. QED
      BY <1>4, <2>1, <2>2, <2>3, <2>4 DEF UnregisterClient, Inv, TypeOK
  <1>5. CASE Close(c)
    <2>1. /\ conn' \in [Conns -> Connection]
          /\ conn'[c].at = "closed"
          /\ \A d \in Conns \ {c} : conn'[d] = conn[d]
      BY <1>0, <1>5, FreshType DEF Close, Fresh
    <2>2. WritesInPlace'
      BY <1>5, <2>1, HandlerMoves DEF Close
    <2>3. LockInPlace'
      BY <1>5, <2>1 DEF Close, Inv, TypeOK, LockInPlace
    <2>4. RegistryIsOpen'
      BY <1>5, <2>1 DEF Close, Inv, RegistryIsOpen
    <2>5. QED
      BY <1>5, <2>1, <2>2, <2>3, <2>4 DEF Close, Inv, TypeOK
  <1>6. QED
    BY <1>1, <1>2, <1>3, <1>4, <1>5 DEF Registry

LEMMA BroadcastInv ==
  ASSUME Inv, NEW b \in Broadcasters, BeginBroadcast(b) \/ EndBroadcast(b)
  PROVE  Inv'
  <1>1. CASE BeginBroadcast(b)
    <2>1. todo[b] = {}
      BY <1>1 DEF BeginBroadcast, Inv, RegistryIsOpen
    <2>w. WritesInPlace'
      <3> SUFFICES ASSUME NEW w \in Writers, writing[w] # None
                   PROVE  writing[w].conn \in Targets(w)'
        BY <1>1 DEF BeginBroadcast, WritesInPlace
      <3>1. writing[w].conn \in Targets(w)
        BY DEF Inv, TypeOK, WritesInPlace
      <3>2. CASE w \in Conns
        BY <1>1, <3>1, <3>2 DEF BeginBroadcast, Targets
      <3>3. CASE w \notin Conns
        BY <1>1, <2>1, <3>1, <3>3 DEF BeginBroadcast, Targets, Writers, Inv, TypeOK
      <3>4. QED
        BY <3>2, <3>3
    <2>2. TypeOK'
      BY <1>1, <2>w DEF BeginBroadcast, Inv, TypeOK, LockInPlace
    <2>3. RegistryIsOpen'
      BY <1>1 DEF BeginBroadcast, Inv, TypeOK, RegistryIsOpen
    <2>4. QED
      BY <2>2, <2>3 DEF Inv
  <1>2. CASE EndBroadcast(b)
    BY <1>2 DEF EndBroadcast, Inv, TypeOK, LockInPlace, WritesInPlace,
                RegistryIsOpen, Targets
  <1>3. QED
    BY <1>1, <1>2

(* The ping loop is left for a ping or for good.                           *)
LEMMA SelectLeaves ==
  ASSUME Inv, NEW c \in Conns, Ping(c) \/ DoneReceived(c)
  PROVE  /\ conn' \in [Conns -> Connection]
         /\ conn[c].at = "select"
         /\ conn'[c].at \in {"ping", "unregister"}
         /\ \A d \in Conns \ {c} : conn'[d] = conn[d]
         /\ UNCHANGED <<clients, readers, pending, todo, writing, crashed>>
  <1>0. conn \in [Conns -> Connection] /\ conn[c] \in Connection
    BY DEF Inv, TypeOK
  <1>1. PingPeriod \in Clock(PingPeriod) /\ WriteWait \in Clock(WriteWait)
    BY WebSocketAssumption DEF Clock
  <1>2. None \in Clock(PingPeriod)
    BY DEF Clock
  <1>3. PICK r \in Connection : /\ conn' = [conn EXCEPT ![c] = r]
                                /\ r.at \in {"ping", "unregister"}
    <2>1. CASE Ping(c)
      <3> DEFINE r == [conn[c] EXCEPT !.at = "ping", !.ping = PingPeriod,
                                      !.deadline = WriteWait]
      <3>1. r \in Connection
        BY <1>0, <1>1 DEF Connection
      <3>2. r.at = "ping"
        BY <1>0 DEF Connection
      <3>3. conn' = [conn EXCEPT ![c] = r]
        BY <2>1 DEF Ping
      <3> HIDE DEF r
      <3>4. QED
        BY <3>1, <3>2, <3>3
    <2>2. CASE DoneReceived(c)
      <3> DEFINE r == [conn[c] EXCEPT !.at = "unregister", !.ping = None]
      <3>1. r \in Connection
        BY <1>0, <1>2 DEF Connection
      <3>2. r.at = "unregister"
        BY <1>0 DEF Connection
      <3>3. conn' = [conn EXCEPT ![c] = r]
        BY <2>2 DEF DoneReceived
      <3> HIDE DEF r
      <3>4. QED
        BY <3>1, <3>2, <3>3
    <2>3. QED
      BY <2>1, <2>2
  <1>4. /\ conn' \in [Conns -> Connection]
        /\ conn'[c].at \in {"ping", "unregister"}
        /\ \A d \in Conns \ {c} : conn'[d] = conn[d]
    BY <1>0, <1>3
  <1>5. /\ conn[c].at = "select"
        /\ UNCHANGED <<clients, readers, pending, todo, writing, crashed>>
    BY DEF Ping, DoneReceived
  <1>6. QED
    BY <1>4, <1>5

(* The reading goroutine and the peer move no handler.                     *)
LEMMA ReaderMovesNobody ==
  ASSUME Inv, NEW c \in Conns, Pong(c) \/ ReadFails(c) \/ PeerChanges(c)
  PROVE  /\ conn' \in [Conns -> Connection]
         /\ \A d \in Conns : conn'[d].at = conn[d].at
         /\ UNCHANGED <<clients, readers, pending, todo, writing, crashed>>
  <1>0. conn \in [Conns -> Connection] /\ conn[c] \in Connection
    BY DEF Inv, TypeOK
  <1>1. PongWait \in Clock(PongWait) /\ None \in Clock(PongWait)
    BY WebSocketAssumption DEF Clock
  <1>2. PICK r \in Connection : conn' = [conn EXCEPT ![c] = r] /\ r.at = conn[c].at
    <2>1. CASE Pong(c)
      <3> DEFINE r == [conn[c] EXCEPT !.pinged = FALSE, !.read = PongWait]
      <3>1. r \in Connection
        BY <1>0, <1>1 DEF Connection
      <3>2. r.at = conn[c].at
        BY <1>0 DEF Connection
      <3>3. conn' = [conn EXCEPT ![c] = r]
        BY <2>1 DEF Pong
      <3> HIDE DEF r
      <3>4. QED
        BY <3>1, <3>2, <3>3
    <2>2. CASE ReadFails(c)
      <3> DEFINE r == [conn[c] EXCEPT !.reader = "done", !.read = None, !.pinged = FALSE]
      <3>1. r \in Connection
        BY <1>0, <1>1 DEF Connection
      <3>2. r.at = conn[c].at
        BY <1>0 DEF Connection
      <3>3. conn' = [conn EXCEPT ![c] = r]
        BY <2>2 DEF ReadFails
      <3> HIDE DEF r
      <3>4. QED
        BY <3>1, <3>2, <3>3
    <2>3. CASE PeerChanges(c)
      <3>1. PICK p \in PeerStates :
                conn' = [conn EXCEPT ![c] = [@ EXCEPT !.peer = p, !.steady = FALSE]]
        BY <2>3 DEF PeerChanges
      <3> DEFINE r == [conn[c] EXCEPT !.peer = p, !.steady = FALSE]
      <3>2. p \in {"ready", "silent", "stalled", "gone"}
        BY WebSocketAssumption
      <3>3. r \in Connection
        BY <1>0, <3>2 DEF Connection
      <3>4. r.at = conn[c].at
        BY <1>0 DEF Connection
      <3>5. conn' = [conn EXCEPT ![c] = r]
        BY <3>1
      <3> HIDE DEF r
      <3>6. QED
        BY <3>3, <3>4, <3>5
    <2>4. QED
      BY <2>1, <2>2, <2>3
  <1>3. /\ conn' \in [Conns -> Connection]
        /\ \A d \in Conns : conn'[d].at = conn[d].at
    BY <1>0, <1>2
  <1>4. UNCHANGED <<clients, readers, pending, todo, writing, crashed>>
    BY DEF Pong, ReadFails, PeerChanges
  <1>5. QED
    BY <1>3, <1>4

(* The loops of a connection and its peer.                                 *)
LEMMA LoopsInv ==
  ASSUME Inv, NEW c \in Conns, Loops(c) \/ PeerChanges(c)
  PROVE  Inv'
  <1>1. CASE Ping(c) \/ DoneReceived(c)
    <2>1. /\ conn' \in [Conns -> Connection]
          /\ conn[c].at = "select"
          /\ conn'[c].at \in {"ping", "unregister"}
          /\ \A d \in Conns \ {c} : conn'[d] = conn[d]
      BY <1>1, SelectLeaves
    <2>2. UNCHANGED <<clients, readers, pending, todo, writing, crashed>>
      BY <1>1, SelectLeaves
    <2>3. WritesInPlace'
      BY <2>1, <2>2, HandlerMoves
    <2>4. LockInPlace'
      BY <2>1, <2>2 DEF Inv, TypeOK, LockInPlace
    <2>5. RegistryIsOpen'
      BY <2>1, <2>2 DEF Inv, RegistryIsOpen
    <2>6. QED
      BY <2>1, <2>2, <2>3, <2>4, <2>5 DEF Inv, TypeOK
  <1>2. CASE Pong(c) \/ ReadFails(c) \/ PeerChanges(c)
    BY <1>2, ReaderMovesNobody, NobodyMoves DEF Inv, TypeOK
  <1>3. QED
    BY <1>1, <1>2 DEF Loops

LEMMA TickInv ==
  ASSUME Inv, Tick
  PROVE  Inv'
  <1>1. /\ conn' \in [Conns -> Connection]
        /\ \A d \in Conns : conn'[d].at = conn[d].at
    <2>1. ASSUME NEW d \in Conns
          PROVE  /\ [conn[d] EXCEPT !.ping = Elapse(@), !.read = Elapse(@),
                                    !.deadline = Elapse(@)] \in Connection
                 /\ conn'[d].at = conn[d].at
      <3>1. conn[d] \in Connection
        BY DEF Inv, TypeOK
      <3>2. /\ Elapse(conn[d].ping) \in Clock(PingPeriod)
            /\ Elapse(conn[d].read) \in Clock(PongWait)
            /\ Elapse(conn[d].deadline) \in Clock(WriteWait)
        BY <3>1, ElapseType, WebSocketAssumption DEF Connection
      <3>3. QED
        BY <3>1, <3>2 DEF Tick, Connection
    <2>2. QED
      BY <2>1 DEF Tick
  <1>2. \A w \in Writers : /\ writing[w] = None => writing'[w] = None
                           /\ writing[w] # None =>
                                 /\ writing'[w].conn = writing[w].conn
                                 /\ writing'[w] \in [conn : Conns, left : Clock(WriteWait)]
    <2>1. ASSUME NEW w \in Writers, writing[w] # None
          PROVE  Elapse(writing[w].left) \in Clock(WriteWait)
      BY <2>1, ElapseType, WebSocketAssumption DEF Inv, TypeOK
    <2>2. QED
      BY <2>1 DEF Tick, Inv, TypeOK
  <1>3. writing' \in [Writers -> [conn : Conns, left : Clock(WriteWait)] \cup {None}]
    BY <1>2 DEF Tick, Inv, TypeOK
  <1>4. UNCHANGED <<clients, readers, pending, todo, crashed>>
    BY DEF Tick
  <1>5. crashed' \in BOOLEAN
    BY <1>4 DEF Inv, TypeOK
  <1>6. \A w \in Writers : writing'[w] # None =>
            writing[w] # None /\ writing'[w].conn = writing[w].conn
    BY <1>2
  <1>7. QED
    BY <1>1, <1>3, <1>4, <1>5, <1>6, NobodyMoves

-----------------------------------------------------------------------------
LEMMA InitInv == Init => Inv
  <1> SUFFICES ASSUME Init
               PROVE  Inv
    OBVIOUS
  <1>1. WritesInPlace /\ LockInPlace
    BY DEF Init, WritesInPlace, LockInPlace
  <1>2. RegistryIsOpen
    BY DEF Init, RegistryIsOpen, Fresh
  <1>3. QED
    BY <1>1, <1>2, FreshType DEF Init, Inv, TypeOK

LEMMA NextInv == Inv /\ [Next]_vars => Inv'
  <1> SUFFICES ASSUME Inv, [Next]_vars
               PROVE  Inv'
    OBVIOUS
  <1>1. ASSUME NEW c \in Conns, Connect(c) \/ Registry(c)
        PROVE  Inv'
    BY <1>1, RegistryInv
  <1>2. ASSUME NEW c \in Conns, Loops(c) \/ PeerChanges(c)
        PROVE  Inv'
    BY <1>2, LoopsInv
  <1>3. ASSUME NEW b \in Broadcasters, BeginBroadcast(b) \/ EndBroadcast(b)
        PROVE  Inv'
    BY <1>3, BroadcastInv
  <1>4. ASSUME NEW w \in Writers, Write(w)
        PROVE  Inv'
    BY <1>4, WriteInv
  <1>5. CASE Tick
    BY <1>5, TickInv
  <1>6. CASE Restart
    BY <1>6, NobodyMoves DEF Restart, Inv, TypeOK
  <1>7. CASE UNCHANGED vars
    BY <1>7, NobodyMoves DEF vars, Inv, TypeOK
  <1>8. QED
    BY <1>1, <1>2, <1>3, <1>4, <1>5, <1>6, <1>7 DEF Next

(* Every state is well typed, only the handler that registers or leaves is *)
(* inside Lock, and goroutines write only to the connections they may      *)
(* write to (websocket.go, server.go:105-122).                             *)
THEOREM WebSocketTypeCorrect == Spec => []TypeOK
  <1>1. Inv => TypeOK
    BY DEF Inv
  <1>2. QED
    BY <1>1, InitInv, NextInv, PTL DEF Spec

(* The registry holds exactly the open connections, and no broadcast ever  *)
(* reaches one that has left it (websocket.go:95-105, server.go:112-121).  *)
THEOREM RegistryStaysOpen == Spec => []RegistryIsOpen
  <1>1. Inv => RegistryIsOpen
    BY DEF Inv
  <1>2. QED
    BY <1>1, InitInv, NextInv, PTL DEF Spec

-----------------------------------------------------------------------------
(* Broadcasts are rounds. Apart from where a handler crosses the registry  *)
(* every step but those of a broadcast is a stutter.                       *)
Lives == [c \in Conns |-> Life(conn[c])]

LEMMA RoundStutters ==
  ASSUME \A d \in Conns : Life(conn'[d]) = Life(conn[d]), UNCHANGED <<readers, todo>>
  PROVE  UNCHANGED Round!vars
  <1>1. Lives' = Lives
    BY DEF Lives
  <1>2. QED
    BY <1>1 DEF Lives, Round!vars

(* A handler that moves on.                                                *)
LEMMA RoundTurns ==
  ASSUME NEW c \in Conns, NEW from, NEW to,
         Life(conn[c]) = from, Life(conn'[c]) = to,
         \A d \in Conns \ {c} : conn'[d] = conn[d],
         UNCHANGED <<readers, todo>>
  PROVE  Round!Turns(c, from, to)
  <1>1. Lives' = [Lives EXCEPT ![c] = to] /\ Lives[c] = from
    BY DEF Lives
  <1>2. QED
    BY <1>1 DEF Lives, Round!Turns

LEMMA MembersAreClients ==
  ASSUME Inv
  PROVE  Round!Members = clients
  <1>1. ASSUME NEW c \in Conns
        PROVE  Lives[c] = "member" <=> c \in clients
    <2>1. conn[c].at \in {"closed", "register", "greet", "select", "ping",
                          "unregister", "close"}
      BY DEF Inv, TypeOK, Connection
    <2>2. QED
      BY <2>1 DEF Inv, RegistryIsOpen, Lives, Life
  <1>2. clients \subseteq Conns
    BY DEF Inv, TypeOK
  <1>3. QED
    BY <1>1, <1>2 DEF Round!Members, Lives

LEMMA RoundInit == Init => Round!Init
  BY DEF Init, Round!Init, Life, Fresh

(* The steps of a handler that are not writes.                             *)
LEMMA HandlerKeepsRounds ==
  ASSUME Inv, NEW c \in Conns, Connect(c) \/ Registry(c) \/ Loops(c) \/ PeerChanges(c)
  PROVE  [Round!Next]_(Round!vars)
  <1>0. conn \in [Conns -> Connection] /\ conn[c] \in Connection
    BY DEF Inv, TypeOK
  <1>1. CASE Connect(c)
    <2>1. Round!Turns(c, "closed", "open")
      BY <1>0, <1>1, RoundTurns DEF Connect, Connection, Life
    <2>2. QED
      BY <2>1 DEF Round!Open, Round!Next
  <1>2. CASE RegisterClient(c)
    <2>1. Round!Turns(c, "open", "member") /\ readers = {}
      BY <1>0, <1>2, RoundTurns DEF RegisterClient, Connection, Life
    <2>2. QED
      BY <2>1 DEF Round!Join, Round!Next
  <1>3. CASE UnregisterClient(c)
    <2>1. Round!Turns(c, "member", "left") /\ readers = {}
      BY <1>0, <1>3, RoundTurns DEF UnregisterClient, Connection, Life
    <2>2. QED
      BY <2>1 DEF Round!Leave, Round!Next
  <1>4. CASE Close(c)
    <2>1. Fresh.at = "closed"
      BY DEF Fresh
    <2>2. Round!Turns(c, "left", "closed")
      BY <1>0, <1>4, <2>1, RoundTurns DEF Close, Life
    <2>3. QED
      BY <2>2 DEF Round!Close, Round!Next
  <1>5. CASE Lock(c)
    BY <1>5, RoundStutters DEF Lock
  <1>6. CASE Ping(c) \/ DoneReceived(c)
    <2>1. /\ conn[c].at = "select"
          /\ conn'[c].at \in {"ping", "unregister"}
          /\ \A d \in Conns \ {c} : conn'[d] = conn[d]
          /\ UNCHANGED <<readers, todo>>
      BY <1>6, SelectLeaves
    <2>2. \A d \in Conns : Life(conn'[d]) = Life(conn[d])
      BY <2>1 DEF Life
    <2>3. QED
      BY <2>1, <2>2, RoundStutters
  <1>7. CASE Pong(c) \/ ReadFails(c) \/ PeerChanges(c)
    <2>1. (\A d \in Conns : conn'[d].at = conn[d].at) /\ UNCHANGED <<readers, todo>>
      BY <1>7, ReaderMovesNobody
    <2>2. \A d \in Conns : Life(conn'[d]) = Life(conn[d])
      BY <2>1 DEF Life
    <2>3. QED
      BY <2>1, <2>2, RoundStutters
  <1>8. QED
    BY <1>1, <1>2, <1>3, <1>4, <1>5, <1>6, <1>7 DEF Registry, Loops

(* Somebody is served when a broadcaster's write returns.                  *)
LEMMA ReturnsKeepRounds ==
  ASSUME Inv, NEW w \in Writers, NEW c \in Targets(w),
         NEW r \in Connection, r.at = conn[c].at,
         NEW ok \in BOOLEAN, Returns(w, c, r, ok)
  PROVE  [Round!Next]_(Round!vars)
  <1>0. c \in Conns /\ readers' = readers
    BY TargetsAreClients DEF Inv, TypeOK, Returns
  <1>1. CASE w \in Conns
    <2>1. conn' = [conn EXCEPT ![c] = Handled(r, ok)] /\ todo' = todo
      BY <1>1 DEF Returns
    <2>2. conn[c].at \in {"greet", "ping"} /\ conn'[c].at \in {"select", "unregister"}
      BY <1>0, <1>1, <2>1, HandledType DEF Targets, Inv, TypeOK
    <2>3. \A d \in Conns \ {c} : conn'[d] = conn[d]
      BY <2>1 DEF Inv, TypeOK
    <2>4. \A d \in Conns : Life(conn'[d]) = Life(conn[d])
      BY <2>2, <2>3 DEF Life
    <2>5. QED
      BY <1>0, <2>1, <2>4, RoundStutters
  <1>2. CASE w \notin Conns
    <2>1. w \in Broadcasters /\ c \in todo[w]
      BY <1>2 DEF Writers, Targets
    <2>2. w \in readers
      BY <2>1 DEF Inv, RegistryIsOpen
    <2>3. conn' = [conn EXCEPT ![c] = r] /\ todo' = [todo EXCEPT ![w] = @ \ {c}]
      BY <1>2 DEF Returns
    <2>4. \A d \in Conns : Life(conn'[d]) = Life(conn[d])
      BY <2>3 DEF Life, Inv, TypeOK
    <2>5. Lives' = Lives
      BY <2>4 DEF Lives
    <2>6. Round!Serve(w, c)
      BY <1>0, <2>1, <2>2, <2>3, <2>5 DEF Round!Serve, Lives
    <2>7. QED
      BY <1>0, <2>1, <2>6 DEF Round!Next
  <1>3. QED
    BY <1>1, <1>2

(* A panic ends a round, or everything.                                    *)
LEMMA PanicsKeepRounds ==
  ASSUME Inv, NEW w \in Writers, NEW c \in Targets(w),
         NEW r \in Connection, r.at = conn[c].at, Panics(w, c, r)
  PROVE  [Round!Next]_(Round!vars)
  <1>0. c \in Conns
    BY TargetsAreClients DEF Inv, TypeOK
  <1>1. CASE w = Ticker
    <2>1. conn' = [d \in Conns |-> Fresh] /\ readers' = {} /\ todo' = [b \in Broadcasters |-> {}]
      BY <1>1 DEF Panics
    <2>2. Lives' = [d \in Conns |-> "closed"]
      BY <2>1 DEF Lives, Life, Fresh
    <2>3. Round!Collapse
      BY <2>1, <2>2 DEF Round!Collapse, Lives
    <2>4. QED
      BY <2>3 DEF Round!Next
  <1>2. CASE w \in Conns
    <2>1. w # Ticker
      BY <1>2, WebSocketAssumption
    <2>2. /\ conn' = [conn EXCEPT ![c] = [r EXCEPT !.at = "unregister", !.ping = None]]
          /\ UNCHANGED <<readers, todo>>
      BY <1>2, <2>1 DEF Panics
    <2>3. conn[c].at \in {"greet", "ping"} /\ conn'[c].at = "unregister"
      BY <1>0, <1>2, <2>2 DEF Targets, Inv, TypeOK, Connection
    <2>4. \A d \in Conns \ {c} : conn'[d] = conn[d]
      BY <2>2 DEF Inv, TypeOK
    <2>5. \A d \in Conns : Life(conn'[d]) = Life(conn[d])
      BY <2>3, <2>4 DEF Life
    <2>6. QED
      BY <2>2, <2>5, RoundStutters
  <1>3. CASE w # Ticker /\ w \notin Conns
    <2>1. w \in Broadcasters /\ c \in todo[w]
      BY <1>3 DEF Writers, Targets
    <2>2. w \in readers
      BY <2>1 DEF Inv, RegistryIsOpen
    <2>3. /\ conn' = [conn EXCEPT ![c] = r]
          /\ readers' = readers \ {w}
          /\ todo' = [todo EXCEPT ![w] = {}]
      BY <1>3 DEF Panics
    <2>4. \A d \in Conns : Life(conn'[d]) = Life(conn[d])
      BY <2>3 DEF Life, Inv, TypeOK
    <2>5. Lives' = Lives
      BY <2>4 DEF Lives
    <2>6. Round!Break(w)
      BY <2>2, <2>3, <2>5 DEF Round!Break, Lives
    <2>7. QED
      BY <2>1, <2>6 DEF Round!Next
  <1>4. QED
    BY <1>1, <1>2, <1>3

LEMMA FinishKeepsRounds ==
  ASSUME Inv, NEW w \in Writers, NEW c \in Targets(w),
         NEW r \in Connection, r.at = conn[c].at,
         NEW ok \in BOOLEAN, Finish(w, c, r, ok)
  PROVE  [Round!Next]_(Round!vars)
  <1>1. CASE r.isWriting
    <2> DEFINE s == [r EXCEPT !.isWriting = FALSE]
    <2>1. s \in Connection /\ s.at = conn[c].at
      BY IsWritingType
    <2>2. Returns(w, c, s, ok)
      BY <1>1 DEF Finish
    <2> HIDE DEF s
    <2>3. QED
      BY <2>1, <2>2, ReturnsKeepRounds
  <1>2. CASE ~r.isWriting
    BY <1>2, PanicsKeepRounds DEF Finish
  <1>3. QED
    BY <1>1, <1>2

LEMMA WriteKeepsRounds ==
  ASSUME Inv, NEW w \in Writers, Write(w)
  PROVE  [Round!Next]_(Round!vars)
  <1>0. conn \in [Conns -> Connection]
    BY DEF Inv, TypeOK
  <1>1. ASSUME NEW c \in Conns, WriteRefused(w, c)
        PROVE  [Round!Next]_(Round!vars)
    BY <1>0, <1>1, ReturnsKeepRounds DEF WriteRefused
  <1>2. ASSUME NEW c \in Conns, WriteBegins(w, c)
        PROVE  [Round!Next]_(Round!vars)
    <2> DEFINE r == [conn[c] EXCEPT !.isWriting = TRUE, !.mu = Append(@, w)]
    <2>1. r.at = conn[c].at
      BY <1>0, IsWritingType
    <2>2. conn' = [conn EXCEPT ![c] = r] /\ UNCHANGED <<readers, todo>>
      BY <1>2 DEF WriteBegins
    <2> HIDE DEF r
    <2>3. \A d \in Conns : Life(conn'[d]) = Life(conn[d])
      BY <1>0, <2>1, <2>2 DEF Life
    <2>4. QED
      BY <2>2, <2>3, RoundStutters
  <1>3. ASSUME NEW c \in Conns, WritePanics(w, c)
        PROVE  [Round!Next]_(Round!vars)
    BY <1>0, <1>3, PanicsKeepRounds DEF WritePanics
  <1>4. ASSUME WriteSucceeds(w)
        PROVE  [Round!Next]_(Round!vars)
    <2> DEFINE c == writing[w].conn
               r == [conn[c] EXCEPT !.mu = Tail(@)]
    <2>1. c \in Targets(w) /\ c \in Conns
      BY <1>4 DEF WriteSucceeds, Inv, TypeOK, WritesInPlace
    <2>2. r \in Connection /\ r.at = conn[c].at
      BY <1>0, <1>4, <2>1, WriteErrType DEF WriteSucceeds
    <2>3. Finish(w, c, r, TRUE)
      BY <1>4 DEF WriteSucceeds
    <2> HIDE DEF c, r
    <2>4. QED
      BY <2>1, <2>2, <2>3, FinishKeepsRounds
  <1>5. ASSUME WriteFails(w)
        PROVE  [Round!Next]_(Round!vars)
    <2> DEFINE c == writing[w].conn
               r == [conn[c] EXCEPT !.mu = Tail(@), !.writeErr = TRUE]
    <2>1. c \in Targets(w) /\ c \in Conns
      BY <1>5 DEF WriteFails, Inv, TypeOK, WritesInPlace
    <2>2. r \in Connection /\ r.at = conn[c].at
      BY <1>0, <1>5, <2>1, WriteErrType DEF WriteFails
    <2>3. Finish(w, c, r, FALSE)
      BY <1>5 DEF WriteFails
    <2> HIDE DEF c, r
    <2>4. QED
      BY <2>1, <2>2, <2>3, FinishKeepsRounds
  <1>6. QED
    BY <1>1, <1>2, <1>3, <1>4, <1>5 DEF Write

LEMMA RoundStep ==
  ASSUME Inv, [Next]_vars
  PROVE  [Round!Next]_(Round!vars)
  <1>1. ASSUME NEW b \in Broadcasters, BeginBroadcast(b)
        PROVE  [Round!Next]_(Round!vars)
    <2>1. Round!Begin(b)
      BY <1>1, MembersAreClients DEF BeginBroadcast, Round!Begin
    <2>2. QED
      BY <2>1 DEF Round!Next
  <1>2. ASSUME NEW b \in Broadcasters, EndBroadcast(b)
        PROVE  [Round!Next]_(Round!vars)
    <2>1. Round!End(b)
      BY <1>2 DEF EndBroadcast, Round!End
    <2>2. QED
      BY <2>1 DEF Round!Next
  <1>3. CASE Tick \/ Restart \/ UNCHANGED vars
    <2>1. \A d \in Conns : conn'[d].at = conn[d].at
      <3>1. ASSUME NEW d \in Conns, Tick
            PROVE  conn'[d].at = conn[d].at
        BY <3>1 DEF Tick, Inv, TypeOK, Connection
      <3>2. QED
        BY <1>3, <3>1 DEF Restart, vars
    <2>2. UNCHANGED <<readers, todo>>
      BY <1>3 DEF Tick, Restart, vars
    <2>3. \A d \in Conns : Life(conn'[d]) = Life(conn[d])
      BY <2>1 DEF Life
    <2>4. QED
      BY <2>2, <2>3, RoundStutters
  <1>4. QED
    BY <1>1, <1>2, <1>3, HandlerKeepsRounds, WriteKeepsRounds DEF Next

(* Whatever else goes on, broadcasts are rounds that begin with the whole  *)
(* registry, serve everybody once, and are never overtaken by a change of  *)
(* the registry or the closing of a connection (websocket.go:24-98,        *)
(* server.go:112-121).                                                     *)
THEOREM BroadcastsServeRounds == Spec => BroadcastsAreRounds
  <1>1. Inv /\ [Next]_vars => [Round!Next]_(Round!vars)
    BY RoundStep
  <1>2. QED
    BY <1>1, RoundInit, InitInv, NextInv, PTL DEF Spec, BroadcastsAreRounds, Round!Spec

-----------------------------------------------------------------------------
(* The heartbeat. No time passes while a handler whose peer is ready writes*)
(* its ping: somebody has the turn at the connection, and whoever has it is*)
(* not blocked. The queue at the mutex is therefore tied to the goroutines *)
(* that are in a write.                                                    *)
Line(q) == {q[i] : i \in DOMAIN q}

Distinct(q) == \A i, j \in DOMAIN q : q[i] = q[j] => i = j

Busy(c) == {w \in Writers : writing[w] # None /\ writing[w].conn = c}

Queued(c) == Line(conn[c].mu) = Busy(c) /\ Distinct(conn[c].mu)

QueueInv == \A c \in Conns : Queued(c)

(* What is true of a connection whose peer has always answered: it is being*)
(* read, and unless a pong is due the next ping comes before the deadline. *)
Kept(r) ==
    r.steady =>
        /\ r.peer = "ready"
        /\ r.at \in {"select", "ping"} =>
              /\ r.reader = "running"
              /\ r.read \in 1..PongWait
              /\ r.ping \in 0..PingPeriod
        /\ r.at = "select" /\ ~r.pinged => r.ping < r.read

KeptInv == \A c \in Conns : Kept(conn[c])

(* Joining a queue, and leaving it.                                        *)
LEMMA Joins ==
  ASSUME NEW S, NEW q \in Seq(S), NEW w \in S, w \notin Line(q), Distinct(q)
  PROVE  Line(Append(q, w)) = Line(q) \cup {w} /\ Distinct(Append(q, w))
  <1> DEFINE p == Append(q, w)
  <1>1. /\ DOMAIN q = 1..Len(q) /\ DOMAIN p = 1..Len(q) + 1 /\ Len(q) \in Nat
        /\ \A i \in 1..Len(q) : p[i] = q[i]
        /\ p[Len(q) + 1] = w
    OBVIOUS
  <1> HIDE DEF p
  <1>2. Line(p) = Line(q) \cup {w}
    BY <1>1 DEF Line
  <1>3. Distinct(p)
    BY <1>1 DEF Line, Distinct
  <1>4. QED
    BY <1>2, <1>3 DEF p

LEMMA Leaves ==
  ASSUME NEW S, NEW q \in Seq(S), q # <<>>, Distinct(q)
  PROVE  Line(Tail(q)) = Line(q) \ {Head(q)} /\ Distinct(Tail(q))
  <1> DEFINE p == Tail(q)
  <1>1. /\ DOMAIN q = 1..Len(q) /\ DOMAIN p = 1..Len(q) - 1 /\ Len(q) \in Nat \ {0}
        /\ \A i \in 1..Len(q) - 1 : p[i] = q[i + 1]
        /\ Head(q) = q[1]
    OBVIOUS
  <1> HIDE DEF p
  <1>2. Line(p) \subseteq Line(q) \ {Head(q)}
    BY <1>1 DEF Line, Distinct
  <1>3. ASSUME NEW x \in Line(q), x # Head(q)
        PROVE  x \in Line(p)
    <2>1. PICK i \in 1..Len(q) : x = q[i]
      BY <1>1 DEF Line
    <2>2. i - 1 \in 1..Len(q) - 1 /\ p[i - 1] = x
      BY <1>1, <1>3, <2>1
    <2>3. QED
      BY <1>1, <2>2 DEF Line
  <1>4. Distinct(p)
    BY <1>1 DEF Distinct
  <1>5. QED
    BY <1>2, <1>3, <1>4 DEF p

(* Steps that change neither queues nor writers.                           *)
LEMMA QueuesKept ==
  ASSUME QueueInv,
         \A d \in Conns : conn'[d].mu = conn[d].mu,
         \A w \in Writers : /\ writing'[w] = None <=> writing[w] = None
                            /\ writing[w] # None => writing'[w].conn = writing[w].conn
  PROVE  QueueInv'
  <1> SUFFICES ASSUME NEW d \in Conns PROVE Queued(d)'
    BY DEF QueueInv
  <1>1. Busy(d)' = Busy(d)
    BY DEF Busy
  <1>2. QED
    BY <1>1 DEF QueueInv, Queued

(* A goroutine that is not in a write stays out of the queues.             *)
LEMMA NoQueue ==
  ASSUME Inv, QueueInv, NEW w \in Writers, writing[w] = None,
         writing' = [writing EXCEPT ![w] = None],
         \A d \in Conns : conn'[d].mu = conn[d].mu
  PROVE  QueueInv'
  <1>1. writing' = writing
    BY DEF Inv, TypeOK
  <1>2. QED
    BY <1>1, QueuesKept

LEMMA QueueLeft ==
  ASSUME Inv, QueueInv, NEW w \in Writers, NEW c \in Conns,
         writing[w] # None, writing[w].conn = c, HasTurn(w, conn[c]),
         conn'[c].mu = Tail(conn[c].mu),
         \A d \in Conns \ {c} : conn'[d].mu = conn[d].mu,
         writing' = [writing EXCEPT ![w] = None]
  PROVE  QueueInv'
  <1> SUFFICES ASSUME NEW d \in Conns PROVE Queued(d)'
    BY DEF QueueInv
  <1>0. \A v \in Writers : writing'[v] = IF v = w THEN None ELSE writing[v]
    BY DEF Inv, TypeOK
  <1>1. CASE d = c
    <2>1. conn[c].mu \in Seq(Writers) /\ conn[c].mu # <<>> /\ Head(conn[c].mu) = w
      BY DEF Inv, TypeOK, Connection, HasTurn
    <2>2. Line(Tail(conn[c].mu)) = Busy(c) \ {w} /\ Distinct(Tail(conn[c].mu))
      BY <2>1, Leaves DEF QueueInv, Queued
    <2>3. Busy(c)' = Busy(c) \ {w}
      BY <1>0 DEF Busy
    <2>4. QED
      BY <1>1, <2>2, <2>3 DEF Queued
  <1>2. CASE d # c
    <2>1. Busy(d)' = Busy(d)
      BY <1>0, <1>2 DEF Busy
    <2>2. QED
      BY <1>2, <2>1 DEF QueueInv, Queued
  <1>3. QED
    BY <1>1, <1>2

(* After a panic of the ticker there is no queue.                          *)
LEMMA NoQueues ==
  ASSUME conn' = [d \in Conns |-> Fresh], writing' = [v \in Writers |-> None]
  PROVE  QueueInv'
  <1> SUFFICES ASSUME NEW d \in Conns PROVE Queued(d)'
    BY DEF QueueInv
  <1>1. conn'[d].mu = <<>>
    BY DEF Fresh
  <1>2. Busy(d)' = {}
    BY DEF Busy
  <1>3. Line(<<>>) = {} /\ Distinct(<<>>)
    BY DEF Line, Distinct
  <1>4. QED
    BY <1>1, <1>2, <1>3 DEF Queued

(* A connection alone, as steps change it.                                 *)
LEMMA AwayKept ==
  ASSUME NEW r \in Connection, Kept(r),
         NEW s \in {"register", "greet", "unregister", "close"}
  PROVE  /\ Kept([r EXCEPT !.at = s])
         /\ Kept([r EXCEPT !.at = s, !.ping = None])
  BY DEF Kept, Connection

LEMMA FreshKept == Kept(Fresh)
  BY DEF Kept, Fresh

LEMMA AlikeKept ==
  ASSUME NEW r, NEW s, Kept(r),
         s.steady = r.steady, s.peer = r.peer, s.at = r.at, s.reader = r.reader,
         s.read = r.read, s.ping = r.ping, s.pinged = r.pinged
  PROVE  Kept(s)
  BY DEF Kept

LEMMA HandledKept ==
  ASSUME NEW r \in Connection, Kept(r), r.at \in {"greet", "ping"}, NEW ok \in BOOLEAN
  PROVE  Kept(Handled(r, ok)) /\ Handled(r, ok).mu = r.mu
  <1>1. PingPeriod \in Nat \ {0} /\ PongWait \in Nat \ {0} /\ PingPeriod < PongWait
    BY WebSocketAssumption
  <1>2. CASE ~ok
    BY <1>2, AwayKept DEF Handled, Connection
  <1>3. CASE ok /\ r.at = "greet"
    <2> DEFINE s == [r EXCEPT !.at = "select", !.reader = "running",
                              !.read = PongWait, !.ping = PingPeriod]
    <2>1. /\ s.steady = r.steady /\ s.peer = r.peer /\ s.mu = r.mu /\ s.at = "select"
          /\ s.reader = "running" /\ s.read = PongWait /\ s.ping = PingPeriod
      BY DEF Connection
    <2>2. Handled(r, ok) = s
      BY <1>3 DEF Handled
    <2> HIDE DEF s
    <2>3. QED
      BY <1>1, <2>1, <2>2 DEF Kept
  <1>4. CASE ok /\ r.at = "ping"
    <2> DEFINE s == [r EXCEPT !.at = "select", !.pinged = TRUE]
    <2>1. /\ s.steady = r.steady /\ s.peer = r.peer /\ s.mu = r.mu /\ s.at = "select"
          /\ s.reader = r.reader /\ s.read = r.read /\ s.ping = r.ping /\ s.pinged
      BY DEF Connection
    <2>2. Handled(r, ok) = s
      BY <1>4 DEF Handled
    <2> HIDE DEF s
    <2>3. QED
      BY <1>4, <2>1, <2>2 DEF Kept
  <1>5. QED
    BY <1>2, <1>3, <1>4

(* A step that changes one connection and begins or ends no write.         *)
LEMMA OneKept ==
  ASSUME Inv, QueueInv, KeptInv, NEW c \in Conns, NEW r,
         conn' = [conn EXCEPT ![c] = r], r.mu = conn[c].mu, Kept(r), writing' = writing
  PROVE  QueueInv' /\ KeptInv'
  <1>1. \A d \in Conns : conn'[d] = IF d = c THEN r ELSE conn[d]
    BY DEF Inv, TypeOK
  <1>2. QueueInv'
    BY <1>1, QueuesKept
  <1>3. KeptInv'
    BY <1>1 DEF KeptInv
  <1>4. QED
    BY <1>2, <1>3

LEMMA RegistryKept ==
  ASSUME Inv, QueueInv, KeptInv, NEW c \in Conns, Connect(c) \/ Registry(c)
  PROVE  QueueInv' /\ KeptInv'
  <1>0. conn \in [Conns -> Connection] /\ conn[c] \in Connection /\ Kept(conn[c])
    BY DEF Inv, TypeOK, KeptInv
  <1>1. ASSUME NEW s \in {"register", "greet", "close"},
               conn' = [conn EXCEPT ![c].at = s], writing' = writing
        PROVE  QueueInv' /\ KeptInv'
    <2> DEFINE r == [conn[c] EXCEPT !.at = s]
    <2>1. Kept(r) /\ r.mu = conn[c].mu
      BY <1>0, AwayKept DEF Connection
    <2>2. conn' = [conn EXCEPT ![c] = r]
      BY <1>1
    <2> HIDE DEF r
    <2>3. QED
      BY <1>1, <2>1, <2>2, OneKept
  <1>2. CASE Connect(c) \/ RegisterClient(c) \/ UnregisterClient(c)
    BY <1>1, <1>2 DEF Connect, RegisterClient, UnregisterClient
  <1>3. CASE Lock(c)
    BY <1>3, QueuesKept DEF Lock, KeptInv
  <1>4. CASE Close(c)
    <2>1. /\ conn[c].at = "close"
          /\ writing' = writing
          /\ \A d \in Conns : conn'[d] = IF d = c THEN Fresh ELSE conn[d]
      BY <1>0, <1>4 DEF Close
    <2>2. c \notin clients
      BY <2>1 DEF Inv, RegistryIsOpen
    <2>3. Busy(c) = {}
      BY <2>2, TargetsAreClients DEF Busy, Inv, TypeOK, WritesInPlace
    <2>4. Line(<<>>) = {} /\ Distinct(<<>>)
      BY DEF Line, Distinct
    <2>5. ASSUME NEW d \in Conns
          PROVE  Queued(d)'
      <3>1. Busy(d)' = Busy(d)
        BY <2>1 DEF Busy
      <3>2. CASE d = c
        <4>1. conn'[d].mu = <<>>
          BY <2>1, <3>2 DEF Fresh
        <4>2. Busy(d)' = {}
          BY <2>3, <3>1, <3>2
        <4>3. QED
          BY <2>4, <4>1, <4>2 DEF Queued
      <3>3. CASE d # c
        BY <2>1, <3>1, <3>3 DEF QueueInv, Queued
      <3>4. QED
        BY <3>2, <3>3
    <2>6. QED
      BY <2>1, <2>5, FreshKept DEF QueueInv, KeptInv
  <1>5. QED
    BY <1>2, <1>3, <1>4 DEF Registry

LEMMA LoopsKept ==
  ASSUME Inv, QueueInv, KeptInv, NEW c \in Conns, Loops(c) \/ PeerChanges(c)
  PROVE  QueueInv' /\ KeptInv'
  <1>0. conn[c] \in Connection /\ Kept(conn[c])
    BY DEF Inv, TypeOK, KeptInv
  <1>n. PingPeriod \in Nat \ {0} /\ PongWait \in Nat \ {0} /\ PingPeriod < PongWait
    BY WebSocketAssumption
  <1>1. CASE Ping(c)
    <2> DEFINE r == [conn[c] EXCEPT !.at = "ping", !.ping = PingPeriod,
                                    !.deadline = WriteWait]
    <2>1. /\ r.steady = conn[c].steady /\ r.peer = conn[c].peer /\ r.mu = conn[c].mu
          /\ r.reader = conn[c].reader /\ r.read = conn[c].read
          /\ r.at = "ping" /\ r.ping = PingPeriod
      BY <1>0 DEF Connection
    <2>2. conn' = [conn EXCEPT ![c] = r] /\ writing' = writing /\ conn[c].at = "select"
      BY <1>1 DEF Ping
    <2> HIDE DEF r
    <2>3. Kept(r)
      BY <1>0, <1>n, <2>1, <2>2 DEF Kept
    <2>4. QED
      BY <2>1, <2>2, <2>3, OneKept
  <1>2. CASE DoneReceived(c)
    <2> DEFINE r == [conn[c] EXCEPT !.at = "unregister", !.ping = None]
    <2>1. Kept(r) /\ r.mu = conn[c].mu
      BY <1>0, AwayKept DEF Connection
    <2>2. conn' = [conn EXCEPT ![c] = r] /\ writing' = writing
      BY <1>2 DEF DoneReceived
    <2> HIDE DEF r
    <2>3. QED
      BY <2>1, <2>2, OneKept
  <1>3. CASE Pong(c)
    <2> DEFINE r == [conn[c] EXCEPT !.pinged = FALSE, !.read = PongWait]
    <2>1. /\ r.steady = conn[c].steady /\ r.peer = conn[c].peer /\ r.mu = conn[c].mu
          /\ r.at = conn[c].at /\ r.reader = conn[c].reader /\ r.ping = conn[c].ping
          /\ r.read = PongWait
      BY <1>0 DEF Connection
    <2>2. conn' = [conn EXCEPT ![c] = r] /\ writing' = writing
      BY <1>3 DEF Pong
    <2> HIDE DEF r
    <2>3. Kept(r)
      BY <1>0, <1>n, <2>1 DEF Kept
    <2>4. QED
      BY <2>1, <2>2, <2>3, OneKept
  <1>4. CASE ReadFails(c)
    <2> DEFINE r == [conn[c] EXCEPT !.reader = "done", !.read = None, !.pinged = FALSE]
    <2>1. /\ r.steady = conn[c].steady /\ r.peer = conn[c].peer /\ r.mu = conn[c].mu
          /\ r.at = conn[c].at
      BY <1>0 DEF Connection
    <2>2. conn' = [conn EXCEPT ![c] = r] /\ writing' = writing
      BY <1>4 DEF ReadFails
    <2>3. conn[c].reader = "running" /\ (conn[c].peer = "gone" \/ conn[c].read = 0)
      BY <1>4 DEF ReadFails
    <2> HIDE DEF r
    <2>4. Kept(r)
      BY <1>0, <2>1, <2>3 DEF Kept
    <2>5. QED
      BY <2>1, <2>2, <2>4, OneKept
  <1>5. CASE PeerChanges(c)
    <2>1. PICK p \in PeerStates :
              conn' = [conn EXCEPT ![c] = [@ EXCEPT !.peer = p, !.steady = FALSE]]
      BY <1>5 DEF PeerChanges
    <2> DEFINE r == [conn[c] EXCEPT !.peer = p, !.steady = FALSE]
    <2>2. ~r.steady /\ r.mu = conn[c].mu
      BY <1>0 DEF Connection
    <2>3. conn' = [conn EXCEPT ![c] = r] /\ writing' = writing
      BY <1>5, <2>1 DEF PeerChanges
    <2> HIDE DEF r
    <2>4. Kept(r)
      BY <2>2 DEF Kept
    <2>5. QED
      BY <2>2, <2>3, <2>4, OneKept
  <1>6. QED
    BY <1>1, <1>2, <1>3, <1>4, <1>5 DEF Loops

(* The end of a write. In r the goroutine may have left the queue already. *)
LEMMA ReturnsKept ==
  ASSUME Inv, KeptInv, NEW w \in Writers, NEW c \in Targets(w),
         NEW r \in Connection, Kept(r), r.at = conn[c].at,
         NEW ok \in BOOLEAN, Returns(w, c, r, ok)
  PROVE  /\ KeptInv'
         /\ conn'[c].mu = r.mu
         /\ \A d \in Conns \ {c} : conn'[d].mu = conn[d].mu
         /\ writing' = [writing EXCEPT ![w] = None]
  <1>1. PICK s : conn' = [conn EXCEPT ![c] = s] /\ Kept(s) /\ s.mu = r.mu
    <2>1. CASE w \in Conns
      <3>1. r.at \in {"greet", "ping"}
        BY <2>1 DEF Targets
      <3>2. Kept(Handled(r, ok)) /\ Handled(r, ok).mu = r.mu
        BY <3>1, HandledKept
      <3>3. QED
        BY <2>1, <3>2 DEF Returns
    <2>2. CASE w \notin Conns
      BY <2>2 DEF Returns
    <2>3. QED
      BY <2>1, <2>2
  <1>2. c \in Conns
    BY TargetsAreClients DEF Inv, TypeOK
  <1>3. \A d \in Conns : conn'[d] = IF d = c THEN s ELSE conn[d]
    BY <1>1, <1>2 DEF Inv, TypeOK
  <1>4. KeptInv'
    BY <1>1, <1>3 DEF KeptInv
  <1>5. QED
    BY <1>1, <1>2, <1>3, <1>4 DEF Returns

LEMMA PanicsKept ==
  ASSUME Inv, KeptInv, NEW w \in Writers, NEW c \in Targets(w),
         NEW r \in Connection, Kept(r), r.at = conn[c].at, Panics(w, c, r)
  PROVE  \/ QueueInv' /\ KeptInv'
         \/ /\ KeptInv'
            /\ conn'[c].mu = r.mu
            /\ \A d \in Conns \ {c} : conn'[d].mu = conn[d].mu
            /\ writing' = [writing EXCEPT ![w] = None]
  <1>1. CASE w = Ticker
    <2>1. conn' = [d \in Conns |-> Fresh] /\ writing' = [v \in Writers |-> None]
      BY <1>1 DEF Panics
    <2>2. KeptInv'
      BY <2>1, FreshKept DEF KeptInv
    <2>3. QED
      BY <2>1, <2>2, NoQueues
  <1>2. CASE w # Ticker
    <2>1. PICK s : conn' = [conn EXCEPT ![c] = s] /\ Kept(s) /\ s.mu = r.mu
      <3>1. CASE w \in Conns
        <4> DEFINE q == [r EXCEPT !.at = "unregister", !.ping = None]
        <4>1. Kept(q) /\ q.mu = r.mu
          BY AwayKept DEF Connection
        <4>2. conn' = [conn EXCEPT ![c] = q]
          BY <1>2, <3>1 DEF Panics
        <4> HIDE DEF q
        <4>3. QED
          BY <4>1, <4>2
      <3>2. CASE w \notin Conns
        BY <1>2, <3>2 DEF Panics
      <3>3. QED
        BY <3>1, <3>2
    <2>2. c \in Conns
      BY TargetsAreClients DEF Inv, TypeOK
    <2>3. \A d \in Conns : conn'[d] = IF d = c THEN s ELSE conn[d]
      BY <2>1, <2>2 DEF Inv, TypeOK
    <2>4. KeptInv'
      BY <2>1, <2>3 DEF KeptInv
    <2>5. writing' = [writing EXCEPT ![w] = None]
      BY <1>2 DEF Panics
    <2>6. QED
      BY <2>1, <2>2, <2>3, <2>4, <2>5
  <1>3. QED
    BY <1>1, <1>2

LEMMA FinishKept ==
  ASSUME Inv, QueueInv, KeptInv, NEW w \in Writers, NEW c \in Targets(w),
         writing[w] # None, writing[w].conn = c, HasTurn(w, conn[c]),
         NEW r \in Connection, Kept(r), r.at = conn[c].at, r.mu = Tail(conn[c].mu),
         NEW ok \in BOOLEAN, Finish(w, c, r, ok)
  PROVE  QueueInv' /\ KeptInv'
  <1>1. c \in Conns
    BY TargetsAreClients DEF Inv, TypeOK
  <1>2. CASE r.isWriting
    <2> DEFINE s == [r EXCEPT !.isWriting = FALSE]
    <2>1. /\ s \in Connection /\ s.at = conn[c].at /\ s.mu = Tail(conn[c].mu)
          /\ s.steady = r.steady /\ s.peer = r.peer /\ s.at = r.at /\ s.reader = r.reader
          /\ s.read = r.read /\ s.ping = r.ping /\ s.pinged = r.pinged
      BY IsWritingType DEF Connection
    <2>2. Returns(w, c, s, ok)
      BY <1>2 DEF Finish
    <2> HIDE DEF s
    <2>3. Kept(s)
      BY <2>1, AlikeKept
    <2>4. /\ KeptInv' /\ conn'[c].mu = Tail(conn[c].mu)
          /\ \A d \in Conns \ {c} : conn'[d].mu = conn[d].mu
          /\ writing' = [writing EXCEPT ![w] = None]
      BY <2>1, <2>2, <2>3, ReturnsKept
    <2>5. QueueInv'
      BY <1>1, <2>4, QueueLeft
    <2>6. QED
      BY <2>4, <2>5
  <1>3. CASE ~r.isWriting
    <2>1. Panics(w, c, r)
      BY <1>3 DEF Finish
    <2>2. \/ QueueInv' /\ KeptInv'
          \/ /\ KeptInv' /\ conn'[c].mu = Tail(conn[c].mu)
             /\ \A d \in Conns \ {c} : conn'[d].mu = conn[d].mu
             /\ writing' = [writing EXCEPT ![w] = None]
      BY <2>1, PanicsKept
    <2>3. QueueInv'
      BY <1>1, <2>2, QueueLeft
    <2>4. QED
      BY <2>2, <2>3
  <1>4. QED
    BY <1>2, <1>3

LEMMA WriteKept ==
  ASSUME Inv, QueueInv, KeptInv, NEW w \in Writers, Write(w)
  PROVE  QueueInv' /\ KeptInv'
  <1>0. conn \in [Conns -> Connection] /\ \A d \in Conns : Kept(conn[d])
    BY DEF Inv, TypeOK, KeptInv
  <1>1. ASSUME NEW c \in Conns, WriteRefused(w, c)
        PROVE  QueueInv' /\ KeptInv'
    <2>1. /\ c \in Targets(w) /\ writing[w] = None
          /\ Returns(w, c, conn[c], FALSE)
      BY <1>1 DEF WriteRefused
    <2>2. /\ KeptInv' /\ conn'[c].mu = conn[c].mu
          /\ \A d \in Conns \ {c} : conn'[d].mu = conn[d].mu
          /\ writing' = [writing EXCEPT ![w] = None]
      BY <1>0, <2>1, ReturnsKept
    <2>3. QueueInv'
      BY <2>1, <2>2, NoQueue
    <2>4. QED
      BY <2>2, <2>3
  <1>2. ASSUME NEW c \in Conns, WriteBegins(w, c)
        PROVE  QueueInv' /\ KeptInv'
    <2> DEFINE r == [conn[c] EXCEPT !.isWriting = TRUE, !.mu = Append(@, w)]
    <2>1. /\ r.steady = conn[c].steady /\ r.peer = conn[c].peer /\ r.at = conn[c].at
          /\ r.reader = conn[c].reader /\ r.read = conn[c].read
          /\ r.ping = conn[c].ping /\ r.pinged = conn[c].pinged
          /\ r.mu = Append(conn[c].mu, w)
      BY <1>0 DEF Connection
    <2>2. /\ conn' = [conn EXCEPT ![c] = r]
          /\ writing[w] = None
          /\ writing' = [writing EXCEPT ![w] = [conn |-> c, left |-> conn[c].deadline]]
      BY <1>2 DEF WriteBegins
    <2> HIDE DEF r
    <2>3. \A d \in Conns : conn'[d] = IF d = c THEN r ELSE conn[d]
      BY <1>0, <2>2
    <2>4. Kept(r)
      BY <1>0, <2>1, AlikeKept
    <2>5. KeptInv'
      BY <1>0, <2>3, <2>4 DEF KeptInv
    <2>6. \A v \in Writers \ {w} : writing'[v] = writing[v]
      BY <2>2 DEF Inv, TypeOK
    <2>7. writing'[w] # None /\ writing'[w].conn = c
      <3>1. writing'[w] = [conn |-> c, left |-> conn[c].deadline]
        BY <2>2 DEF Inv, TypeOK
      <3>2. conn[c].deadline \in Nat \cup {None}
        BY <1>0, WebSocketAssumption DEF Connection, Clock
      <3>3. QED
        BY <3>1, <3>2, WebSocketAssumption
    <2>8. ASSUME NEW d \in Conns
          PROVE  Queued(d)'
      <3>1. CASE d = c
        <4>1. conn[c].mu \in Seq(Writers)
          BY <1>0 DEF Connection
        <4>2. w \notin Line(conn[c].mu) /\ Distinct(conn[c].mu) /\ Line(conn[c].mu) = Busy(c)
          BY <2>2 DEF QueueInv, Queued, Busy
        <4>3. Line(Append(conn[c].mu, w)) = Busy(c) \cup {w} /\ Distinct(Append(conn[c].mu, w))
          BY <4>1, <4>2, Joins
        <4>4. Busy(c)' = Busy(c) \cup {w}
          BY <2>6, <2>7 DEF Busy
        <4>5. QED
          BY <2>1, <2>3, <3>1, <4>3, <4>4 DEF Queued
      <3>2. CASE d # c
        <4>1. Busy(d)' = Busy(d)
          BY <2>2, <2>6, <2>7, <3>2 DEF Busy
        <4>2. QED
          BY <2>3, <3>2, <4>1 DEF QueueInv, Queued
      <3>3. QED
        BY <3>1, <3>2
    <2>9. QED
      BY <2>5, <2>8 DEF QueueInv
  <1>3. ASSUME NEW c \in Conns, WritePanics(w, c)
        PROVE  QueueInv' /\ KeptInv'
    <2>1. c \in Targets(w) /\ writing[w] = None /\ Panics(w, c, conn[c])
      BY <1>3 DEF WritePanics
    <2>2. \/ QueueInv' /\ KeptInv'
          \/ /\ KeptInv' /\ conn'[c].mu = conn[c].mu
             /\ \A d \in Conns \ {c} : conn'[d].mu = conn[d].mu
             /\ writing' = [writing EXCEPT ![w] = None]
      BY <1>0, <2>1, PanicsKept
    <2>3. QueueInv'
      BY <2>1, <2>2, NoQueue
    <2>4. QED
      BY <2>2, <2>3
  <1>4. ASSUME WriteSucceeds(w) \/ WriteFails(w)
        PROVE  QueueInv' /\ KeptInv'
    <2> DEFINE c == writing[w].conn
    <2>1. /\ writing[w] # None /\ HasTurn(w, conn[c])
          /\ \/ Finish(w, c, [conn[c] EXCEPT !.mu = Tail(@)], TRUE)
             \/ Finish(w, c, [conn[c] EXCEPT !.mu = Tail(@), !.writeErr = TRUE], FALSE)
      BY <1>4 DEF WriteSucceeds, WriteFails
    <2>2. c \in Targets(w) /\ c \in Conns
      BY <2>1 DEF Inv, TypeOK, WritesInPlace
    <2>3. PICK r \in {[conn[c] EXCEPT !.mu = Tail(@)],
                      [conn[c] EXCEPT !.mu = Tail(@), !.writeErr = TRUE]}, ok \in BOOLEAN :
              Finish(w, c, r, ok)
      BY <2>1
    <2>4. conn[c] \in Connection
      BY <1>0, <2>2
    <2>5. r \in Connection /\ r.at = conn[c].at
      BY <2>1, <2>3, <2>4, WriteErrType
    <2>6. /\ r.mu = Tail(conn[c].mu) /\ r.steady = conn[c].steady /\ r.peer = conn[c].peer
          /\ r.reader = conn[c].reader /\ r.read = conn[c].read /\ r.ping = conn[c].ping
          /\ r.pinged = conn[c].pinged
      BY <2>3, <2>4 DEF Connection
    <2> HIDE DEF c
    <2>7. Kept(r)
      BY <1>0, <2>2, <2>5, <2>6, AlikeKept
    <2>8. writing[w].conn = c
      BY DEF c
    <2>9. QED
      BY <2>1, <2>2, <2>3, <2>5, <2>6, <2>7, <2>8, FinishKept
  <1>5. QED
    BY <1>1, <1>2, <1>3, <1>4 DEF Write

(* A write during which time passes is one to a peer that takes no data:   *)
(* the first in the queue waits for the peer, the others for the first.    *)
LEMMA OnlyStalledPeersHoldUpWrites ==
  ASSUME Inv, QueueInv, Tick, NEW w \in Writers, writing[w] # None
  PROVE  conn[writing[w].conn].peer = "stalled"
  <1> DEFINE d == writing[w].conn
             v == Head(conn[d].mu)
  <1>1. d \in Conns
    BY DEF Inv, TypeOK
  <1>2. w \in Line(conn[d].mu)
    BY <1>1 DEF QueueInv, Queued, Busy
  <1>3. conn[d].mu \in Seq(Writers) /\ conn[d].mu # <<>>
    BY <1>1, <1>2 DEF Inv, TypeOK, Connection, Line
  <1>4. v \in Line(conn[d].mu)
    BY <1>3 DEF Line
  <1>5. v \in Writers /\ writing[v] # None /\ writing[v].conn = d
    BY <1>1, <1>4 DEF QueueInv, Queued, Busy
  <1>6. HasTurn(v, conn[d])
    BY <1>3 DEF HasTurn
  <1> HIDE DEF d, v
  <1>7. Blocked(v)
    BY <1>5 DEF Tick
  <1>8. QED
    BY <1>5, <1>6, <1>7 DEF Blocked, d

(* When time passes, a handler whose peer is ready is not at its ping, and *)
(* the pong of the last one has come.                                      *)
LEMMA TickKept ==
  ASSUME Inv, QueueInv, KeptInv, Tick
  PROVE  QueueInv' /\ KeptInv'
  <1>n. PingPeriod \in Nat \ {0} /\ PongWait \in Nat \ {0} /\ None \notin Nat
    BY WebSocketAssumption
  <1>1. ASSUME NEW d \in Conns
        PROVE  /\ conn'[d].mu = conn[d].mu /\ conn'[d].steady = conn[d].steady
               /\ conn'[d].peer = conn[d].peer /\ conn'[d].at = conn[d].at
               /\ conn'[d].reader = conn[d].reader /\ conn'[d].pinged = conn[d].pinged
               /\ conn'[d].read = Elapse(conn[d].read)
               /\ conn'[d].ping = Elapse(conn[d].ping)
    <2>1. conn[d] \in Connection
      BY DEF Inv, TypeOK
    <2>2. conn'[d] = [conn[d] EXCEPT !.ping = Elapse(@), !.read = Elapse(@),
                                     !.deadline = Elapse(@)]
      BY DEF Tick
    <2>3. QED
      BY <2>1, <2>2 DEF Connection
  <1>2. \A w \in Writers : /\ writing'[w] = None <=> writing[w] = None
                           /\ writing[w] # None => writing'[w].conn = writing[w].conn
    <2> SUFFICES ASSUME NEW w \in Writers, writing[w] # None
                 PROVE  writing'[w] # None /\ writing'[w].conn = writing[w].conn
      BY DEF Tick
    <2>1. writing[w] \in [conn : Conns, left : Clock(WriteWait)]
      BY DEF Inv, TypeOK
    <2>2. writing'[w] = [writing[w] EXCEPT !.left = Elapse(@)]
      BY DEF Tick
    <2>e. WriteWait \in Nat /\ writing[w].left \in Clock(WriteWait)
      BY <2>1, WebSocketAssumption
    <2>f. Elapse(writing[w].left) \in Clock(WriteWait)
      BY <2>e, ElapseType
    <2>3. Elapse(writing[w].left) \in Nat \cup {None}
      BY <2>f DEF Clock
    <2>4. writing'[w] \in [conn : Conns, left : Nat \cup {None}]
      BY <2>1, <2>2, <2>3
    <2>5. QED
      BY <2>1, <2>2, <2>4, WebSocketAssumption
  <1>3. QueueInv'
    BY <1>1, <1>2, QueuesKept
  <1>4. ASSUME NEW d \in Conns, conn[d].steady, conn[d].at \in {"select", "ping"}
        PROVE  /\ conn[d].at = "select"
               /\ ~conn[d].pinged
               /\ conn[d].ping # 0
    <2>1. conn[d].peer = "ready" /\ conn[d].reader = "running"
      BY <1>4 DEF KeptInv, Kept
    <2>2. Settled(d) /\ Blocked(d)
      BY DEF Tick, Writers
    <2>3. conn[d].at # "ping"
      <3> SUFFICES ASSUME conn[d].at = "ping" PROVE FALSE
        OBVIOUS
      <3>1. d \in Targets(d) /\ d \in Writers
        BY DEF Targets, Writers
      <3>2. writing[d] # None
        BY <2>2, <3>1 DEF Blocked
      <3>3. writing[d].conn = d
        BY <3>1, <3>2 DEF Inv, TypeOK, WritesInPlace, Targets
      <3>4. QED
        BY <2>1, <3>1, <3>2, <3>3, OnlyStalledPeersHoldUpWrites
    <2>4. QED
      BY <1>4, <2>1, <2>2, <2>3 DEF Settled, PongDue
  <1>5. ASSUME NEW d \in Conns
        PROVE  Kept(conn[d])'
    <2>1. Kept(conn[d])
      BY DEF KeptInv
    <2>2. CASE ~conn[d].steady
      BY <1>1, <2>2 DEF Kept
    <2>3. CASE conn[d].steady /\ conn[d].at \notin {"select", "ping"}
      BY <1>1, <2>1, <2>3 DEF Kept
    <2>4. CASE conn[d].steady /\ conn[d].at \in {"select", "ping"}
      <3>1. /\ conn[d].at = "select" /\ ~conn[d].pinged
            /\ conn[d].reader = "running" /\ conn[d].peer = "ready"
            /\ conn[d].ping \in 1..PingPeriod /\ conn[d].read \in 1..PongWait
            /\ conn[d].ping < conn[d].read
        BY <1>n, <1>4, <2>1, <2>4 DEF Kept
      <3>2. /\ conn'[d].ping = conn[d].ping - 1
            /\ conn'[d].read = conn[d].read - 1
        BY <1>1, <1>n, <3>1 DEF Elapse
      <3>3. QED
        BY <1>1, <1>n, <3>1, <3>2 DEF Kept
    <2>5. QED
      BY <2>2, <2>3, <2>4
  <1>6. QED
    BY <1>3, <1>5 DEF KeptInv

LEMMA KeptInit == Init => QueueInv /\ KeptInv
  <1> SUFFICES ASSUME Init PROVE QueueInv /\ KeptInv
    OBVIOUS
  <1>1. Line(<<>>) = {} /\ Distinct(<<>>)
    BY DEF Line, Distinct
  <1>2. ASSUME NEW c \in Conns PROVE Queued(c)
    <2>1. conn[c].mu = <<>>
      BY DEF Init, Fresh
    <2>2. Busy(c) = {}
      BY DEF Init, Busy
    <2>3. QED
      BY <1>1, <2>1, <2>2 DEF Queued
  <1>3. QED
    BY <1>2, FreshKept DEF Init, QueueInv, KeptInv

LEMMA KeptStep == Inv /\ QueueInv /\ KeptInv /\ [Next]_vars => QueueInv' /\ KeptInv'
  <1> SUFFICES ASSUME Inv, QueueInv, KeptInv, [Next]_vars
               PROVE  QueueInv' /\ KeptInv'
    OBVIOUS
  <1>1. ASSUME NEW c \in Conns, Connect(c) \/ Registry(c)
        PROVE  QueueInv' /\ KeptInv'
    BY <1>1, RegistryKept
  <1>2. ASSUME NEW c \in Conns, Loops(c) \/ PeerChanges(c)
        PROVE  QueueInv' /\ KeptInv'
    BY <1>2, LoopsKept
  <1>3. ASSUME UNCHANGED <<conn, writing>>
        PROVE  QueueInv' /\ KeptInv'
    BY <1>3, QueuesKept DEF KeptInv
  <1>4. ASSUME NEW w \in Writers, Write(w)
        PROVE  QueueInv' /\ KeptInv'
    BY <1>4, WriteKept
  <1>5. CASE Tick
    BY <1>5, TickKept
  <1>6. QED
    BY <1>1, <1>2, <1>3, <1>4, <1>5
       DEF Next, vars, BeginBroadcast, EndBroadcast, Restart

(* Pings come often enough, and pongs extend the read deadline, so that    *)
(* the read of a peer that has always answered does not time out while its *)
(* handler is in the ping loop (websocket.go:17-18, 43-50).                *)
THEOREM HeartbeatKeepsReads == Spec => []HeartbeatKeepsReading
  <1>1. KeptInv => HeartbeatKeepsReading
    BY DEF KeptInv, Kept, HeartbeatKeepsReading
  <1>2. QED
    BY <1>1, InitInv, NextInv, KeptInit, KeptStep, PTL DEF Spec

-----------------------------------------------------------------------------
(* Waiting for the registry. The handler that has called Lock waits for    *)
(* the broadcasts that have the read lock, and one of these waits for a    *)
(* write of its own.                                                       *)
LEMMA TickHoldsUp ==
  ASSUME Inv, QueueInv, Tick, pending # None
  PROVE  \E b \in readers :
             writing[b] # None /\ conn[writing[b].conn].peer = "stalled"
  <1>1. pending \in Conns /\ conn[pending].at \in {"register", "unregister"}
    BY DEF Inv, TypeOK, LockInPlace
  <1>2. readers # {}
    BY <1>1 DEF Tick, Settled
  <1>3. PICK b \in readers : todo[b] # {}
    BY <1>2 DEF Tick
  <1>4. b \in Broadcasters /\ b \in Writers /\ b \notin Conns
    BY WebSocketAssumption DEF Inv, TypeOK, Writers, Broadcasters
  <1>5. writing[b] # None
    BY <1>3, <1>4 DEF Tick, Blocked, Targets
  <1>6. QED
    BY <1>4, <1>5, OnlyStalledPeersHoldUpWrites

(* While a handler waits for the registry, time passes only if a broadcast *)
(* is held up by a peer that takes no data (websocket.go:95-105,           *)
(* server.go:112-121).                                                     *)
THEOREM RegistryIsHeldByStalledPeers == Spec => OnlyStalledPeersHoldTheRegistry
  <1>1. Inv /\ QueueInv =>
           [Tick /\ pending # None =>
              \E b \in readers :
                  writing[b] # None /\ conn[writing[b].conn].peer = "stalled"]_vars
    BY TickHoldsUp
  <1>2. QED
    BY <1>1, InitInv, NextInv, KeptInit, KeptStep, PTL
       DEF Spec, OnlyStalledPeersHoldTheRegistry
=============================================================================
