----------------------------- MODULE WebSocket -----------------------------
(***************************************************************************)
(* The WebSocket side of the API server (internal/api/websocket.go and     *)
(* broadcast in server.go): the registry of connections behind an RWMutex, *)
(* one handler and one reading goroutine per connection, and the           *)
(* goroutines that broadcast to all of them.                               *)
(*                                                                         *)
(* The connection is gorilla/websocket's, of which the code relies on      *)
(* this: a failed write makes every later write fail, SetWriteDeadline     *)
(* holds for all writes that begin after it, and two writes at once are    *)
(* an error of the caller that is found, if at all, by a panic.            *)
(***************************************************************************)
EXTENDS Naturals, Sequences

CONSTANTS
    Conns,       \* connections, each used again once it is closed
    Ticker,      \* the goroutine of app.Run that broadcasts the status
    Requesters,  \* handlers of terminate requests, which broadcast too
    None,
    PeerStates,  \* what a peer may turn to
    PingPeriod, PongWait, WriteWait

ASSUME WebSocketAssumption ==
    /\ {PingPeriod, PongWait, WriteWait} \subseteq Nat \ {0}
    /\ PingPeriod < PongWait
    /\ Ticker \notin Requesters \cup Conns
    /\ Requesters \cap Conns = {}
    /\ None \notin Conns \cup Nat
    /\ None \notin [conn : Conns, left : Nat \cup {None}]
    /\ PeerStates \subseteq {"ready", "silent", "stalled", "gone"}

VARIABLES
    conn,     \* what is known of each connection, see Fresh
    clients,  \* Server.clients
    readers,  \* broadcasters holding clientsMu's read lock
    pending,  \* the handler that has called clientsMu.Lock, or None
    todo,     \* per broadcaster, the clients its loop has still to reach
    writing,  \* per goroutine, the write it is in: connection and deadline
    crashed   \* a panic has ended the process

vars == <<conn, clients, readers, pending, todo, writing, crashed>>

Broadcasters == {Ticker} \cup Requesters
Writers == Broadcasters \cup Conns

(* A connection: where its handler is, its reading goroutine, its peer     *)
(* ("silent" takes data without answering pings, "stalled" takes nothing), *)
(* the time left until the next ping, the read deadline and the write      *)
(* deadline, whether a ping is unanswered, and of the library the flag of  *)
(* a write in progress, the queue at the mutex of writes (a channel: its   *)
(* first goroutine has it) and the sticky write error. "steady" is         *)
(* history: the peer has been ready ever since it connected.               *)
Fresh == [at |-> "closed", reader |-> "off", peer |-> "ready",
          steady |-> TRUE, ping |-> None, read |-> None, deadline |-> None,
          pinged |-> FALSE, isWriting |-> FALSE, mu |-> <<>>, writeErr |-> FALSE]

Init ==
    /\ conn = [c \in Conns |-> Fresh]
    /\ clients = {}
    /\ readers = {}
    /\ pending = None
    /\ todo = [b \in Broadcasters |-> {}]
    /\ writing = [w \in Writers |-> None]
    /\ crashed = FALSE

(***************************************************************************)
(* The registry. Go's RWMutex admits no new reader once Lock was called;   *)
(* the critical section is one operation on the map.                       *)
(***************************************************************************)
Connect(c) ==
    /\ conn[c].at = "closed"
    /\ conn' = [conn EXCEPT ![c].at = "register"]
    /\ UNCHANGED <<clients, readers, pending, todo, writing, crashed>>

Lock(c) ==
    /\ conn[c].at \in {"register", "unregister"}
    /\ pending = None
    /\ pending' = c
    /\ UNCHANGED <<conn, clients, readers, todo, writing, crashed>>

RegisterClient(c) ==
    /\ conn[c].at = "register"
    /\ pending = c
    /\ readers = {}
    /\ clients' = clients \cup {c}
    /\ pending' = None
    /\ conn' = [conn EXCEPT ![c].at = "greet"]
    /\ UNCHANGED <<readers, todo, writing, crashed>>

(* Mutant of UnregisterClient: the lock is not awaited.                    *)
UnregisterClientUnlocked(c) ==
    /\ conn[c].at = "unregister"
    /\ clients' = clients \ {c}
    /\ pending' = IF pending = c THEN None ELSE pending
    /\ conn' = [conn EXCEPT ![c].at = "close"]
    /\ UNCHANGED <<readers, todo, writing, crashed>>

(* Mutant of UnregisterClient: the lock is not released.                   *)
UnregisterClientHolds(c) ==
    /\ conn[c].at = "unregister"
    /\ pending = c
    /\ readers = {}
    /\ clients' = clients \ {c}
    /\ conn' = [conn EXCEPT ![c].at = "close"]
    /\ UNCHANGED <<readers, pending, todo, writing, crashed>>

UnregisterClient(c) ==
    /\ conn[c].at = "unregister"
    /\ pending = c
    /\ readers = {}
    /\ clients' = clients \ {c}
    /\ pending' = None
    /\ conn' = [conn EXCEPT ![c].at = "close"]
    /\ UNCHANGED <<readers, todo, writing, crashed>>

(* Closing ends the reading goroutine as well, if it is still there.       *)
Close(c) ==
    /\ conn[c].at = "close"
    /\ conn' = [conn EXCEPT ![c] = Fresh]
    /\ UNCHANGED <<clients, readers, pending, todo, writing, crashed>>

(***************************************************************************)
(* Broadcasting, under the read lock from the first client to the last.    *)
(***************************************************************************)
BeginBroadcast(b) ==
    /\ b \notin readers
    /\ pending = None
    /\ readers' = readers \cup {b}
    /\ todo' = [todo EXCEPT ![b] = clients]
    /\ UNCHANGED <<conn, clients, pending, writing, crashed>>

EndBroadcast(b) ==
    /\ b \in readers
    /\ todo[b] = {}
    /\ readers' = readers \ {b}
    /\ UNCHANGED <<conn, clients, pending, todo, writing, crashed>>

(***************************************************************************)
(* Writing. A handler writes the first status ("greet") and its pings, a   *)
(* broadcaster to the clients of its loop.                                 *)
(***************************************************************************)
Targets(w) ==
    IF w \in Conns
    THEN {c \in {w} : conn[c].at \in {"greet", "ping"}}
    ELSE todo[w]

(* The handler's connection after a write: the first status is followed by *)
(* setting the read deadline and by starting the ticker and the reader; an *)
(* error ends the handler, and its ticker with it.                         *)
Handled(r, ok) ==
    IF ~ok THEN [r EXCEPT !.at = "unregister", !.ping = None]
    ELSE IF r.at = "greet"
    THEN [r EXCEPT !.at = "select", !.reader = "running",
                   !.read = PongWait, !.ping = PingPeriod]
    ELSE [r EXCEPT !.at = "select", !.pinged = TRUE]

(* Mutant of Returns: a broadcast tries a failed client again.             *)
ReturnsRetry(w, c, r, ok) ==
    /\ writing' = [writing EXCEPT ![w] = None]
    /\ IF w \in Conns
       THEN /\ conn' = [conn EXCEPT ![c] = Handled(r, ok)]
            /\ UNCHANGED todo
       ELSE /\ conn' = [conn EXCEPT ![c] = r]
            /\ todo' = IF ok THEN [todo EXCEPT ![w] = @ \ {c}] ELSE todo
    /\ UNCHANGED <<clients, readers, pending, crashed>>

(* The write returns, leaving r of the connection. A broadcast goes on     *)
(* with the next client in either case.                                    *)
Returns(w, c, r, ok) ==
    /\ writing' = [writing EXCEPT ![w] = None]
    /\ IF w \in Conns
       THEN /\ conn' = [conn EXCEPT ![c] = Handled(r, ok)]
            /\ UNCHANGED todo
       ELSE /\ conn' = [conn EXCEPT ![c] = r]
            /\ todo' = [todo EXCEPT ![w] = @ \ {c}]
    /\ UNCHANGED <<clients, readers, pending, crashed>>

(* A panic unwinds the goroutine: the handler's deferred unregisterClient  *)
(* and the broadcast's deferred RUnlock run, and net/http recovers it. In  *)
(* the goroutine of the ticker nobody does, and the process ends.          *)
Panics(w, c, r) ==
    IF w = Ticker
    THEN /\ crashed' = TRUE
         /\ conn' = [d \in Conns |-> Fresh]
         /\ clients' = {}
         /\ readers' = {}
         /\ pending' = None
         /\ todo' = [b \in Broadcasters |-> {}]
         /\ writing' = [v \in Writers |-> None]
    ELSE /\ writing' = [writing EXCEPT ![w] = None]
         /\ IF w \in Conns
            THEN /\ conn' = [conn EXCEPT
                      ![c] = [r EXCEPT !.at = "unregister", !.ping = None]]
                 /\ UNCHANGED <<readers, todo>>
            ELSE /\ conn' = [conn EXCEPT ![c] = r]
                 /\ readers' = readers \ {w}
                 /\ todo' = [todo EXCEPT ![w] = {}]
         /\ UNCHANGED <<clients, pending, crashed>>

WriteRefused(w, c) ==
    /\ c \in Targets(w)
    /\ writing[w] = None
    /\ conn[c].writeErr
    /\ Returns(w, c, conn[c], FALSE)

(* The flag is read without synchronisation: a write may begin beside      *)
(* another one although the flag is up. It then waits for the mutex.       *)
WriteBegins(w, c) ==
    /\ c \in Targets(w)
    /\ writing[w] = None
    /\ ~conn[c].writeErr
    /\ writing' = [writing EXCEPT ![w] = [conn |-> c, left |-> conn[c].deadline]]
    /\ conn' = [conn EXCEPT
           ![c] = [conn[c] EXCEPT !.isWriting = TRUE, !.mu = Append(@, w)]]
    /\ UNCHANGED <<clients, readers, pending, todo, crashed>>

WritePanics(w, c) ==
    /\ c \in Targets(w)
    /\ writing[w] = None
    /\ ~conn[c].writeErr
    /\ conn[c].isWriting
    /\ Panics(w, c, conn[c])

(* After the write the flag must still be up.                              *)
Finish(w, c, r, ok) ==
    IF r.isWriting
    THEN Returns(w, c, [r EXCEPT !.isWriting = FALSE], ok)
    ELSE Panics(w, c, r)

HasTurn(w, r) == r.mu # <<>> /\ Head(r.mu) = w

(* A write to a peer that has just gone may still succeed.                 *)
WriteSucceeds(w) ==
    /\ writing[w] # None
    /\ writing[w].left # 0
    /\ LET c == writing[w].conn
       IN  /\ HasTurn(w, conn[c])
           /\ conn[c].peer # "stalled"
           /\ ~conn[c].writeErr
           /\ Finish(w, c, [conn[c] EXCEPT !.mu = Tail(@)], TRUE)

WriteFails(w) ==
    /\ writing[w] # None
    /\ LET c == writing[w].conn
       IN  /\ HasTurn(w, conn[c])
           /\ \/ writing[w].left = 0
              \/ conn[c].peer = "gone"
              \/ conn[c].writeErr
           /\ Finish(w, c, [conn[c] EXCEPT !.mu = Tail(@), !.writeErr = TRUE], FALSE)

(***************************************************************************)
(* The ping loop and the read loop.                                        *)
(***************************************************************************)
Ping(c) ==
    /\ conn[c].at = "select"
    /\ conn[c].ping = 0
    /\ conn' = [conn EXCEPT ![c] = [@ EXCEPT !.at = "ping", !.ping = PingPeriod,
                                            !.deadline = WriteWait]]
    /\ UNCHANGED <<clients, readers, pending, todo, writing, crashed>>

(* Mutant of DoneReceived: returns past the deferred unregisterClient.     *)
DoneReceivedForgets(c) ==
    /\ conn[c].at = "select"
    /\ conn[c].reader = "done"
    /\ conn' = [conn EXCEPT ![c] = [@ EXCEPT !.at = "close", !.ping = None]]
    /\ UNCHANGED <<clients, readers, pending, todo, writing, crashed>>

DoneReceived(c) ==
    /\ conn[c].at = "select"
    /\ conn[c].reader = "done"
    /\ conn' = [conn EXCEPT ![c] = [@ EXCEPT !.at = "unregister", !.ping = None]]
    /\ UNCHANGED <<clients, readers, pending, todo, writing, crashed>>

PongDue(c) ==
    /\ conn[c].reader = "running"
    /\ conn[c].pinged
    /\ conn[c].peer = "ready"

(* Mutant of Pong: the handler for pongs leaves the read deadline alone.   *)
PongIgnored(c) ==
    /\ PongDue(c)
    /\ conn' = [conn EXCEPT ![c].pinged = FALSE]
    /\ UNCHANGED <<clients, readers, pending, todo, writing, crashed>>

Pong(c) ==
    /\ PongDue(c)
    /\ conn' = [conn EXCEPT ![c] = [@ EXCEPT !.pinged = FALSE, !.read = PongWait]]
    /\ UNCHANGED <<clients, readers, pending, todo, writing, crashed>>

ReadFails(c) ==
    /\ conn[c].reader = "running"
    /\ conn[c].peer = "gone" \/ conn[c].read = 0
    /\ conn' = [conn EXCEPT ![c] = [@ EXCEPT !.reader = "done", !.read = None,
                                            !.pinged = FALSE]]
    /\ UNCHANGED <<clients, readers, pending, todo, writing, crashed>>

(***************************************************************************)
(* The environment. Code takes no time: a unit of time passes only when    *)
(* every goroutine waits for the lock, a stalled peer, a timer or a pong   *)
(* that will not come. A broadcast that is not under way may wait as well. *)
(***************************************************************************)
PeerChanges(c) ==
    /\ conn[c].at # "closed"
    /\ conn[c].peer # "gone"
    /\ \E p \in PeerStates \ {conn[c].peer} :
           conn' = [conn EXCEPT ![c] = [@ EXCEPT !.peer = p, !.steady = FALSE]]
    /\ UNCHANGED <<clients, readers, pending, todo, writing, crashed>>

Blocked(w) ==
    IF writing[w] = None
    THEN Targets(w) = {}
    ELSE LET r == conn[writing[w].conn]
         IN  \/ ~HasTurn(w, r)
             \/ writing[w].left # 0 /\ r.peer = "stalled" /\ ~r.writeErr

Settled(c) ==
    /\ conn[c].at # "close"
    /\ conn[c].at \in {"register", "unregister"} =>
           pending # None /\ (pending = c => readers # {})
    /\ conn[c].at = "select" => conn[c].ping # 0 /\ conn[c].reader # "done"
    /\ conn[c].reader = "running" => conn[c].read # 0
    /\ ~PongDue(c)

Elapse(n) == IF n \in {None, 0} THEN n ELSE n - 1

Tick ==
    /\ \A w \in Writers : Blocked(w)
    /\ \A c \in Conns : Settled(c)
    /\ \A b \in readers : todo[b] # {}
    /\ conn' = [c \in Conns |-> [conn[c] EXCEPT !.ping = Elapse(@),
                                                !.read = Elapse(@),
                                                !.deadline = Elapse(@)]]
    /\ writing' = [w \in Writers |->
                       IF writing[w] = None THEN None
                       ELSE [writing[w] EXCEPT !.left = Elapse(@)]]
    /\ UNCHANGED <<clients, readers, pending, todo, crashed>>

(* Somebody starts the program again.                                      *)
Restart ==
    /\ crashed
    /\ crashed' = FALSE
    /\ UNCHANGED <<conn, clients, readers, pending, todo, writing>>

Registry(c) == Lock(c) \/ RegisterClient(c) \/ UnregisterClient(c) \/ Close(c)

Write(w) ==
    \/ \E c \in Conns : WriteRefused(w, c) \/ WriteBegins(w, c) \/ WritePanics(w, c)
    \/ WriteSucceeds(w)
    \/ WriteFails(w)

Loops(c) == Ping(c) \/ DoneReceived(c) \/ Pong(c) \/ ReadFails(c)

Next ==
    \/ /\ ~crashed
       /\ \/ \E c \in Conns : Connect(c) \/ Registry(c) \/ Loops(c)
          \/ \E b \in Broadcasters : BeginBroadcast(b) \/ EndBroadcast(b)
          \/ \E w \in Writers : Write(w)
          \/ \E c \in Conns : PeerChanges(c)
          \/ Tick
    \/ Restart

Spec == Init /\ [][Next]_vars

(* The goroutines are scheduled and time passes. sync.Mutex serves its     *)
(* waiters in turn once they have waited, and an RWMutex lets the waiting  *)
(* readers in when a writer leaves: strong fairness. Of peers and requests *)
(* nothing is assumed.                                                     *)
Fairness ==
    /\ \A c \in Conns : /\ SF_vars(~crashed /\ Lock(c))
                        /\ WF_vars(~crashed /\ Registry(c))
                        /\ WF_vars(~crashed /\ Loops(c))
    /\ \A w \in Writers : WF_vars(~crashed /\ Write(w))
    /\ \A b \in Broadcasters : WF_vars(~crashed /\ EndBroadcast(b))
    /\ SF_vars(~crashed /\ BeginBroadcast(Ticker))
    /\ WF_vars(~crashed /\ Tick)

FairSpec == Spec /\ Fairness

(***************************************************************************)
(* Properties.                                                             *)
(***************************************************************************)
Clock(limit) == 0..limit \cup {None}

Connection ==
    [at : {"closed", "register", "greet", "select", "ping", "unregister", "close"},
     reader : {"off", "running", "done"},
     peer : {"ready", "silent", "stalled", "gone"},
     steady : BOOLEAN, ping : Clock(PingPeriod), read : Clock(PongWait),
     deadline : Clock(WriteWait), pinged : BOOLEAN,
     isWriting : BOOLEAN, mu : Seq(Writers), writeErr : BOOLEAN]

(* Only a handler in registerClient or unregisterClient is inside Lock.    *)
LockInPlace ==
    pending # None => /\ pending \in Conns
                      /\ conn[pending].at \in {"register", "unregister"}

(* Only goroutines that are at a write write, and to what they may.        *)
WritesInPlace ==
    \A w \in Writers : writing[w] # None => writing[w].conn \in Targets(w)

(* Types, and who may be where.                                            *)
TypeOK ==
    /\ conn \in [Conns -> Connection]
    /\ clients \subseteq Conns
    /\ readers \subseteq Broadcasters
    /\ todo \in [Broadcasters -> SUBSET Conns]
    /\ writing \in [Writers -> [conn : Conns, left : Clock(WriteWait)] \cup {None}]
    /\ crashed \in BOOLEAN
    /\ LockInPlace
    /\ WritesInPlace

(* The registry holds exactly the connections between registerClient and   *)
(* the deletion in unregisterClient, and a broadcast under its read lock   *)
(* reaches only those, so that nobody writes to a connection that Close    *)
(* has taken away (websocket.go:95-105, server.go:112-121).                *)
RegistryIsOpen ==
    /\ clients = {c \in Conns : conn[c].at \in {"greet", "select", "ping", "unregister"}}
    /\ \A b \in Broadcasters : todo[b] \subseteq clients
    /\ \A b \in Broadcasters \ readers : todo[b] = {}

(* How far a handler has come, as its client may know it.                  *)
Life(r) ==
    CASE r.at = "closed"   -> "closed"
      [] r.at = "register" -> "open"
      [] r.at = "close"    -> "left"
      [] OTHER             -> "member"

Round == INSTANCE Rounds WITH
    life <- [c \in Conns |-> Life(conn[c])],
    busy <- readers,
    left <- todo

(* Whatever handlers, pings, failing writes and panics do meanwhile, a     *)
(* broadcast goes once to each client that was in the registry when it     *)
(* began and to no other: the map does not change while it is ranged over, *)
(* which Go answers with a fatal error, and no connection is closed under  *)
(* a write (server.go:112-121, websocket.go:87-98).                        *)
BroadcastsAreRounds == Round!Spec

(* While a handler waits for the registry, time passes only if a broadcast *)
(* is held up by a peer that takes no data: neither the locks nor a reply  *)
(* that does not come make connecting and disconnecting wait               *)
(* (websocket.go:95-105, server.go:112-121).                               *)
OnlyStalledPeersHoldTheRegistry ==
    [][Tick /\ pending # None =>
          \E b \in readers :
              writing[b] # None /\ conn[writing[b].conn].peer = "stalled"]_vars

(* Pings come often enough, and pongs extend the read deadline, so that    *)
(* the read of a peer that has always answered does not time out while its *)
(* handler is in the ping loop (websocket.go:17-18, 43-50).                *)
HeartbeatKeepsReading ==
    \A c \in Conns : conn[c].steady /\ conn[c].at = "select" => conn[c].read # 0

(* A broadcast comes to its end and gives the read lock back, with failing *)
(* clients among the others, if no peer stops taking data                  *)
(* (server.go:115-121).                                                    *)
BroadcastsReturn ==
    \A b \in Broadcasters : b \in readers ~> b \notin readers

(* "Client will be removed on next read error", the comment of broadcast   *)
(* (server.go:119): a read that failed, by its deadline or with the        *)
(* connection, takes the client off the registry. It holds as long as no   *)
(* peer stops taking data.                                                 *)
ReadErrorsRemove ==
    \A c \in Conns : conn[c].reader = "done" ~> c \notin clients

(* The connection of a client that reads everything it is sent and answers *)
(* every ping is kept alive: no write to it fails (websocket.go:77).       *)
HeartbeatKeepsConnection ==
    \A c \in Conns : conn[c].steady => ~conn[c].writeErr

(* Whatever happens between clients, broadcasts and pings does not end the *)
(* daemon (server.go:116, app.go:84-95).                                   *)
DaemonSurvives == ~crashed

=============================================================================
