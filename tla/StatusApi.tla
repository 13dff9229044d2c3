------------------------------ MODULE StatusApi ------------------------------
(***************************************************************************)
(* The handlers that only read (internal/api/handlers.go, server.go and    *)
(* types.go): status, policies, one policy, processes.  The status         *)
(* broadcast and the first message of a WebSocket read as a status request *)
(* does.                                                                   *)
(*                                                                         *)
(* The daemon publishes snapshot and decisions together, but a handler     *)
(* fetches them one after the other, each under the read lock, and then    *)
(* asks for the cooldown of one policy at a time: a check may publish, and *)
(* an execution may end, between any two of these reads.  Loads, memory,   *)
(* thresholds and reasons are left out, and so are the alerts, which       *)
(* nothing adds.                                                           *)
(***************************************************************************)
EXTENDS TerminateApi

CONSTANT Questions  \* what a client may ask for: [about, name]

ASSUME StatusApiAssumption ==
    \A question \in Questions :
        question.about \in {"status", "policies", "policy", "processes"}

VARIABLE reader  \* the reading handler of each client

webVars == <<sysVars, reader>>

-----------------------------------------------------------------------------
\* What the handler fetches from the daemon, in order.
\* Mutant of Reads: a status takes the decisions first.
ReadsSwapped(question) ==
    CASE question.about = "status"    -> <<"decisions", "snapshot">>
      [] question.about = "processes" -> <<"snapshot">>
      [] OTHER                        -> <<"decisions">>

Reads(question) ==
    CASE question.about = "status"    -> <<"snapshot", "decisions">>
      [] question.about = "processes" -> <<"snapshot">>
      [] OTHER                        -> <<"decisions">>

\* `shot' and `decisions' are what has been fetched, `shotOld' and `decOld' that
\* a check has published since (an old snapshot is not compared with anything and
\* dropped), `states' the policies of the reply.
Reader(at, question, plan, status) ==
    [at |-> at, question |-> question, plan |-> plan, status |-> status,
     shot |-> {}, shotOld |-> FALSE, decisions |-> <<>>, decOld |-> FALSE, states |-> <<>>]

NotReading == Reader("idle", [about |-> "status", name |-> NoName], <<>>, 0)

WebInit == SysInit /\ reader = [c \in Clients |-> NotReading]

\* What a step of the daemon or of a request does to what others have fetched.
Outdate ==
    LET publishing == pc = "evaluate" /\ pc' = "decide"
    IN  reader' = [c \in Clients |->
                      IF publishing /\ reader[c].at = "reading"
                      THEN [reader[c] EXCEPT !.shot = {}, !.shotOld = TRUE, !.decOld = TRUE]
                      ELSE reader[c]]

-----------------------------------------------------------------------------
Shown(d, cooling) ==
    [policy |-> d.policy, triggered |-> d.triggered, pids |-> d.pids, onCooldown |-> cooling]

Put(c, r) == reader' = [reader EXCEPT ![c] = r] /\ UNCHANGED sysVars

\* A policy that the configuration does not have is not found.
AskPolicies(c, question) ==
    /\ handler[c].at = "idle"
    /\ reader[c].at = "idle"
    /\ Put(c, IF question.about = "policy" /\ question.name \notin PolicyNames
              THEN [NotReading EXCEPT !.at = "replied", !.status = 404]
              ELSE Reader("reading", question, Reads(question), 0))

Fetches(c, what) ==
    /\ reader[c].at = "reading"
    /\ reader[c].plan # <<>>
    /\ Head(reader[c].plan) = what

FetchSnapshot(c) ==
    /\ Fetches(c, "snapshot")
    /\ Put(c, [reader[c] EXCEPT !.plan = Tail(@), !.shot = latestSnapshot, !.shotOld = FALSE])

\* The decisions that the reply is about: all, or that on one policy, if there
\* is one yet.
Wanted(question) ==
    IF question.about # "policy"
    THEN {latestDecisions}
    ELSE LET found == {i \in DOMAIN latestDecisions : latestDecisions[i].policy = question.name}
         IN  IF found = {} THEN {<<>>} ELSE {<<latestDecisions[i]>> : i \in found}

FetchDecisions(c) ==
    /\ Fetches(c, "decisions")
    /\ \E wanted \in Wanted(reader[c].question) :
          Put(c, [reader[c] EXCEPT !.plan = Tail(@), !.decisions = wanted, !.decOld = FALSE])

\* The next policy of the reply, with its cooldown as of now.
ShowPolicy(c) ==
    LET r == reader[c]
        d == r.decisions[Len(r.states) + 1]
    IN  /\ r.at = "reading"
        /\ r.plan = <<>>
        /\ Len(r.states) < Len(r.decisions)
        /\ Put(c, [r EXCEPT !.states = Append(@, Shown(d, IsOnCooldown(d.policy)))])

\* Everything that the reply needs has been fetched.
Complete(r) == r.at = "reading" /\ r.plan = <<>> /\ Len(r.states) = Len(r.decisions)

ShowReply(c) ==
    /\ Complete(reader[c])
    /\ Put(c, [NotReading EXCEPT !.at = "replied", !.status = 200])

ReadReturns(c) ==
    /\ reader[c].at = "replied"
    /\ Put(c, NotReading)

Read(c) ==
    \/ \E question \in Questions : AskPolicies(c, question)
    \/ FetchSnapshot(c)
    \/ FetchDecisions(c)
    \/ ShowPolicy(c)
    \/ ShowReply(c)
    \/ ReadReturns(c)

WebNext ==
    \/ DaemonStep /\ Outdate
    \/ \E c \in Clients, request \in Requests :
          reader[c].at = "idle" /\ Arrive(c, request) /\ UNCHANGED reader
    \/ \E c \in Clients : Serve(c) /\ Outdate
    \/ \E c \in Clients : Read(c)

WebSpec == WebInit /\ [][WebNext]_webVars

-----------------------------------------------------------------------------
\* The parts of a status may come from different checks, but they fit together:
\* the decisions are never older than the snapshot, and if they come from the
\* same check, every target is one of the snapshot's processes.
\* (server.go:124-149, daemon.go:148-152)
StatusIsCoherent ==
    \A c \in Clients :
        LET r == reader[c]
        IN  Complete(r) /\ r.question.about = "status" /\ ~r.shotOld =>
              /\ ~r.decOld
              /\ \A i \in DOMAIN r.states :
                    r.shot # NoSnapshot /\ r.states[i].pids \subseteq r.shot
=============================================================================
