-------------------------------- MODULE Rounds --------------------------------
(***************************************************************************)
(* What the WebSocket side of the server promises, without its locks, its  *)
(* writes and its timers: connections come and go one at a time and never  *)
(* in the middle of a round of messages; a round goes once to every client *)
(* that was a member when it began, and to nobody else; and a connection   *)
(* is closed only after it has ceased to be a member.                      *)
(***************************************************************************)
CONSTANTS
    Conns,        \* connections
    Broadcasters  \* who sends rounds

VARIABLES
    life,  \* of each connection: "closed", "open", "member" or "left"
    busy,  \* who is in the middle of a round
    left   \* whom the rounds have still to reach

vars == <<life, busy, left>>

Init ==
    /\ life = [c \in Conns |-> "closed"]
    /\ busy = {}
    /\ left = [b \in Broadcasters |-> {}]

Members == {c \in Conns : life[c] = "member"}

Turns(c, from, to) ==
    /\ life[c] = from
    /\ life' = [life EXCEPT ![c] = to]
    /\ UNCHANGED <<busy, left>>

Open(c) == Turns(c, "closed", "open")

\* The members change between rounds only.
Join(c) == busy = {} /\ Turns(c, "open", "member")

Leave(c) == busy = {} /\ Turns(c, "member", "left")

Close(c) == Turns(c, "left", "closed")

-----------------------------------------------------------------------------
Begin(b) ==
    /\ b \notin busy
    /\ busy' = busy \cup {b}
    /\ left' = [left EXCEPT ![b] = Members]
    /\ UNCHANGED life

\* The message has been written to c, or the attempt has failed.
Serve(b, c) ==
    /\ b \in busy
    /\ c \in left[b]
    /\ left' = [left EXCEPT ![b] = @ \ {c}]
    /\ UNCHANGED <<life, busy>>

End(b) ==
    /\ b \in busy
    /\ left[b] = {}
    /\ busy' = busy \ {b}
    /\ UNCHANGED <<life, left>>

\* A panic ends a round before it has reached everybody.
Break(b) ==
    /\ b \in busy
    /\ busy' = busy \ {b}
    /\ left' = [left EXCEPT ![b] = {}]
    /\ UNCHANGED life

\* The process ends.
Collapse ==
    /\ life' = [c \in Conns |-> "closed"]
    /\ busy' = {}
    /\ left' = [b \in Broadcasters |-> {}]

Next ==
    \/ \E c \in Conns : Open(c) \/ Join(c) \/ Leave(c) \/ Close(c)
    \/ \E b \in Broadcasters : Begin(b) \/ End(b) \/ Break(b)
    \/ \E b \in Broadcasters, c \in Conns : Serve(b, c)
    \/ Collapse

Spec == Init /\ [][Next]_vars
===============================================================================
