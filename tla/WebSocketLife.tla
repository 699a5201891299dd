---------------------------- MODULE WebSocketLife ----------------------------
(***************************************************************************)
(* What a connection of src/ws/lib/websocket.js promises to the program    *)
(* that uses it, without sockets, frames, zlib or timers: it opens at most *)
(* once and never comes back, every message that reached it is emitted,    *)
(* once and in order, also while it closes, and 'close' is emitted once,   *)
(* after all of them.  WebSocket is shown to implement it.                 *)
(***************************************************************************)
EXTENDS Naturals, Sequences

CONSTANT Message      \* numbers: a message that reaches the connection later has a higher one

VARIABLES
    state,        \* readyState
    due,          \* the messages that reached the connection and are not emitted yet
    emitted,      \* messages of the 'message' events
    closes        \* 'close' events

vars == <<state, due, emitted, closes>>

Init ==
    /\ state \in {"CONNECTING", "OPEN"}
    /\ due = {}
    /\ emitted = <<>>
    /\ closes = 0

Open ==
    /\ state = "CONNECTING"
    /\ state' = "OPEN"
    /\ UNCHANGED <<due, emitted, closes>>

\* The program, the peer or a failure ends the connection.
StartClosing ==
    /\ state \in {"CONNECTING", "OPEN"}
    /\ state' = "CLOSING"
    /\ UNCHANGED <<due, emitted, closes>>

\* A message reaches the socket, also that of a closing connection.
Take(m) ==
    /\ state \in {"OPEN", "CLOSING"}
    /\ \A n \in due : n < m
    /\ \A i \in 1..Len(emitted) : emitted[i] < m
    /\ due' = due \cup {m}
    /\ UNCHANGED <<state, emitted, closes>>

\* A 'message' event, for the first of the messages that are due.
Deliver(m) ==
    /\ state \in {"OPEN", "CLOSING"}
    /\ \A n \in due : m <= n
    /\ emitted' = Append(emitted, m)
    /\ due' = due \ {m}
    /\ UNCHANGED <<state, closes>>

\* 'close'.  A connection that was open passes through CLOSING.
Finish ==
    /\ state \in {"CONNECTING", "CLOSING"}
    /\ due = {}
    /\ state' = "CLOSED"
    /\ closes' = closes + 1
    /\ UNCHANGED <<due, emitted>>

Next ==
    \/ Open
    \/ StartClosing
    \/ \E m \in Message : Take(m)
    \/ \E m \in due : Deliver(m)
    \/ Finish

Spec == Init /\ [][Next]_vars
=============================================================================
