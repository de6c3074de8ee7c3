--------------------------- MODULE SocketContract ---------------------------
(***************************************************************************)
(* What the users of a WebSocketClient rely on (the events channel and the *)
(* livestream reconnect from the close event): a connection opens at most  *)
(* once, delivers messages only between its open and close events, and     *)
(* announces its end exactly once.                                         *)
(***************************************************************************)
EXTENDS Naturals

VARIABLES
    phase,      \* connecting, open or closed, as the events announced it
    messages,   \* how many messages were delivered
    closes      \* how many close events were emitted

vars == <<phase, messages, closes>>

Init ==
    /\ phase = "connecting"
    /\ messages = 0
    /\ closes = 0

Open ==
    /\ phase = "connecting"
    /\ phase' = "open"
    /\ UNCHANGED <<messages, closes>>

Deliver ==
    /\ phase = "open"
    /\ messages' = messages + 1
    /\ UNCHANGED <<phase, closes>>

Close ==
    /\ phase # "closed"
    /\ phase' = "closed"
    /\ closes' = closes + 1
    /\ UNCHANGED messages

Next == Open \/ Deliver \/ Close

Spec == Init /\ [][Next]_vars

=============================================================================
