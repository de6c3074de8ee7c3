--------------------------- MODULE WebSocketClient ---------------------------
(***************************************************************************)
(* The WebSocket client (lib/websocket.ts): the upgrade handshake, the     *)
(* frame loop with its reassembly of fragmented messages, the heartbeat,   *)
(* and the ways a connection ends.  One instance of this module is one     *)
(* connection.  A frame is its kind, with a payload of one unit; the bytes *)
(* it is found in are WebSocketFraming's.  A data event hands the loop a   *)
(* chunk of whole frames, and nothing but a listener runs before the loop  *)
(* is done with them.                                                      *)
(***************************************************************************)
EXTENDS Naturals, Sequences

CONSTANTS
    HeartbeatIntervals, \* what heartbeatInterval may be: 0, or how often the peer shows life
    MaxPayload,         \* the largest message that is reassembled
    MaxFrames           \* bound: frames the server sends

VARIABLES
    heartbeatInterval,  \* the option the connection was created with
    readyState,
    request,        \* the upgrade request: pending, destroyed or done
    socket,         \* none, up, destroyed (its close event is due) or gone
    closeTimer,     \* the grace period of a closing handshake is running
    heartbeatTimer, \* the liveness heartbeat is running
    sawFrame,       \* a frame arrived since the last heartbeat
    fragments,      \* the frames of the message being reassembled
    chunk,          \* frames the loop has yet to process
    received,       \* history: the kinds of all frames the loop processed
    delivered,      \* history: the frames each delivered message was made of
    closes,         \* history: close events emitted
    failed          \* history: the connection was failed for a violation

loopVars == <<fragments, chunk, received, delivered, failed>>
timerVars == <<closeTimer, heartbeatTimer, sawFrame>>
connection == <<readyState, request, socket, closes, timerVars, loopVars>>
vars == <<heartbeatInterval, connection>>

\* A whole message, the fragments of one, control frames, and what the client
\* refuses outright: a malformed control frame or an oversized payload.
DataKinds == {"data", "first", "cont", "last"}
FrameKinds == DataKinds \cup {"close", "pong", "bad"}

TypeOK ==
    /\ heartbeatInterval \in HeartbeatIntervals
    /\ readyState \in {"CONNECTING", "OPEN", "CLOSING", "CLOSED"}
    /\ request \in {"pending", "destroyed", "done"}
    /\ socket \in {"none", "up", "destroyed", "gone"}
    /\ closeTimer \in BOOLEAN
    /\ heartbeatTimer \in BOOLEAN
    /\ sawFrame \in BOOLEAN
    /\ fragments \in Seq(1 .. MaxFrames)
    /\ chunk \in Seq(FrameKinds)
    /\ received \in Seq(FrameKinds)
    /\ Len(received) + Len(chunk) <= MaxFrames
    /\ delivered \in Seq(Seq(1 .. MaxFrames))
    /\ closes \in 0 .. 1
    /\ failed \in BOOLEAN

Init ==
    /\ heartbeatInterval \in HeartbeatIntervals
    /\ readyState = "CONNECTING"
    /\ request = "pending"
    /\ socket = "none"
    /\ closeTimer = FALSE
    /\ heartbeatTimer = FALSE
    /\ sawFrame = FALSE
    /\ fragments = <<>>
    /\ chunk = <<>>
    /\ received = <<>>
    /\ delivered = <<>>
    /\ closes = 0
    /\ failed = FALSE

Idle == chunk = <<>>

\* The chunks the server may still send.
Chunks ==
    {c \in UNION {[1 .. n -> FrameKinds] : n \in 1 .. 2} : Len(received) + Len(c) <= MaxFrames}

-----------------------------------------------------------------------------
(* The opening handshake.                                                  *)

\* Deviation: an upgrade that does not look whether it is still wanted.
AwaitsUpgradeAlways == TRUE

\* A connection closed during its handshake must not be resurrected.
AwaitsUpgrade == readyState = "CONNECTING"

\* close, for an open connection: send a CLOSE frame and wait for the server.
BeginClosing ==
    /\ heartbeatTimer' = FALSE
    /\ readyState' = "CLOSING"
    /\ closeTimer' = TRUE

\* The upgrade event with a valid response; data may come along with it, and
\* the listener of the open event may have changed its mind.
Upgrade(head) ==
    /\ request # "done"
    /\ request' = "done"
    /\ IF AwaitsUpgrade
       THEN /\ socket' = "up"
            /\ sawFrame' = (heartbeatInterval > 0)
            /\ chunk' = head
            /\ \/ /\ readyState' = "OPEN"
                  /\ heartbeatTimer' = (heartbeatInterval > 0)
                  /\ UNCHANGED closeTimer
               \/ BeginClosing
       ELSE UNCHANGED <<socket, readyState, timerVars, chunk>>
    /\ UNCHANGED <<fragments, received, delivered, closes, failed>>

\* An invalid or refused upgrade, a network error or the handshake timeout.
HandshakeFails ==
    /\ request = "pending"
    /\ readyState = "CONNECTING"
    /\ request' = "done"
    /\ readyState' = "CLOSED"
    /\ closes' = closes + 1
    /\ UNCHANGED <<socket, timerVars, loopVars>>

-----------------------------------------------------------------------------
(* Closing.                                                                *)

\* close, called by a listener of a message or error event, or not called.
ListenerMayClose ==
    \/ UNCHANGED <<readyState, heartbeatTimer, closeTimer>>
    \/ readyState = "OPEN" /\ BeginClosing

\* close, called from outside the loop.
Close ==
    /\ Idle
    /\ \/ /\ readyState = "CONNECTING"
          /\ readyState' = "CLOSED"
          /\ request' = "destroyed"
          /\ closes' = closes + 1
          /\ UNCHANGED <<socket, timerVars>>
       \/ /\ readyState = "OPEN"
          /\ BeginClosing
          /\ UNCHANGED <<request, socket, sawFrame, closes>>
    /\ UNCHANGED loopVars

\* The server did not complete the closing handshake in time.
CloseTimerFires ==
    /\ Idle
    /\ closeTimer
    /\ closeTimer' = FALSE
    /\ socket' = IF socket = "up" THEN "destroyed" ELSE socket
    /\ UNCHANGED <<readyState, request, heartbeatTimer, sawFrame, closes, loopVars>>

\* The socket's close event, because of an error or of either side.
SocketCloses ==
    /\ Idle
    /\ socket \in {"up", "destroyed"}
    /\ socket' = "gone"
    /\ closeTimer' = FALSE
    /\ heartbeatTimer' = FALSE
    /\ readyState' = "CLOSED"
    /\ closes' = closes + 1
    /\ UNCHANGED <<request, sawFrame, loopVars>>

\* Deviation: a heartbeat that never gives up on its peer.
PeerIsAlive == TRUE

\* Any frame since the last tick counts as a sign of life.
SignOfLife == sawFrame

\* The heartbeat ticks: ping a peer that showed life, give up on a silent one.
HeartbeatTick ==
    /\ Idle
    /\ heartbeatTimer
    /\ IF SignOfLife
       THEN /\ sawFrame' = FALSE
            /\ UNCHANGED <<heartbeatTimer, socket>>
       ELSE /\ heartbeatTimer' = FALSE
            /\ socket' = IF socket = "up" THEN "destroyed" ELSE socket
            /\ UNCHANGED sawFrame
    /\ UNCHANGED <<readyState, request, closeTimer, closes, loopVars>>

-----------------------------------------------------------------------------
(* The frame loop.                                                         *)

\* The socket's data event.
DataArrives(frames) ==
    /\ Idle
    /\ socket = "up"
    /\ chunk' = frames
    /\ UNCHANGED <<readyState, request, socket, closes, timerVars, fragments, received,
                   delivered, failed>>

Frame == Head(chunk)
FrameNumber == Len(received) + 1

\* A payload counts together with the message being reassembled.
ExceedsCap == Len(fragments) + 1 > MaxPayload

Refused == Frame = "bad" \/ (Frame \in DataKinds /\ ExceedsCap)

\* terminate, as the loop calls it.
Terminate ==
    /\ heartbeatTimer' = FALSE
    /\ readyState' = "CLOSED"
    /\ socket' = "destroyed"
    /\ failed' = TRUE

\* A frame is refused before it is read: the rest of the chunk is dropped.  The
\* error event comes first, and its listener may close an open connection.
RefuseFrame ==
    /\ ~Idle
    /\ Refused
    /\ Terminate
    /\ chunk' = <<>>
    /\ received' = Append(received, Frame)
    /\ closeTimer' \in {closeTimer, closeTimer \/ readyState = "OPEN"}
    /\ UNCHANGED <<request, sawFrame, fragments, delivered, closes>>

ReadFrame ==
    /\ ~Idle
    /\ ~Refused
    /\ sawFrame' = TRUE
    /\ chunk' = Tail(chunk)
    /\ received' = Append(received, Frame)
    /\ UNCHANGED <<request, closes>>

DeliverMessage(message) ==
    /\ delivered' = Append(delivered, message)
    /\ ListenerMayClose

\* A continuation with no message in progress.  The loop goes on after it.
StrayContinuation ==
    /\ ReadFrame
    /\ Frame \in {"cont", "last"}
    /\ fragments = <<>>
    /\ Terminate
    /\ closeTimer' \in {closeTimer, closeTimer \/ readyState = "OPEN"}
    /\ UNCHANGED <<fragments, delivered>>

Continuation ==
    /\ ReadFrame
    /\ Frame \in {"cont", "last"}
    /\ fragments # <<>>
    /\ LET message == Append(fragments, FrameNumber)
       IN  IF Frame = "last"
           THEN /\ fragments' = <<>>
                /\ DeliverMessage(message)
           ELSE /\ fragments' = message
                /\ UNCHANGED <<delivered, readyState, heartbeatTimer, closeTimer>>
    /\ UNCHANGED <<socket, failed>>

\* Deviation: a message that joins the unfinished one it interrupts.
JoinUnfinished == Append(fragments, FrameNumber)

\* A message that interrupts an unfinished one replaces it.
StartOver == <<FrameNumber>>

DataFrame ==
    /\ ReadFrame
    /\ Frame \in {"data", "first"}
    /\ IF Frame = "data"
       THEN /\ fragments' = <<>>
            /\ DeliverMessage(StartOver)
       ELSE /\ fragments' = StartOver
            /\ UNCHANGED <<delivered, readyState, heartbeatTimer, closeTimer>>
    /\ UNCHANGED <<socket, failed>>

\* The grace period begins, unless it is running already.
ClosingGracePeriod == closeTimer' = TRUE

CloseFrame ==
    /\ ReadFrame
    /\ Frame = "close"
    /\ readyState' = "CLOSING"
    /\ ClosingGracePeriod
    /\ UNCHANGED <<socket, heartbeatTimer, fragments, delivered, failed>>

PongFrame ==
    /\ ReadFrame
    /\ Frame = "pong"
    /\ UNCHANGED <<readyState, socket, closeTimer, heartbeatTimer, fragments, delivered,
                   failed>>

ProcessFrame ==
    RefuseFrame \/ StrayContinuation \/ Continuation \/ DataFrame \/ CloseFrame \/ PongFrame

Step ==
    \/ \E head \in Chunks \cup {<<>>} : Upgrade(head)
    \/ HandshakeFails
    \/ Close
    \/ CloseTimerFires
    \/ SocketCloses
    \/ HeartbeatTick
    \/ \E frames \in Chunks : DataArrives(frames)
    \/ ProcessFrame

Next == Step /\ UNCHANGED heartbeatInterval

Spec == Init /\ [][Next]_vars

\* The handshake has a timeout, timers fire, a destroyed socket reports its end
\* and the loop runs to completion.  Neither the peer nor the user is fair.
Fairness ==
    /\ WF_connection(HandshakeFails)
    /\ WF_connection(CloseTimerFires)
    /\ WF_connection(socket = "destroyed" /\ SocketCloses)
    /\ WF_connection(HeartbeatTick)
    /\ WF_connection(ProcessFrame)

FairSpec == Spec /\ Fairness

-----------------------------------------------------------------------------
(* What the client promises.                                               *)

\* The events a user sees are those of a connection: one open at most, messages
\* only while it is open, and exactly one close, whichever of close, terminate,
\* the handshake and the socket's own end come together (connect, close).
Contract == INSTANCE SocketContract WITH
    phase <- IF closes > 0 THEN "closed" ELSE IF socket = "none" THEN "connecting" ELSE "open",
    messages <- Len(delivered)

ImplementsContract == Contract!Spec

\* A connection that announced its end holds nothing any more: no timer that
\* would fire, no socket, and no state that says otherwise (the close listener).
EndIsFinal ==
    closes > 0 => /\ readyState = "CLOSED"
                  /\ socket \in {"none", "gone"}
                  /\ ~closeTimer /\ ~heartbeatTimer

\* A delivered message is exactly what the server sent as one: a whole frame, or
\* a first fragment and every data frame up to its last one, within the size cap;
\* fragments of an interrupted message never leak into another (processFrame).
MessagesAreWhole ==
    \A k \in DOMAIN delivered :
        LET message == delivered[k]
            last == message[Len(message)]
            between == {n \in message[1] .. last : received[n] \in DataKinds}
        IN  /\ Len(message) <= MaxPayload
            /\ between = {message[n] : n \in DOMAIN message}
            /\ \/ Len(message) = 1 /\ received[last] = "data"
               \/ /\ received[message[1]] = "first"
                  /\ received[last] = "last"
                  /\ \A n \in 2 .. Len(message) - 1 : received[message[n]] = "cont"

\* A connection that is being closed, by either side, does end; and with a heartbeat a
\* server that falls silent cannot keep one up: that it died without a FIN or RST is
\* noticed (startClosingTimer, startHeartbeat).
ConnectionsEnd ==
    []<>(readyState = "CLOSING" \/ heartbeatInterval > 0 => closes > 0)

\* processFrame: "fail the connection per RFC 6455".  A failed connection takes
\* nothing more from its peer.
NothingAfterFailure == [][failed => delivered' = delivered]_vars

=============================================================================
