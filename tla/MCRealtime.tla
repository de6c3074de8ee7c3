------------------------------ MODULE MCRealtime ------------------------------
(***************************************************************************)
(* The events channel, a websocket connection and the bytes one receives,  *)
(* each on a small instance for TLC.  They share no state here: the        *)
(* channel takes its sockets as SocketContract describes them, a           *)
(* connection keeps that contract whatever frames it gets, and the framing *)
(* finds the frames in the bytes.  part says which of them a behaviour is  *)
(* about; the others stay as they began.                                   *)
(***************************************************************************)
EXTENDS EventsChannel

CONSTANTS HeartbeatIntervals, MaxPayload, MaxFrames, PayloadLengths, MaxSent

\* maximumPayload is a number of bytes.
ASSUME PayloadAssumption == MaxPayload \in Nat /\ PayloadLengths \subseteq Nat

VARIABLES
    part,
    heartbeatInterval, readyState, request, socket, closeTimer, heartbeatTimer, sawFrame,
    fragments, chunk, received, delivered, closes, failed,
    stream, arrived, processed, pendingBytes, bytesNeeded, buffer, isReading, isTerminated

Client == INSTANCE WebSocketClient
Framing == INSTANCE WebSocketFraming WITH pending <- pendingBytes

connection == <<readyState, request, socket, closes, closeTimer, heartbeatTimer, sawFrame,
                fragments, chunk, received, delivered, failed>>
framing == <<stream, arrived, processed, pendingBytes, bytesNeeded, buffer, isReading,
             isTerminated>>

PartsInit ==
    /\ part \in {"channel", "socket", "framing"}
    /\ Init
    /\ Client!Init
    /\ Framing!Init
    \* The heartbeat's interval is a part of the connection's behaviours only.
    /\ part # "socket" => \A n \in HeartbeatIntervals : heartbeatInterval <= n

ChannelSteps ==
    /\ part = "channel"
    /\ Next
    /\ UNCHANGED <<part, heartbeatInterval, connection, framing>>

SocketSteps ==
    /\ part = "socket"
    /\ Client!Next
    /\ UNCHANGED <<part, vars, framing>>

FramingSteps ==
    /\ part = "framing"
    /\ Framing!Next
    /\ UNCHANGED <<part, vars, heartbeatInterval, connection>>

PartsNext == ChannelSteps \/ SocketSteps \/ FramingSteps

\* The fairness of EventsChannel and of WebSocketClient, each where it is about.
ChannelFairness ==
    /\ WF_vars(part = "channel" /\ BootstrapRefreshes)
    /\ \A c \in Callers :
           WF_vars(part = "channel" /\ LoginSucceeds(c)) /\ WF_vars(part = "channel" /\ Opens(c, 0))
    /\ \A s \in Sockets : WF_vars(part = "channel" /\ state[s] = "closing" /\ SocketCloses(s))
    /\ \A s \in Sockets, n \in 1 .. MaxUpdates :
           WF_vars(part = "channel" /\ \E result \in Results : Decoded(s, n, result))

SocketFairness ==
    /\ WF_connection(part = "socket" /\ Client!HandshakeFails)
    /\ WF_connection(part = "socket" /\ Client!CloseTimerFires)
    /\ WF_connection(part = "socket" /\ socket = "destroyed" /\ Client!SocketCloses)
    /\ WF_connection(part = "socket" /\ Client!HeartbeatTick)
    /\ WF_connection(part = "socket" /\ Client!ProcessFrame)

PartsSpec ==
    /\ PartsInit /\ [][PartsNext]_<<part, vars, heartbeatInterval, connection, framing>>
    /\ ChannelFairness /\ SocketFairness

-----------------------------------------------------------------------------
(* What they promise, under the names they give it.                        *)

\* Once controller and network behave, the channel comes back, whatever happened: where
\* a reconnect attempt gave up, the bootstrap refresh makes up for it.
ChannelRecovers == <>[](part = "channel" => IsUp)

\* A message is delivered whole or not at all, and none waits for more than its own
\* bytes (processData).
MessagesAreWhole == Client!MessagesAreWhole /\ Framing!FramesAreWhole

\* A connection keeps SocketContract (connect, close).
ImplementsContract == Client!ImplementsContract

\* Closing ends a connection, and so does a server that falls silent (startHeartbeat).
ConnectionsEnd == Client!ConnectionsEnd

=============================================================================
