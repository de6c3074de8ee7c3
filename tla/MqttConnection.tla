--------------------------- MODULE MqttConnection ---------------------------
(***************************************************************************)
(* The connection to an MQTT broker (lib/mqtt-connection.ts) and the        *)
(* plugin's use of it (lib/mqttclient.ts): a handshake with a timeout, a    *)
(* keepalive, reconnects, subscriptions that are restored, and packets that *)
(* wait for the handshake.                                                 *)
(*                                                                         *)
(* brokerTopics is what the broker makes of the packets written, which TCP  *)
(* brings in order.  A packet is one that was read whole; the messages'     *)
(* contents and the logging are left out.                                  *)
(***************************************************************************)
EXTENDS Naturals, Sequences, SequencesExt

CONSTANTS
    Topics,
    MaxQueue        \* bound: packets that wait for a handshake

VARIABLES
    socket,             \* "none", "connecting", "open", "ending" or "destroyed"
    moreData,           \* a packet is being processed, and there are more behind it
    connected,
    ended,
    connectTimer,
    keepaliveTimer,
    reconnectTimer,
    pendingPings,
    subscribedTopics,
    queuedPackets,      \* "publish", or the topic to unsubscribe from
    brokerTopics,
    renewed,            \* topics subscribed to while their UNSUBSCRIBE was queued
    silent              \* the broker does not answer on this connection

socketVars == <<socket, moreData, connected, ended, silent>>
timerVars == <<connectTimer, keepaliveTimer, reconnectTimer, pendingPings>>
topicVars == <<subscribedTopics, queuedPackets, brokerTopics, renewed>>
vars == <<socketVars, timerVars, topicVars>>

TypeOK ==
    /\ socket \in {"none", "connecting", "open", "ending", "destroyed"}
    /\ {moreData, connected, ended, connectTimer, keepaliveTimer, reconnectTimer, silent} \subseteq BOOLEAN
    /\ pendingPings \in 0 .. 2
    /\ subscribedTopics \subseteq Topics /\ brokerTopics \subseteq Topics /\ renewed \subseteq Topics
    /\ queuedPackets \in BoundedSeq(Topics \cup {"publish"}, MaxQueue)

\* The constructor opens the connection.
Init ==
    /\ socket = "connecting" /\ connectTimer = TRUE
    /\ moreData = FALSE /\ connected = FALSE /\ ended = FALSE /\ silent = FALSE
    /\ keepaliveTimer = FALSE /\ reconnectTimer = FALSE /\ pendingPings = 0
    /\ subscribedTopics = {} /\ brokerTopics = {} /\ renewed = {}
    /\ queuedPackets = <<>>

IsWritable == socket \in {"connecting", "open"}

-----------------------------------------------------------------------------
(* The socket.                                                             *)

\* scheduleReconnect's timer, and open.
ReconnectTimerFires ==
    /\ reconnectTimer
    /\ reconnectTimer' = FALSE
    /\ socket' = "connecting" /\ connectTimer' = TRUE
    /\ silent' = FALSE
    /\ UNCHANGED <<moreData, connected, ended, keepaliveTimer, pendingPings, topicVars>>

\* The socket is there: sendConnect.
Connects ==
    /\ socket = "connecting"
    /\ socket' = "open"
    /\ brokerTopics' = {}
    /\ UNCHANGED <<moreData, connected, ended, silent, timerVars, subscribedTopics, queuedPackets, renewed>>

\* The broker answers nothing from here on.
FallsSilent ==
    /\ socket \in {"connecting", "open"}
    /\ silent' = TRUE
    /\ UNCHANGED <<socket, moreData, connected, ended, timerVars, topicVars>>

\* The socket fails, or the host is not found, which ends the connection for good (the
\* listener of errors in configure, end with force).
Fails(isNotFound) ==
    /\ socket \in {"connecting", "open", "ending"}
    /\ isNotFound => socket = "connecting"
    /\ socket' = "destroyed"
    /\ ended' = (ended \/ isNotFound)
    /\ UNCHANGED <<moreData, connected, silent, timerVars, topicVars>>

\* Deviation: what waits for the handshake waits for the next one.
KeepsQueue == queuedPackets

\* teardownSocket drops what waits for a handshake that never was.
DropsQueue == <<>>

\* Deviation: no new attempt.
GivesUp == FALSE

\* scheduleReconnect.
Reconnects == ~ended

\* The socket is closed, by the broker or as it was destroyed.
Closes ==
    /\ socket # "none"
    /\ socket' = "none" /\ moreData' = FALSE
    /\ connected' = FALSE
    /\ connectTimer' = FALSE /\ keepaliveTimer' = FALSE
    /\ queuedPackets' = DropsQueue
    /\ reconnectTimer' = Reconnects
    /\ brokerTopics' = {} /\ renewed' = {}
    /\ UNCHANGED <<ended, silent, pendingPings, subscribedTopics>>

ConnectTimerFires ==
    /\ connectTimer
    /\ connectTimer' = FALSE
    /\ socket' = "destroyed"
    /\ UNCHANGED <<moreData, connected, ended, silent, keepaliveTimer, reconnectTimer, pendingPings,
                   topicVars>>

\* startKeepalive's interval: the third one that nothing came before is the last.
KeepaliveFires ==
    /\ keepaliveTimer
    /\ IF pendingPings >= 2
       THEN socket' = "destroyed" /\ UNCHANGED pendingPings
       ELSE pendingPings' = pendingPings + 1 /\ UNCHANGED socket
    /\ UNCHANGED <<moreData, connected, ended, silent, connectTimer, keepaliveTimer, reconnectTimer,
                   topicVars>>

-----------------------------------------------------------------------------
(* Packets.                                                                *)

\* What was read whole is processed to its end, also when one of the packets destroys the
\* socket (processData).
Receives ==
    /\ \/ socket = "open" /\ ~silent
       \/ socket = "ending" /\ ~silent
       \/ socket = "destroyed" /\ moreData
    /\ moreData' \in BOOLEAN

\* What is queued, written after the subscriptions: only an UNSUBSCRIBE changes them.
Unsubscribed == Range(queuedPackets) \cap Topics

\* Every subscription is restored (processPacket, CONNACK).
Restores == subscribedTopics

Connack ==
    /\ Receives
    /\ connected' = TRUE
    /\ connectTimer' = FALSE /\ keepaliveTimer' = TRUE /\ pendingPings' = 0
    /\ queuedPackets' = <<>>
    /\ brokerTopics' = IF socket = "open" THEN Restores \ Unsubscribed ELSE brokerTopics
    /\ renewed' = IF connected THEN {} ELSE renewed
    /\ UNCHANGED <<socket, ended, silent, reconnectTimer, subscribedTopics>>

\* A CONNACK that refuses, a PUBLISH that is malformed, a length out of bounds.
BadPacket ==
    /\ Receives
    /\ socket' = "destroyed"
    /\ pendingPings' \in {0, pendingPings}
    /\ UNCHANGED <<connected, ended, silent, connectTimer, keepaliveTimer, reconnectTimer, topicVars>>

\* A PUBLISH, or an answer.
Packet ==
    /\ Receives
    /\ pendingPings' = 0
    /\ UNCHANGED <<socket, connected, ended, silent, connectTimer, keepaliveTimer, reconnectTimer, topicVars>>

-----------------------------------------------------------------------------
(* What the plugin asks for.                                               *)

\* writeApplicationPacket, before the handshake is over.
Queues == IsWritable /\ ~connected

Publish ==
    /\ ~ended /\ Len(queuedPackets) < MaxQueue
    /\ queuedPackets' = IF Queues THEN Append(queuedPackets, "publish") ELSE queuedPackets
    /\ UNCHANGED <<socketVars, timerVars, subscribedTopics, brokerTopics, renewed>>

\* A subscription made before the handshake is over is left to it.
Subscribe(t) ==
    /\ ~ended
    /\ subscribedTopics' = subscribedTopics \cup {t}
    /\ brokerTopics' = IF connected /\ socket = "open" THEN brokerTopics \cup {t} ELSE brokerTopics
    /\ renewed' = CASE connected -> renewed \ {t}
                    [] Queues /\ t \in Unsubscribed -> renewed \cup {t}
                    [] OTHER -> renewed
    /\ UNCHANGED <<socketVars, timerVars, queuedPackets>>

Unsubscribe(t) ==
    /\ ~ended /\ Len(queuedPackets) < MaxQueue
    /\ subscribedTopics' = subscribedTopics \ {t}
    /\ queuedPackets' = IF Queues THEN Append(queuedPackets, t) ELSE queuedPackets
    /\ brokerTopics' = IF connected /\ socket = "open" THEN brokerTopics \ {t} ELSE brokerTopics
    /\ UNCHANGED <<socketVars, timerVars, renewed>>

\* Homebridge shuts down: end of the client and of its connection.
End ==
    /\ ~ended
    /\ ended' = TRUE
    /\ reconnectTimer' = FALSE /\ keepaliveTimer' = FALSE
    /\ socket' = CASE socket = "none"      -> "none"
                   [] socket = "open" /\ connected -> "ending"
                   [] OTHER                -> "destroyed"
    /\ UNCHANGED <<moreData, connected, silent, connectTimer, pendingPings, topicVars>>

Next ==
    \/ ReconnectTimerFires \/ Connects \/ FallsSilent \/ Closes \/ ConnectTimerFires \/ KeepaliveFires
    \/ \E isNotFound \in BOOLEAN : Fails(isNotFound)
    \/ Connack \/ BadPacket \/ Packet
    \/ Publish \/ End
    \/ \E t \in Topics : Subscribe(t) \/ Unsubscribe(t)

\* The timers fire, and a socket that was destroyed closes.
Fairness ==
    /\ WF_vars(ReconnectTimerFires) /\ WF_vars(ConnectTimerFires) /\ WF_vars(KeepaliveFires)
    /\ WF_vars(socket = "destroyed" /\ Closes)

Spec == Init /\ [][Next]_vars /\ Fairness

-----------------------------------------------------------------------------
(* What the connection promises.                                           *)

\* Once the handshake is over the broker has exactly the subscriptions the plugin asked
\* for, over reconnects and whenever they were made; but for a topic that was given up and
\* asked for again during one handshake, whose UNSUBSCRIBE comes last (subscribe,
\* unsubscribe, processPacket).
SubscriptionsHold ==
    connected /\ socket = "open" => \A t \in Topics \ renewed : t \in subscribedTopics <=> t \in brokerTopics

\* Timers belong to what they watch: one attempt at a time, none once ended, a handshake or
\* a connection never unwatched (open, teardownSocket, scheduleReconnect, end).
TimersAgree ==
    /\ reconnectTimer => socket = "none" /\ ~ended
    /\ socket = "none" => ended \/ reconnectTimer
    /\ socket \in {"connecting", "open"} => connectTimer \/ keepaliveTimer
    /\ connectTimer \/ keepaliveTimer => socket # "none"

\* A broker that answers nothing any more is left, and tried again (KeepaliveFires,
\* ConnectTimerFires, scheduleReconnect), unless the plugin shuts down.
SilentBrokerIsLeft == []<>(~silent \/ ended)

=============================================================================
