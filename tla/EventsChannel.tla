---------------------------- MODULE EventsChannel ----------------------------
(***************************************************************************)
(* The realtime events channel (unifi/protect-api-events-channel.ts): the  *)
(* websocket the controller's updates arrive on.  connect is called by the *)
(* periodic bootstrap refresh, one call at a time, and by the reconnect    *)
(* timer; it waits for a login and for the socket to open, and everything  *)
(* else runs meanwhile.  A socket keeps the contract of SocketContract.    *)
(***************************************************************************)
EXTENDS Naturals, Sequences

CONSTANTS
    Refresh,        \* the call of connect the bootstrap refresh makes
    Reconnects,     \* calls of connect the reconnect timer makes
    Sockets,        \* bound: sockets that exist at the same time
    NoSocket,
    MaxUpdates,     \* bound: updates the controller sends
    MaxFaults       \* bound: failures of the controller and the network

Callers == Reconnects \cup {Refresh}

ASSUME ConstantsAssumption ==
    /\ NoSocket \notin Sockets
    /\ Refresh \notin Reconnects
    /\ Sockets \cap {"idle", "login"} = {}
    /\ MaxUpdates \in Nat
    /\ MaxFaults \in Nat

VARIABLES
    loggedIn,       \* the API session holds a cookie and a CSRF token
    ws,             \* the websocket that was made available
    reconnectTimer, \* the field: a reconnect attempt is scheduled
    armed,          \* how many reconnect timers are running
    call,           \* each call of connect: idle, at its login, or its socket
    state,          \* the state of each socket
    attached,       \* sockets whose message and close listeners are attached
    queue,          \* each socket's packets, from their arrival to their emission
    sent,           \* how many updates the controller sent
    taken,          \* history: each socket's packets that were emitted or cannot be decoded
    faults          \* history: failures so far

packetVars == <<queue, sent, taken>>
vars == <<loggedIn, ws, reconnectTimer, armed, call, state, attached, packetVars, faults>>

Packet == [update : 1 .. MaxUpdates, decoded : {"pending", "packet", "null"}]

TypeOK ==
    /\ loggedIn \in BOOLEAN
    /\ ws \in Sockets \cup {NoSocket}
    /\ reconnectTimer \in BOOLEAN
    /\ armed \in 0 .. 1
    /\ call \in [Callers -> {"idle", "login"} \cup Sockets]
    /\ state \in [Sockets -> {"closed", "connecting", "open", "closing"}]
    /\ attached \subseteq Sockets
    /\ queue \in [Sockets -> Seq(Packet)]
    /\ sent \in 0 .. MaxUpdates
    /\ taken \in [Sockets -> Seq(Packet)]
    /\ faults \in 0 .. MaxFaults

Init ==
    /\ loggedIn = FALSE
    /\ ws = NoSocket
    /\ reconnectTimer = FALSE
    /\ armed = 0
    /\ call = [c \in Callers |-> "idle"]
    /\ state = [s \in Sockets |-> "closed"]
    /\ attached = {}
    /\ queue = [s \in Sockets |-> <<>>]
    /\ sent = 0
    /\ taken = [s \in Sockets |-> <<>>]
    /\ faults = 0

Fault ==
    /\ faults < MaxFaults
    /\ faults' = faults + 1

-----------------------------------------------------------------------------
(* Connecting.                                                             *)

\* A socket that is new: one with nothing left of an earlier one.
Unused == {s \in Sockets : state[s] = "closed" /\ queue[s] = <<>> /\ \A c \in Callers : call[c] # s}

\* connect, once it is logged in: it is done if there is a socket already.
Proceed(c) ==
    /\ IF ws # NoSocket
       THEN /\ call' = [call EXCEPT ![c] = "idle"]
            /\ UNCHANGED <<state, taken>>
       ELSE \E s \in Unused :
                /\ call' = [call EXCEPT ![c] = s]
                /\ state' = [state EXCEPT ![s] = "connecting"]
                /\ taken' = [taken EXCEPT ![s] = <<>>]
    /\ UNCHANGED <<attached, queue, sent>>

\* connect is called; a login that is not needed does not take any time.
Connect(c) ==
    /\ call[c] = "idle"
    /\ IF loggedIn
       THEN Proceed(c)
       ELSE /\ call' = [call EXCEPT ![c] = "login"]
            /\ UNCHANGED <<state, attached, packetVars>>
    /\ UNCHANGED <<loggedIn, ws, faults>>

\* The bootstrap refresh runs, on its timer or for another attempt.
BootstrapRefreshes ==
    /\ Connect(Refresh)
    /\ UNCHANGED <<reconnectTimer, armed>>

\* A reconnect timer fires.
ReconnectTimerFires(c) ==
    /\ armed > 0
    /\ Connect(c)
    /\ armed' = armed - 1
    /\ reconnectTimer' = FALSE

\* close; a socket that was made available is open, or is closing already.
CloseChannel ==
    /\ ws' = NoSocket
    /\ state' = [s \in Sockets |-> IF s = ws /\ state[s] = "open" THEN "closing" ELSE state[s]]
    /\ reconnectTimer' = FALSE
    /\ armed' = IF reconnectTimer THEN armed - 1 ELSE armed

LoginSucceeds(c) ==
    /\ call[c] = "login"
    /\ loggedIn' = TRUE
    /\ Proceed(c)
    /\ UNCHANGED <<ws, reconnectTimer, armed, faults>>

\* A login that fails logs out, whatever the session has become meanwhile.
LoginFails(c) ==
    /\ call[c] = "login"
    /\ Fault
    /\ loggedIn' = FALSE
    /\ CloseChannel
    /\ call' = [call EXCEPT ![c] = "idle"]
    /\ UNCHANGED <<attached, packetVars>>

\* The socket opens and connect resumes: whatever came along with the handshake
\* was emitted before the message listener was attached.
Opens(c, early) ==
    /\ call[c] \in Sockets
    /\ state[call[c]] = "connecting"
    /\ early \in 0 .. 1
    /\ sent + early <= MaxUpdates
    /\ state' = [state EXCEPT ![call[c]] = "open"]
    /\ ws' = call[c]
    /\ attached' = attached \cup {call[c]}
    /\ call' = [call EXCEPT ![c] = "idle"]
    /\ sent' = sent + early
    /\ UNCHANGED <<loggedIn, reconnectTimer, armed, queue, taken, faults>>

\* The handshake fails, and connect with it.
OpenFails(c) ==
    /\ call[c] \in Sockets
    /\ state[call[c]] = "connecting"
    /\ Fault
    /\ state' = [state EXCEPT ![call[c]] = "closed"]
    /\ call' = [call EXCEPT ![c] = "idle"]
    /\ UNCHANGED <<loggedIn, ws, reconnectTimer, armed, attached, packetVars>>

-----------------------------------------------------------------------------
(* Closing.                                                                *)

\* The controller or the network ends the socket, or a heartbeat goes unanswered.
Breaks(s) ==
    \/ state[s] = "closing" /\ UNCHANGED faults
    \/ state[s] = "open" /\ Fault

\* Deviation: a close event that schedules whether or not one is scheduled.
AlwaysSchedules == loggedIn

\* A single reconnect attempt, if we are still logged in.
Schedules == loggedIn /\ ~reconnectTimer

\* Deviation: a close event that takes the channel down whichever socket it is of.
IsAnySocket(s) == TRUE

\* Deviation: a close event that looks no further once the session has ended.
IsCurrentSession(s) == ws = s /\ loggedIn

\* A socket that was superseded is none of the channel's business.
IsCurrent(s) == ws = s

\* The socket's close event.
SocketCloses(s) ==
    /\ s \in attached
    /\ Breaks(s)
    /\ state' = [state EXCEPT ![s] = "closed"]
    /\ attached' = attached \ {s}
    /\ IF IsCurrent(s)
       THEN /\ ws' = NoSocket
            /\ reconnectTimer' = (reconnectTimer \/ Schedules)
            /\ armed' = IF Schedules THEN armed + 1 ELSE armed
       ELSE UNCHANGED <<ws, reconnectTimer, armed>>
    /\ UNCHANGED <<loggedIn, call, packetVars>>

\* reset, or logout: requests failed too often, or were not authorized.
Reset(loggingOut) ==
    /\ Fault
    /\ CloseChannel
    /\ loggedIn' = (loggedIn /\ ~loggingOut)
    /\ UNCHANGED <<call, attached, packetVars>>

-----------------------------------------------------------------------------
(* Updates.                                                                *)

\* The controller sends an update to every connection; its decoding begins.
UpdateArrives ==
    /\ sent < MaxUpdates
    /\ \E s \in attached : state[s] \in {"open", "closing"}
    /\ sent' = sent + 1
    /\ queue' = [s \in Sockets |->
                    IF s \in attached /\ state[s] \in {"open", "closing"}
                    THEN Append(queue[s], [update |-> sent', decoded |-> "pending"])
                    ELSE queue[s]]
    /\ UNCHANGED <<loggedIn, ws, reconnectTimer, armed, call, state, attached, taken, faults>>

Inflating(s, n) == n \in DOMAIN queue[s] /\ queue[s][n].decoded = "pending"

\* Deviation: a packet is emitted as soon as it is decoded.
DecodedEmitsAtOnce(s, n, result) ==
    /\ Inflating(s, n)
    /\ queue' = [queue EXCEPT ![s] = SelectSeq(@, LAMBDA p : p # queue[s][n])]
    /\ taken' = [taken EXCEPT ![s] = Append(@, [queue[s][n] EXCEPT !.decoded = result])]
    /\ UNCHANGED <<loggedIn, ws, reconnectTimer, armed, call, state, attached, sent, faults>>

\* How many packets of the emit queue are due: nothing undecoded is ahead of them.
Due(packets) ==
    CHOOSE n \in 0 .. Len(packets) :
        /\ \A m \in 1 .. n : packets[m].decoded # "pending"
        /\ n < Len(packets) => packets[n + 1].decoded = "pending"

\* A packet was inflated, or cannot be.  All that are due now are emitted; one that
\* could not be decoded closes the socket instead.
Decoded(s, n, result) ==
    /\ Inflating(s, n)
    /\ LET packets == [queue[s] EXCEPT ![n].decoded = result]
           due == SubSeq(packets, 1, Due(packets))
           isUnknown == \E m \in DOMAIN due : due[m].decoded = "null"
       IN  /\ queue' = [queue EXCEPT ![s] = SubSeq(packets, Due(packets) + 1, Len(packets))]
           /\ taken' = [taken EXCEPT ![s] = @ \o due]
           /\ state' = [state EXCEPT ![s] =
                            IF @ = "open" /\ isUnknown THEN "closing" ELSE @]
    /\ UNCHANGED <<loggedIn, ws, reconnectTimer, armed, call, attached, sent, faults>>

Results == {"packet", "null"}

Next ==
    \/ BootstrapRefreshes
    \/ \E c \in Reconnects : ReconnectTimerFires(c)
    \/ \E c \in Callers : LoginSucceeds(c) \/ LoginFails(c) \/ OpenFails(c)
    \/ \E c \in Callers, early \in 0 .. 1 : Opens(c, early)
    \/ \E s \in Sockets : SocketCloses(s)
    \/ \E loggingOut \in BOOLEAN : Reset(loggingOut)
    \/ UpdateArrives
    \/ \E s \in Sockets, n \in 1 .. MaxUpdates, result \in Results : Decoded(s, n, result)

Spec == Init /\ [][Next]_vars

\* The refresh chain goes on forever, requests and handshakes have timeouts,
\* closing handshakes too, and packets are inflated in time.  Once the faults
\* are over, what is attempted succeeds.
Fairness ==
    /\ WF_vars(BootstrapRefreshes)
    /\ \A c \in Callers : WF_vars(LoginSucceeds(c)) /\ WF_vars(Opens(c, 0))
    /\ \A s \in Sockets : WF_vars(state[s] = "closing" /\ SocketCloses(s))
    /\ \A s \in Sockets, n \in 1 .. MaxUpdates :
           WF_vars(\E result \in Results : Decoded(s, n, result))

FairSpec == Spec /\ Fairness

-----------------------------------------------------------------------------
(* What the channel promises.                                              *)

\* The socket that is available is up or about to report its end: connect never
\* takes a dead one for "already all set", which would end all updates for good.
AvailableIsAlive == ws # NoSocket => ws \in attached /\ state[ws] \in {"open", "closing"}

\* There is a reconnect timer exactly when the field says so: attempts never stack,
\* and a close cancels the only one.
AttemptsNeverStack == armed = IF reconnectTimer THEN 1 ELSE 0

\* The close event of a superseded socket "must not null out a newer live socket":
\* the channel forgets no socket that is still open.
ForgetsNoOpenSocket ==
    [][ws # NoSocket /\ ws' = NoSocket => state'[ws] # "open"]_vars

\* A socket's packets are emitted in the order they arrived in, however long each took
\* to inflate, and one that cannot be decoded does not keep back those behind it: a
\* packet waits only while one before it is still being inflated (enqueuePacket).
EmittedInOrder ==
    /\ \A s \in Sockets : \A m, n \in DOMAIN taken[s] :
           m < n => taken[s][m].update < taken[s][n].update
    /\ \A s \in Sockets : queue[s] # <<>> => Head(queue[s]).decoded = "pending"

\* Updates come in: <>[]IsUp is what a channel promises once controller and network
\* behave.
IsUp == ws # NoSocket /\ state[ws] = "open"

Connections == {s \in attached : state[s] = "open"}

\* connect: "duplicate concurrent event connections and doubled events" never are.
OneConnection == \A s, t \in Connections : s = t

=============================================================================
