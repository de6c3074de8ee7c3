-------------------------- MODULE ProtectLivestream --------------------------
(***************************************************************************)
(* One livestream of a camera (unifi/protect-api-livestream.ts): start     *)
(* asks the controller for an endpoint, opens a websocket on it and reads  *)
(* fMP4 packets from it; a heartbeat gives up on a silent controller, and  *)
(* teardown is the one way a session ends.  start takes time, and its      *)
(* callers (LivestreamManager) may overlap.  A websocket keeps the contract *)
(* of SocketContract.                                                      *)
(***************************************************************************)
EXTENDS Naturals

CONSTANTS
    Calls,          \* calls of start
    Sockets,        \* bound: websockets that exist at the same time
    NoSocket,       \* not one of them
    MaxStarts       \* bound: how often start is called

VARIABLES
    overlapping,    \* whether a start is called while another is pending
    pending,        \* calls of start that wait for their endpoint
    ws,             \* the websocket of the session
    sessionAbort,   \* there is a controller that aborts what the session owns
    waiting,        \* a getInitSegment promise waits for the segment, or an abort
    initSegment,    \* the initialization segment was seen
    state,          \* the state of each websocket
    wired,          \* websockets that still have our open, error and close listeners
    readers,        \* how many message listeners each websocket has
    heartbeat,      \* the field: a heartbeat is running
    heartbeats,     \* how many heartbeat intervals are running
    silent,         \* nothing arrived for longer than the heartbeat timeout
    closes,         \* history: close events
    starts          \* history: calls of start

socketVars == <<state, wired, readers>>
initVars == <<waiting, initSegment>>
beatVars == <<heartbeat, heartbeats, silent>>
vars == <<pending, ws, sessionAbort, initVars, socketVars, beatVars, closes, starts>>

TypeOK ==
    /\ overlapping \in BOOLEAN
    /\ pending \subseteq Calls
    /\ ws \in Sockets \cup {NoSocket}
    /\ sessionAbort \in BOOLEAN
    /\ waiting \in BOOLEAN
    /\ initSegment \in BOOLEAN
    /\ state \in [Sockets -> {"connecting", "open", "closing", "closed"}]
    /\ wired \subseteq Sockets
    /\ readers \in [Sockets -> Nat]
    /\ heartbeat \in BOOLEAN
    /\ heartbeats \in Nat
    /\ silent \in BOOLEAN
    /\ closes \in 0 .. MaxStarts
    /\ starts \in 0 .. MaxStarts

Init ==
    /\ overlapping \in BOOLEAN
    /\ pending = {}
    /\ ws = NoSocket
    /\ sessionAbort = FALSE
    /\ waiting = FALSE
    /\ initSegment = FALSE
    /\ state = [s \in Sockets |-> "closed"]
    /\ wired = {}
    /\ readers = [s \in Sockets |-> 0]
    /\ heartbeat = FALSE
    /\ heartbeats = 0
    /\ silent = FALSE
    /\ closes = 0
    /\ starts = 0

-----------------------------------------------------------------------------
(* Ending a session.                                                       *)

\* close of a websocket, by what state it is in.
Closed(socketState) ==
    CASE socketState = "connecting" -> "closed"
      [] socketState = "open" -> "closing"
      [] OTHER -> socketState

\* Deviation: a teardown that leaves the websocket's listeners on.
KeepsListeners(states) ==
    /\ wired' = {s \in wired : states[s] # "closed"}
    /\ readers' = [s \in Sockets |-> IF states[s] = "closed" THEN 0 ELSE readers[s]]

\* No listener is left on the websocket, so that its own end goes unnoticed.
RemovesListeners(states) ==
    /\ wired' = {s \in wired : states[s] # "closed"} \ {ws}
    /\ readers' = [s \in Sockets |-> IF s = ws \/ states[s] = "closed" THEN 0 ELSE readers[s]]

\* Deviation: a teardown that forgets the heartbeat.
KeepsHeartbeat == UNCHANGED <<heartbeat, heartbeats>>

StopsHeartbeat ==
    /\ heartbeat' = FALSE
    /\ heartbeats' = IF heartbeat THEN heartbeats - 1 ELSE heartbeats

\* Deviation: a teardown that drops the session's controller without an abort.
DropsSignal == UNCHANGED waiting

AbortsSignal == waiting' = FALSE

\* The close event is emitted when there was a session.
Announced == IF ws = NoSocket THEN closes ELSE closes + 1

\* What teardown does, once the websockets are in the given states.
EndsSession(states) ==
    /\ AbortsSignal
    /\ RemovesListeners(states)
    /\ state' = [s \in Sockets |-> IF s = ws THEN Closed(states[s]) ELSE states[s]]
    /\ StopsHeartbeat
    /\ ws' = NoSocket
    /\ closes' = Announced

Teardown(states) == EndsSession(states) /\ sessionAbort' = FALSE

Stop ==
    /\ Teardown(state)
    /\ UNCHANGED <<pending, initSegment, silent, starts>>

-----------------------------------------------------------------------------
(* Starting one.                                                           *)

\* start, up to its request for an endpoint; what was running is stopped.
Start(c) ==
    /\ c \notin pending
    /\ overlapping \/ pending = {}
    /\ starts < MaxStarts
    /\ starts' = starts + 1
    /\ EndsSession(state)
    /\ sessionAbort' = TRUE
    /\ initSegment' = FALSE
    /\ pending' = pending \cup {c}
    /\ UNCHANGED silent

\* There is no endpoint to be had.
EndpointFails(c) ==
    /\ c \in pending
    /\ pending' = pending \ {c}
    /\ UNCHANGED <<ws, sessionAbort, initVars, socketVars, beatVars, closes, starts>>

\* launchLivestream resumes with an endpoint and opens a websocket on it.
Launch(c) ==
    /\ c \in pending
    /\ pending' = pending \ {c}
    /\ \E s \in Sockets \ wired :
           /\ state[s] = "closed"
           /\ state' = [state EXCEPT ![s] = "connecting"]
           /\ wired' = wired \cup {s}
           /\ ws' = s
    /\ UNCHANGED <<sessionAbort, initVars, readers, beatVars, closes, starts>>

\* The websocket cannot even be created; start reports it as not started.
LaunchThrows(c) ==
    /\ c \in pending
    /\ Teardown(state)
    /\ pending' = pending \ {c}
    /\ UNCHANGED <<initSegment, silent, starts>>

\* A websocket opens: the heartbeat starts, and packets are read from the
\* websocket of the session.
Opens(s) ==
    /\ state[s] = "connecting"
    /\ s \in wired
    /\ state' = [state EXCEPT ![s] = "open"]
    /\ silent' = FALSE
    /\ heartbeat' = TRUE
    /\ heartbeats' = heartbeats + 1
    /\ readers' = IF ws = NoSocket THEN readers ELSE [readers EXCEPT ![ws] = @ + 1]
    /\ UNCHANGED <<pending, ws, sessionAbort, initVars, wired, closes, starts>>

-----------------------------------------------------------------------------
(* While it runs.                                                          *)

\* A message is read, by each listener: packets, or a loss of framing.
Reads(s) ==
    /\ state[s] \in {"open", "closing"}
    /\ readers[s] > 0
    /\ silent' = FALSE
    /\ \/ /\ \E seen \in {initSegment, TRUE} :
                 /\ initSegment' = seen
                 /\ waiting' = (waiting /\ seen = initSegment)
          /\ UNCHANGED <<ws, sessionAbort, socketVars, heartbeat, heartbeats, closes>>
       \/ /\ Teardown(state)
          /\ UNCHANGED initSegment
    /\ UNCHANGED <<pending, starts>>

\* getInitSegment, for a segment that was not seen yet; without a session to wait
\* for it is rejected.
AwaitInitSegment ==
    /\ ~initSegment
    /\ sessionAbort
    /\ waiting' = TRUE
    /\ UNCHANGED <<pending, ws, sessionAbort, initSegment, socketVars, beatVars, closes, starts>>

FallsSilent ==
    /\ ~silent
    /\ silent' = TRUE
    /\ UNCHANGED <<pending, ws, sessionAbort, initVars, socketVars, heartbeat, heartbeats, closes,
                   starts>>

\* Deviation: a heartbeat that only speaks of the silence.
GivesUp(s) == FALSE

\* The heartbeat closes what is open, and what does not finish closing.
ClosesSilent(s) == state[s] \in {"open", "closing"}

HeartbeatTicks ==
    /\ heartbeats > 0
    /\ silent
    /\ ws # NoSocket
    /\ ClosesSilent(ws)
    /\ state' = [state EXCEPT ![ws] = Closed(@)]
    /\ UNCHANGED <<pending, ws, sessionAbort, initVars, wired, readers, beatVars, closes, starts>>

\* An error on a websocket that is open: its end follows.
SocketErrors(s) ==
    /\ state[s] \in {"open", "closing"}
    /\ s \in wired
    /\ Teardown([state EXCEPT ![s] = "closing"])
    /\ UNCHANGED <<pending, initSegment, silent, starts>>

\* A websocket ends, or did not even open.  Its listeners are off if it was the
\* session's and was torn down.
SocketCloses(s) ==
    /\ state[s] # "closed"
    /\ IF s \in wired
       THEN Teardown([state EXCEPT ![s] = "closed"])
       ELSE /\ state' = [state EXCEPT ![s] = "closed"]
            /\ readers' = [readers EXCEPT ![s] = 0]
            /\ UNCHANGED <<ws, sessionAbort, waiting, wired, heartbeat, heartbeats, closes>>
    /\ UNCHANGED <<pending, initSegment, silent, starts>>

Next ==
    \/ \E c \in Calls : Start(c) \/ EndpointFails(c) \/ Launch(c) \/ LaunchThrows(c)
    \/ Stop
    \/ \E s \in Sockets : Opens(s) \/ Reads(s) \/ SocketErrors(s) \/ SocketCloses(s)
    \/ AwaitInitSegment
    \/ FallsSilent
    \/ HeartbeatTicks

Spec == Init /\ [][Next /\ UNCHANGED overlapping]_<<overlapping, vars>>

\* The heartbeat ticks, and a websocket opens or fails, and finishes closing, in
\* bounded time.
Fairness ==
    /\ WF_vars(HeartbeatTicks)
    /\ \A s \in Sockets : WF_vars(state[s] \in {"connecting", "closing"} /\ SocketCloses(s))

FairSpec == Spec /\ Fairness

-----------------------------------------------------------------------------
(* What a livestream promises.                                             *)

\* As long as starts do not overlap, there is one session at a time, and each emits
\* close exactly once, whichever of an error, a close, lost framing and a stop come
\* together (teardown).
Session == INSTANCE LivestreamSession
    WITH Sessions <- Sockets,
         active <- IF overlapping THEN {} ELSE wired,
         closes <- IF overlapping THEN 0 ELSE closes

ImplementsSession == Session!Spec

\* Nor does such a session leave anything behind.  The heartbeat is that of a session that is up, and
\* none watches in the place of another; only the session's websocket is read, and once:
\* "post-teardown traffic can't surface as events" (teardown, launch).
SessionLeavesNothing == ~overlapping =>
    /\ heartbeats = IF heartbeat THEN 1 ELSE 0
    /\ heartbeat => ws # NoSocket /\ state[ws] \in {"open", "closing"}
    /\ \A s \in Sockets : readers[s] > 0 => s = ws /\ readers[s] = 1

\* A promise of the initialization segment does not outlive what can settle it:
\* teardown "rejects any pending getInitSegment() promise".
WaiterHasSession == waiting => sessionAbort

\* "This ensures we can never hang waiting on data": a silent session ends.
SilenceEndsSession == ws # NoSocket /\ silent ~> ws = NoSocket \/ ~silent

\* Event close is "emitted exactly once when an active livestream session terminates
\* for any reason".
EveryEndIsAnnounced ==
    [][\A s \in Sockets : s \in wired /\ s \notin wired' => closes' = closes + 1]_vars

=============================================================================
