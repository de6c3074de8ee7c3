----------------------- MODULE ProtectLivestreamProofs -----------------------
(***************************************************************************)
(* Proofs about ProtectLivestream: as long as its starts do not overlap, a *)
(* livestream implements LivestreamSession, and its heartbeat and readers  *)
(* are those of its session; no promise outlives its session either way.   *)
(***************************************************************************)
EXTENDS ProtectLivestream, TLAPS

\* What a livestream whose starts do not overlap implements.
Alone == INSTANCE LivestreamSession WITH Sessions <- Sockets, active <- wired

States == {"connecting", "open", "closing", "closed"}
Up == {"open", "closing"}

Types ==
    /\ ws \in Sockets \cup {NoSocket}
    /\ state \in [Sockets -> States]
    /\ readers \in [Sockets -> Nat]
    /\ wired \subseteq Sockets

\* The listeners that are on are those of the session, and nothing of a session
\* is there while a start is pending.
SessionIsAlone ==
    /\ wired = IF ws = NoSocket THEN {} ELSE {ws}
    /\ ws # NoSocket => state[ws] # "closed"
    /\ pending # {} => ws = NoSocket
    /\ \A c, d \in pending : c = d

\* What opening a websocket adds is there only once it is open.
OpenAddsOnce ==
    /\ \A s \in Sockets : readers[s] > 0 => s = ws /\ state[s] \in Up /\ readers[s] = 1
    /\ heartbeats = IF heartbeat THEN 1 ELSE 0
    /\ heartbeat => ws # NoSocket /\ state[ws] \in Up

SessionInv == Types /\ SessionIsAlone /\ OpenAddsOnce

LEMMA InitSessionInv ==
    ASSUME NoSocket \notin Sockets, Init PROVE SessionInv
BY DEF Init, SessionInv, Types, SessionIsAlone, OpenAddsOnce, States, Up

LEMMA ClosedIsState == \A x \in States : Closed(x) \in States
BY DEF States, Closed

\* A teardown leaves nothing of the session, and announces the end of one.
LEMMA EndsSessionEnds ==
    ASSUME NoSocket \notin Sockets, SessionInv, NEW states \in [Sockets -> States],
           EndsSession(states)
    PROVE  /\ ws' = NoSocket
           /\ wired' = {}
           /\ state' \in [Sockets -> States]
           /\ readers' = [s \in Sockets |-> 0]
           /\ heartbeats' = 0
           /\ ~heartbeat'
           /\ ws # NoSocket => closes' = closes + 1
           /\ ws = NoSocket => closes' = closes
<1> USE DEF SessionInv, Types
<1>1. wired' = {}
  BY DEF EndsSession, RemovesListeners, SessionIsAlone
<1>2. state' \in [Sockets -> States]
  BY ClosedIsState DEF EndsSession
<1>3. readers' = [s \in Sockets |-> 0]
  BY DEF EndsSession, RemovesListeners, OpenAddsOnce
<1>4. heartbeats' = 0
  BY DEF EndsSession, StopsHeartbeat, OpenAddsOnce
<1>5. ~heartbeat'
  BY DEF EndsSession, StopsHeartbeat
<1> QED
  BY <1>1, <1>2, <1>3, <1>4, <1>5 DEF EndsSession, Announced

\* Such a step leads to a state of the invariant, and is the end of a session or
\* nothing a consumer sees.
LEMMA EndsSessionKeeps ==
    ASSUME NoSocket \notin Sockets, SessionInv, NEW states \in [Sockets -> States],
           EndsSession(states),
           \A c, d \in pending' : c = d
    PROVE  SessionInv' /\ [Alone!Next]_Alone!vars
<1>1. /\ wired' = {}
      /\ ws # NoSocket => closes' = closes + 1
      /\ ws = NoSocket => closes' = closes
  BY EndsSessionEnds
<1>2. SessionInv'
  BY EndsSessionEnds DEF SessionInv, Types, SessionIsAlone, OpenAddsOnce
<1>3. CASE ws = NoSocket
  <2>1. wired' = wired /\ closes' = closes
    BY <1>1, <1>3 DEF SessionInv, SessionIsAlone
  <2> QED
    BY <1>2, <2>1 DEF Alone!vars
<1>4. CASE ws # NoSocket
  <2>1. PICK s \in Sockets : s = ws /\ wired = {s}
    BY <1>4 DEF SessionInv, Types, SessionIsAlone
  <2>2. Alone!End(s)
    BY <1>1, <1>4, <2>1 DEF Alone!End
  <2> QED
    BY <1>2, <2>2 DEF Alone!Next
<1> QED
  BY <1>2, <1>3, <1>4

LEMMA NextKeepsSessionInv ==
    ASSUME ~overlapping, ~overlapping', NoSocket \notin Sockets, SessionInv, [Next]_vars
    PROVE  SessionInv' /\ [Alone!Next]_Alone!vars
<1> DEFINE Goal == SessionInv' /\ [Alone!Next]_Alone!vars
<1> USE DEF socketVars, initVars, beatVars
<1>0. state \in [Sockets -> States]
  BY DEF SessionInv, Types
<1>1. ASSUME NEW c \in Calls, Start(c) PROVE Goal
  <2>1. \A d, e \in pending' : d = e
    BY <1>1 DEF Start
  <2> QED
    BY <1>0, <1>1, <2>1, EndsSessionKeeps DEF Start
<1>2. ASSUME NEW c \in Calls, EndpointFails(c) PROVE Goal
  BY <1>2 DEF EndpointFails, SessionInv, Types, SessionIsAlone, OpenAddsOnce, Alone!vars
<1>3. ASSUME NEW c \in Calls, Launch(c) PROVE Goal
  <2>1. PICK s \in Sockets \ wired :
              /\ state[s] = "closed"
              /\ state' = [state EXCEPT ![s] = "connecting"]
              /\ wired' = wired \cup {s}
              /\ ws' = s
    BY <1>3 DEF Launch
  <2>2. ws = NoSocket /\ wired = {} /\ pending' = {}
    BY <1>3 DEF Launch, SessionInv, SessionIsAlone
  <2>3. /\ readers' = readers /\ heartbeats' = heartbeats /\ heartbeat' = heartbeat
        /\ closes' = closes
    BY <1>3 DEF Launch
  <2>4. SessionInv'
    BY <2>1, <2>2, <2>3
       DEF SessionInv, Types, SessionIsAlone, OpenAddsOnce, States
  <2>5. Alone!Begin(s)
    BY <2>1, <2>2, <2>3 DEF Alone!Begin
  <2> QED
    BY <2>1, <2>4, <2>5 DEF Alone!Next
<1>4. CASE Stop
  <2>1. \A d, e \in pending' : d = e
    BY <1>4 DEF Stop, SessionInv, SessionIsAlone
  <2> QED
    BY <1>0, <1>4, <2>1, EndsSessionKeeps DEF Stop, Teardown
<1>5. ASSUME NEW s \in Sockets, Opens(s) PROVE Goal
  <2>1. s = ws /\ ws # NoSocket
    BY <1>5 DEF Opens, SessionInv, SessionIsAlone
  <2>2. readers[s] = 0 /\ heartbeats = 0
    BY <1>5, <2>1 DEF Opens, SessionInv, Types, OpenAddsOnce, Up
  <2>3. SessionInv'
    BY <1>5, <2>1, <2>2 DEF Opens, SessionInv, Types, SessionIsAlone, OpenAddsOnce, States, Up
  <2> QED
    BY <1>5, <2>3 DEF Opens, Alone!vars
<1>6. ASSUME NEW s \in Sockets, Reads(s) PROVE Goal
  <2>1. CASE Teardown(state)
    <3>1. \A d, e \in pending' : d = e
      BY <1>6 DEF Reads, SessionInv, SessionIsAlone
    <3> QED
      BY <1>0, <2>1, <3>1, EndsSessionKeeps DEF Teardown
  <2>2. CASE ~Teardown(state)
    <3>1. /\ UNCHANGED <<pending, ws, state, wired, readers, heartbeat, heartbeats, closes>>
      BY <1>6, <2>2 DEF Reads
    <3> QED
      BY <3>1 DEF SessionInv, Types, SessionIsAlone, OpenAddsOnce, Alone!vars
  <2> QED
    BY <2>1, <2>2
<1>7. ASSUME NEW s \in Sockets, SocketErrors(s) PROVE Goal
  <2>1. \A d, e \in pending' : d = e
    BY <1>7 DEF SocketErrors, SessionInv, SessionIsAlone
  <2>2. [state EXCEPT ![s] = "closing"] \in [Sockets -> States]
    BY <1>0 DEF States
  <2> QED
    BY <1>7, <2>1, <2>2, EndsSessionKeeps DEF SocketErrors, Teardown
<1>8. ASSUME NEW s \in Sockets, SocketCloses(s) PROVE Goal
  <2>1. CASE s \in wired
    <3>1. \A d, e \in pending' : d = e
      BY <1>8 DEF SocketCloses, SessionInv, SessionIsAlone
    <3>2. [state EXCEPT ![s] = "closed"] \in [Sockets -> States]
      BY <1>0 DEF States
    <3> QED
      BY <1>8, <2>1, <3>1, <3>2, EndsSessionKeeps DEF SocketCloses, Teardown
  <2>2. CASE s \notin wired
    BY <1>8, <2>2 DEF SocketCloses, SessionInv, Types, SessionIsAlone, OpenAddsOnce, States,
                      Alone!vars
  <2> QED
    BY <2>1, <2>2
<1>9. CASE AwaitInitSegment \/ FallsSilent
  BY <1>9 DEF AwaitInitSegment, FallsSilent, SessionInv, Types, SessionIsAlone, OpenAddsOnce,
              Alone!vars
<1>10. CASE HeartbeatTicks
  <2>1. ws \in Sockets /\ state[ws] \in Up /\ Closed(state[ws]) = "closing"
    BY <1>10 DEF HeartbeatTicks, ClosesSilent, Up, Closed, SessionInv, Types
  <2>2. state' = [state EXCEPT ![ws] = "closing"]
    BY <1>10, <2>1 DEF HeartbeatTicks
  <2> QED
    BY <1>10, <2>1, <2>2 DEF HeartbeatTicks, SessionInv, Types, SessionIsAlone, OpenAddsOnce,
                             States, Up, Alone!vars
<1>11. CASE UNCHANGED vars
  BY <1>11 DEF vars, SessionInv, Types, SessionIsAlone, OpenAddsOnce, Alone!vars
<1>12. ASSUME NEW c \in Calls, LaunchThrows(c) PROVE Goal
  <2>1. \A d, e \in pending' : d = e
    BY <1>12 DEF LaunchThrows, SessionInv, SessionIsAlone
  <2> QED
    BY <1>0, <1>12, <2>1, EndsSessionKeeps DEF LaunchThrows, Teardown
<1> QED
  BY <1>1, <1>2, <1>3, <1>4, <1>5, <1>6, <1>7, <1>8, <1>9, <1>10, <1>11, <1>12 DEF Next

THEOREM SessionInvariant ==
    ASSUME NoSocket \notin Sockets PROVE Spec => [](~overlapping => SessionInv)
<1>1. /\ ~overlapping => SessionInv
      /\ [Next /\ UNCHANGED overlapping]_<<overlapping, vars>>
      => (~overlapping => SessionInv)'
  BY NextKeepsSessionInv DEF vars
<1> QED
  BY InitSessionInv, <1>1, PTL DEF Spec

\* Without overlapping starts, every session that begins emits one close.
THEOREM LivestreamImplementsSession ==
    ASSUME NoSocket \notin Sockets PROVE Spec => ImplementsSession
<1>1. ASSUME ~overlapping => SessionInv,
             [Next /\ UNCHANGED overlapping]_<<overlapping, vars>>
      PROVE  [Session!Next]_Session!vars
  <2>1. overlapping' = overlapping /\ [Next]_vars
    BY <1>1 DEF vars
  <2>2. CASE overlapping
    BY <2>1, <2>2 DEF Session!vars
  <2>3. CASE ~overlapping
    <3>1. [Alone!Next]_Alone!vars
      BY <1>1, <2>1, <2>3, NextKeepsSessionInv
    <3> QED
      BY <2>1, <2>3, <3>1
         DEF Alone!Next, Alone!vars, Alone!Begin, Alone!End,
             Session!Next, Session!vars, Session!Begin, Session!End
  <2> QED
    BY <2>2, <2>3
<1>2. Init => Session!Init
  BY DEF Init, Session!Init
<1> QED
  BY <1>1, <1>2, SessionInvariant, PTL DEF Spec, ImplementsSession, Session!Spec

\* Without overlapping starts, no heartbeat and no reader outlives its session.
THEOREM NothingIsLeft ==
    ASSUME NoSocket \notin Sockets PROVE Spec => []SessionLeavesNothing
<1>1. (~overlapping => SessionInv) => SessionLeavesNothing
  BY DEF SessionInv, OpenAddsOnce, SessionLeavesNothing, Up
<1> QED
  BY <1>1, SessionInvariant, PTL

\* However starts overlap, no promise outlives what can settle it.
THEOREM WaitersSettle == Spec => []WaiterHasSession
<1> USE DEF WaiterHasSession
<1>1. Init => WaiterHasSession
  BY DEF Init
<1>2. ASSUME WaiterHasSession, [Next]_vars PROVE WaiterHasSession'
  <2> DEFINE Settled == ~waiting' \/ sessionAbort'
             Same == waiting' = waiting /\ sessionAbort' = sessionAbort
  <2> USE DEF initVars
  <2>1. ASSUME NEW c \in Calls, Start(c) PROVE Settled
    BY <2>1 DEF Start
  <2>2. ASSUME NEW c \in Calls, EndpointFails(c) \/ Launch(c) PROVE Same
    BY <2>2 DEF EndpointFails, Launch
  <2>3. ASSUME Stop \/ AwaitInitSegment PROVE Settled \/ Same
    <3>1. CASE Stop
      BY <3>1 DEF Stop, Teardown, EndsSession, AbortsSignal
    <3>2. CASE AwaitInitSegment
      BY <3>2, Zenon DEF AwaitInitSegment
    <3> QED
      BY <2>3, <3>1, <3>2
  <2>4. ASSUME FallsSilent \/ HeartbeatTicks PROVE Same
    BY <2>4 DEF FallsSilent, HeartbeatTicks
  <2>5. ASSUME NEW s \in Sockets, Opens(s) PROVE Same
    BY <2>5 DEF Opens
  <2>6. ASSUME NEW s \in Sockets, Reads(s) \/ SocketErrors(s) \/ SocketCloses(s)
        PROVE  Settled \/ Same
    <3>1. CASE Reads(s)
      BY <3>1 DEF Reads, Teardown, EndsSession, AbortsSignal
    <3>2. CASE SocketErrors(s)
      BY <3>2 DEF SocketErrors, Teardown, EndsSession, AbortsSignal
    <3>3. CASE SocketCloses(s)
      BY <3>3 DEF SocketCloses, Teardown, EndsSession, AbortsSignal
    <3> QED
      BY <2>6, <3>1, <3>2, <3>3
  <2>7. ASSUME UNCHANGED vars PROVE Same
    BY <2>7 DEF vars
  <2>8. ASSUME NEW c \in Calls, LaunchThrows(c) PROVE Settled
    BY <2>8 DEF LaunchThrows, Teardown, EndsSession, AbortsSignal
  <2> QED
    BY <1>2, <2>1, <2>2, <2>3, <2>4, <2>5, <2>6, <2>7, <2>8 DEF Next
<1>3. [Next /\ UNCHANGED overlapping]_<<overlapping, vars>> => [Next]_vars
  BY DEF vars
<1> QED
  BY <1>1, <1>2, <1>3, PTL DEF Spec

=============================================================================
