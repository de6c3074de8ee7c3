---------------------------- MODULE RealtimeProofs ----------------------------
(***************************************************************************)
(* The events channel and a websocket connection, for any number of        *)
(* overlapping calls of connect, sockets, updates, frames and failures:    *)
(* the channel never takes a dead socket for a live one, forgets none that *)
(* is open, stacks no reconnect attempts and lets updates go in order, a   *)
(* connection keeps SocketContract and delivers messages whole, and frames *)
(* are found however their bytes are cut into chunks.                      *)
(***************************************************************************)
EXTENDS MCRealtime, SequenceTheorems, SetInduction

Types ==
    /\ ws \in Sockets \cup {NoSocket}
    /\ armed \in {0, 1}
    /\ call \in [Callers -> {"idle", "login"} \cup Sockets]
    /\ state \in [Sockets -> {"closed", "connecting", "open", "closing"}]
    /\ attached \subseteq Sockets

\* A socket keeps its listeners from its open event to its close event.
AttachedIsAlive == \A s \in attached : state[s] \in {"open", "closing"}

ChannelInv == Types /\ AttachedIsAlive /\ AvailableIsAlive /\ AttemptsNeverStack

LEMMA InitChannelInv == Init => ChannelInv
BY ConstantsAssumption
   DEF Init, ChannelInv, Types, AttachedIsAlive, AvailableIsAlive, AttemptsNeverStack

\* connect, up to its wait for the socket to open, changes no socket in use.
LEMMA ProceedStarts ==
    ASSUME Types, NEW c \in Callers, Proceed(c)
    PROVE  /\ call' \in [Callers -> {"idle", "login"} \cup Sockets]
           /\ state' \in [Sockets -> {"closed", "connecting", "open", "closing"}]
           /\ \A s \in Sockets : state'[s] = state[s] \/ state[s] = "closed"
           /\ attached' = attached
<1>1. CASE ws # NoSocket
  BY <1>1 DEF Proceed, Types
<1>2. CASE ws = NoSocket
  <2>1. PICK s \in Unused : /\ call' = [call EXCEPT ![c] = s]
                            /\ state' = [state EXCEPT ![s] = "connecting"]
    BY <1>2 DEF Proceed
  <2>2. s \in Sockets /\ state[s] = "closed"
    BY DEF Unused
  <2> QED
    BY <2>1, <2>2 DEF Proceed, Types
<1> QED
  BY <1>1, <1>2

\* close leaves no reconnect timer behind, and no socket available.
LEMMA CloseChannelCloses ==
    ASSUME ChannelInv, CloseChannel
    PROVE  /\ ws' = NoSocket /\ armed' = 0 /\ ~reconnectTimer'
           /\ state' \in [Sockets -> {"closed", "connecting", "open", "closing"}]
           /\ \A s \in Sockets : state'[s] = state[s]
                                 \/ (state[s] = "open" /\ state'[s] = "closing")
           /\ ws # NoSocket => state'[ws] # "open"
BY ConstantsAssumption DEF ChannelInv, Types, CloseChannel, AttemptsNeverStack

LEMMA NextKeepsChannelInv ==
    ASSUME ChannelInv, [Next]_vars PROVE ChannelInv'
<1> USE ConstantsAssumption DEF ChannelInv, Types, AttachedIsAlive, AvailableIsAlive
<1>1. ASSUME NEW c \in Callers, Connect(c), armed' \in {0, 1}
      PROVE  (Types /\ AttachedIsAlive /\ AvailableIsAlive)'
  <2>1. CASE loggedIn
    BY <1>1, <2>1, ProceedStarts DEF Connect
  <2>2. CASE ~loggedIn
    BY <1>1, <2>2 DEF Connect, packetVars
  <2> QED
    BY <2>1, <2>2
<1>2. CASE BootstrapRefreshes
  BY <1>1, <1>2 DEF BootstrapRefreshes, AttemptsNeverStack, Callers
<1>3. ASSUME NEW c \in Reconnects, ReconnectTimerFires(c) PROVE ChannelInv'
  BY <1>1, <1>3 DEF ReconnectTimerFires, AttemptsNeverStack, Callers
<1>4. ASSUME NEW c \in Callers, LoginSucceeds(c) PROVE ChannelInv'
  BY <1>4, ProceedStarts DEF LoginSucceeds, AttemptsNeverStack
<1>5. ASSUME NEW c \in Callers, LoginFails(c) PROVE ChannelInv'
  BY <1>5, CloseChannelCloses DEF LoginFails, AttemptsNeverStack, packetVars
<1>6. ASSUME NEW c \in Callers, OpenFails(c) PROVE ChannelInv'
  BY <1>6 DEF OpenFails, AttemptsNeverStack
<1>7. ASSUME NEW c \in Callers, NEW early \in 0 .. 1, Opens(c, early) PROVE ChannelInv'
  BY <1>7 DEF Opens, AttemptsNeverStack
<1>8. ASSUME NEW s \in Sockets, SocketCloses(s) PROVE ChannelInv'
  <2>1. /\ state' = [state EXCEPT ![s] = "closed"] /\ attached' = attached \ {s}
        /\ call' = call
    BY <1>8 DEF SocketCloses
  <2>2. CASE ws = s
    <3>1. ws' = NoSocket
      BY <1>8, <2>2 DEF SocketCloses, IsCurrent
    <3>2. armed' \in {0, 1} /\ AttemptsNeverStack'
      <4>1. CASE Schedules
        <5>1. armed = 0
          BY <4>1 DEF Schedules, AttemptsNeverStack
        <5>2. armed' = 1
          BY <1>8, <2>2, <4>1, <5>1 DEF SocketCloses, IsCurrent
        <5>3. reconnectTimer'
          BY <1>8, <2>2, <4>1, Zenon DEF SocketCloses, IsCurrent
        <5> QED
          BY <5>2, <5>3 DEF AttemptsNeverStack
      <4>2. CASE ~Schedules
        BY <1>8, <2>2, <4>2 DEF SocketCloses, IsCurrent, AttemptsNeverStack
      <4> QED
        BY <4>1, <4>2
    <3> QED
      BY <2>1, <3>1, <3>2
  <2>3. CASE ws # s
    BY <1>8, <2>1, <2>3 DEF SocketCloses, IsCurrent, AttemptsNeverStack
  <2> QED
    BY <2>2, <2>3
<1>9. ASSUME NEW loggingOut \in BOOLEAN, Reset(loggingOut) PROVE ChannelInv'
  BY <1>9, CloseChannelCloses DEF Reset, AttemptsNeverStack, packetVars
<1>10. CASE UpdateArrives
  BY <1>10 DEF UpdateArrives, AttemptsNeverStack
<1>11. ASSUME NEW s \in Sockets, NEW n \in 1 .. MaxUpdates, NEW result \in Results,
              Decoded(s, n, result)
       PROVE  ChannelInv'
  <2>1. state' = state \/ (state[s] = "open" /\ state' = [state EXCEPT ![s] = "closing"])
    BY <1>11 DEF Decoded
  <2> QED
    BY <1>11, <2>1 DEF Decoded, AttemptsNeverStack
<1>12. CASE UNCHANGED vars
  BY <1>12 DEF vars, AttemptsNeverStack
<1> QED
  BY <1>2, <1>3, <1>4, <1>5, <1>6, <1>7, <1>8, <1>9, <1>10, <1>11, <1>12 DEF Next

THEOREM ChannelInvariant == Spec => []ChannelInv
<1>1. ChannelInv /\ [Next]_vars => ChannelInv'
  BY NextKeepsChannelInv
<1> QED
  BY InitChannelInv, <1>1, PTL DEF Spec

\* The socket that is available is up or about to report its end.
THEOREM AvailableStaysAlive == Spec => []AvailableIsAlive
<1>1. ChannelInv => AvailableIsAlive
  BY DEF ChannelInv
<1> QED
  BY <1>1, ChannelInvariant, PTL

\* There is a reconnect timer exactly when the field says so.
THEOREM OneAttempt == Spec => []AttemptsNeverStack
<1>1. ChannelInv => AttemptsNeverStack
  BY DEF ChannelInv
<1> QED
  BY <1>1, ChannelInvariant, PTL

LEMMA StepForgetsNoOpenSocket ==
    ASSUME ChannelInv, [Next]_vars, ws # NoSocket, ws' = NoSocket
    PROVE  state'[ws] # "open"
<1> USE ConstantsAssumption DEF ChannelInv, Types
<1>1. CASE BootstrapRefreshes
  BY <1>1 DEF BootstrapRefreshes, Connect
<1>2. ASSUME NEW c \in Reconnects, ReconnectTimerFires(c) PROVE state'[ws] # "open"
  BY <1>2 DEF ReconnectTimerFires, Connect
<1>3. ASSUME NEW c \in Callers, LoginSucceeds(c) \/ OpenFails(c) PROVE state'[ws] # "open"
  BY <1>3 DEF LoginSucceeds, OpenFails
<1>4. ASSUME NEW c \in Callers, LoginFails(c) PROVE state'[ws] # "open"
  BY <1>4, CloseChannelCloses DEF LoginFails
<1>5. ASSUME NEW c \in Callers, NEW early \in 0 .. 1, Opens(c, early) PROVE state'[ws] # "open"
  BY <1>5 DEF Opens
<1>6. ASSUME NEW s \in Sockets, SocketCloses(s) PROVE state'[ws] # "open"
  BY <1>6 DEF SocketCloses, IsCurrent
<1>7. ASSUME NEW loggingOut \in BOOLEAN, Reset(loggingOut) PROVE state'[ws] # "open"
  BY <1>7, CloseChannelCloses DEF Reset
<1>8. CASE UpdateArrives
  BY <1>8 DEF UpdateArrives
<1>9. ASSUME NEW s \in Sockets, NEW n \in 1 .. MaxUpdates, NEW result \in Results,
             Decoded(s, n, result)
      PROVE  state'[ws] # "open"
  BY <1>9 DEF Decoded
<1>10. CASE UNCHANGED vars
  BY <1>10 DEF vars
<1> QED
  BY <1>1, <1>2, <1>3, <1>4, <1>5, <1>6, <1>7, <1>8, <1>9, <1>10 DEF Next

\* The channel forgets no socket that is still open.
THEOREM ForgetsOnlyClosed == Spec => ForgetsNoOpenSocket
<1>1. ChannelInv /\ [Next]_vars => [ws # NoSocket /\ ws' = NoSocket => state'[ws] # "open"]_vars
  BY StepForgetsNoOpenSocket
<1> QED
  BY <1>1, ChannelInvariant, PTL DEF Spec, ForgetsNoOpenSocket

-----------------------------------------------------------------------------
-----------------------------------------------------------------------------
(* The order of updates.                                                   *)

Ascends(packets) ==
    \A m, n \in DOMAIN packets : m < n => packets[m].update < packets[n].update

\* One after the other: the packets that were taken, then those that wait.
Precedes(packets, others) ==
    \A m \in DOMAIN packets, n \in DOMAIN others : packets[m].update < others[n].update

Known(packets, bound) == \A n \in DOMAIN packets : packets[n].update <= bound

Waits(packets) == packets # <<>> => packets[1].decoded = "pending"

OrderInv ==
    /\ sent \in 0 .. MaxUpdates
    /\ queue \in [Sockets -> Seq(Packet)]
    /\ taken \in [Sockets -> Seq(Packet)]
    /\ \A s \in Sockets :
        /\ Ascends(taken[s]) /\ Ascends(queue[s]) /\ Precedes(taken[s], queue[s])
        /\ Known(taken[s], sent) /\ Known(queue[s], sent)
        /\ Waits(queue[s])

LEMMA PacketsAreNumbered ==
    ASSUME NEW packets \in Seq(Packet)
    PROVE  \A n \in DOMAIN packets : packets[n] \in Packet /\ packets[n].update \in Nat
<1>1. \A p \in Packet : p.update \in Nat
  BY ConstantsAssumption DEF Packet
<1>2. \A n \in DOMAIN packets : packets[n] \in Packet
  OBVIOUS
<1> QED
  BY <1>1, <1>2

\* What is due ends where something still is being inflated, if it does.
LEMMA DueIsDecoded ==
    ASSUME NEW packets \in Seq(Packet)
    PROVE  /\ Due(packets) \in 0 .. Len(packets)
           /\ \A m \in 1 .. Due(packets) : packets[m].decoded # "pending"
           /\ Due(packets) < Len(packets) => packets[Due(packets) + 1].decoded = "pending"
<1> DEFINE IsDue(n) ==
               /\ \A m \in 1 .. n : packets[m].decoded # "pending"
               /\ n < Len(packets) => packets[n + 1].decoded = "pending"
           pending == {m \in 1 .. Len(packets) : packets[m].decoded = "pending"}
<1>1. \E n \in 0 .. Len(packets) : IsDue(n)
  <2>1. CASE pending = {}
    <3>1. IsDue(Len(packets))
      BY <2>1
    <3> QED
      BY <3>1
  <2>2. CASE pending # {}
    <3>1. PICK n \in pending : \A m \in pending : n <= m
      <4>1. pending \subseteq Nat
        OBVIOUS
      <4> HIDE DEF pending
      <4> QED
        BY <2>2, <4>1, LeastNatural
    <3>2. n - 1 \in 0 .. Len(packets) /\ IsDue(n - 1)
      BY <3>1
    <3> QED
      BY <3>2
  <2> QED
    BY <2>1, <2>2
<1>2. Due(packets) = CHOOSE n \in 0 .. Len(packets) : IsDue(n)
  BY DEF Due
<1>3. Due(packets) \in 0 .. Len(packets) /\ IsDue(Due(packets))
  <2> HIDE DEF IsDue
  <2> QED
    BY <1>1, <1>2
<1> QED
  BY <1>3

LEMMA KnownLater ==
    ASSUME NEW packets \in Seq(Packet), NEW bound \in Nat, NEW later \in Nat, bound <= later,
           Known(packets, bound)
    PROVE  Known(packets, later)
BY PacketsAreNumbered DEF Known

\* Decoding one packet takes a part off the queue's front and nothing else.
LEMMA TakenInOrder ==
    ASSUME NEW before \in Seq(Packet), NEW packets \in Seq(Packet), NEW bound \in Nat,
           Ascends(before), Ascends(packets), Precedes(before, packets),
           Known(before, bound), Known(packets, bound),
           NEW k \in 0 .. Len(packets),
           k < Len(packets) => packets[k + 1].decoded = "pending"
    PROVE  LET due == SubSeq(packets, 1, k)
               rest == SubSeq(packets, k + 1, Len(packets))
           IN  /\ before \o due \in Seq(Packet) /\ rest \in Seq(Packet)
               /\ Ascends(before \o due) /\ Ascends(rest) /\ Precedes(before \o due, rest)
               /\ Known(before \o due, bound) /\ Known(rest, bound)
               /\ Waits(rest)
<1> DEFINE due == SubSeq(packets, 1, k)
           rest == SubSeq(packets, k + 1, Len(packets))
<1>1. /\ due \in Seq(Packet) /\ Len(due) = k
      /\ \A n \in 1 .. k : due[n] = packets[n]
  OBVIOUS
<1>2. /\ rest \in Seq(Packet) /\ Len(rest) = Len(packets) - k
      /\ \A n \in 1 .. Len(packets) - k : rest[n] = packets[k + n]
  OBVIOUS
<1>3. /\ before \o due \in Seq(Packet) /\ Len(before \o due) = Len(before) + k
      /\ \A n \in 1 .. Len(before) + k :
             (before \o due)[n] = IF n <= Len(before) THEN before[n] ELSE packets[n - Len(before)]
  <2> HIDE DEF due
  <2> QED
    BY <1>1
<1> DEFINE all == before \o due
<1> HIDE DEF due, rest, all
<1>4. /\ DOMAIN all = 1 .. Len(before) + k /\ DOMAIN rest = 1 .. Len(packets) - k
      /\ \A n \in DOMAIN all :
             \/ n \in DOMAIN before /\ all[n] = before[n]
             \/ n - Len(before) \in 1 .. k /\ all[n] = packets[n - Len(before)]
  <2>1. /\ DOMAIN all = 1 .. Len(before) + k /\ DOMAIN rest = 1 .. Len(packets) - k
        /\ DOMAIN before = 1 .. Len(before) /\ Len(before) \in Nat /\ k \in Nat
    BY <1>2, <1>3 DEF all
  <2>2. ASSUME NEW n \in 1 .. Len(before) + k
        PROVE  \/ n \in DOMAIN before /\ all[n] = before[n]
               \/ n - Len(before) \in 1 .. k /\ all[n] = packets[n - Len(before)]
    <3>1. all[n] = IF n <= Len(before) THEN before[n] ELSE packets[n - Len(before)]
      BY <1>3 DEF all
    <3>2. CASE n <= Len(before)
      BY <2>1, <3>1, <3>2
    <3>3. CASE ~(n <= Len(before))
      BY <2>1, <3>1, <3>3
    <3> QED
      BY <3>2, <3>3
  <2> QED
    BY <2>1, <2>2
<1>5. Ascends(all)
  <2> SUFFICES ASSUME NEW m \in DOMAIN all, NEW n \in DOMAIN all, m < n
               PROVE  all[m].update < all[n].update
    BY DEF Ascends
  <2>1. CASE n \in DOMAIN before /\ all[n] = before[n]
    <3>1. m \in DOMAIN before /\ all[m] = before[m]
      BY <1>3, <1>4, <2>1 DEF all
    <3> QED
      BY <2>1, <3>1 DEF Ascends
  <2>2. CASE n - Len(before) \in 1 .. k /\ all[n] = packets[n - Len(before)]
    <3>1. n - Len(before) \in DOMAIN packets
      BY <2>2
    <3>2. CASE m \in DOMAIN before /\ all[m] = before[m]
      BY <2>2, <3>1, <3>2 DEF Precedes
    <3>3. CASE m - Len(before) \in 1 .. k /\ all[m] = packets[m - Len(before)]
      <4>1. m - Len(before) \in DOMAIN packets /\ m - Len(before) < n - Len(before)
        BY <1>4, <3>3
      <4> QED
        BY <2>2, <3>1, <3>3, <4>1 DEF Ascends
    <3> QED
      BY <1>4, <3>2, <3>3
  <2> QED
    BY <1>4, <2>1, <2>2
<1>6. Ascends(rest)
  <2> SUFFICES ASSUME NEW m \in DOMAIN rest, NEW n \in DOMAIN rest, m < n
               PROVE  rest[m].update < rest[n].update
    BY DEF Ascends
  <2>1. k + m \in DOMAIN packets /\ k + n \in DOMAIN packets /\ k + m < k + n
    BY <1>4
  <2> QED
    BY <1>2, <1>4, <2>1 DEF Ascends
<1>7. Precedes(all, rest)
  <2> SUFFICES ASSUME NEW m \in DOMAIN all, NEW n \in DOMAIN rest
               PROVE  all[m].update < rest[n].update
    BY DEF Precedes
  <2>1. k + n \in DOMAIN packets /\ rest[n] = packets[k + n]
    BY <1>2, <1>4
  <2>2. CASE m \in DOMAIN before /\ all[m] = before[m]
    BY <2>1, <2>2 DEF Precedes
  <2>3. CASE m - Len(before) \in 1 .. k /\ all[m] = packets[m - Len(before)]
    <3>1. m - Len(before) \in DOMAIN packets /\ m - Len(before) < k + n
      BY <1>4, <2>3
    <3> QED
      BY <2>1, <2>3, <3>1 DEF Ascends
  <2> QED
    BY <1>4, <2>2, <2>3
<1>8. Known(all, bound) /\ Known(rest, bound)
  <2>1. \A n \in DOMAIN all : all[n].update <= bound
    BY <1>4 DEF Known
  <2>2. \A n \in DOMAIN rest : k + n \in DOMAIN packets /\ rest[n] = packets[k + n]
    BY <1>2, <1>4
  <2> QED
    BY <2>1, <2>2 DEF Known
<1>9. Waits(rest)
  BY <1>2 DEF Waits
<1> QED
  BY <1>2, <1>3, <1>5, <1>6, <1>7, <1>8, <1>9 DEF all, due, rest

LEMMA DecodedKeepsOrder ==
    ASSUME OrderInv, NEW s \in Sockets, NEW n, NEW result \in Results, Decoded(s, n, result)
    PROVE  OrderInv'
<1> DEFINE packets == [queue[s] EXCEPT ![n].decoded = result]
           k == Due(packets)
<1>1. /\ n \in DOMAIN queue[s]
      /\ queue' = [queue EXCEPT ![s] = SubSeq(packets, k + 1, Len(packets))]
      /\ taken' = [taken EXCEPT ![s] = @ \o SubSeq(packets, 1, k)]
      /\ sent' = sent
  BY DEF Decoded, Inflating
<1>2. /\ packets \in Seq(Packet) /\ DOMAIN packets = DOMAIN queue[s]
      /\ \A m \in DOMAIN packets : packets[m].update = queue[s][m].update
  <2>1. queue[s] \in Seq(Packet)
    BY DEF OrderInv
  <2>2. queue[s][n] \in Packet /\ [queue[s][n] EXCEPT !.decoded = result] \in Packet
    <3>1. queue[s][n] \in Packet
      BY <1>1, <2>1
    <3> QED
      BY <3>1 DEF Packet, Results
  <2>3. packets = [queue[s] EXCEPT ![n] = [queue[s][n] EXCEPT !.decoded = result]]
    OBVIOUS
  <2> QED
    BY <1>1, <2>1, <2>2, <2>3
<1>3. /\ k \in 0 .. Len(packets)
      /\ k < Len(packets) => packets[k + 1].decoded = "pending"
  BY <1>2, DueIsDecoded
<1>4. /\ taken[s] \in Seq(Packet) /\ sent \in Nat
      /\ Ascends(taken[s]) /\ Ascends(packets) /\ Precedes(taken[s], packets)
      /\ Known(taken[s], sent) /\ Known(packets, sent)
  BY <1>2 DEF OrderInv, Ascends, Precedes, Known
<1> HIDE DEF packets, k
<1>5. /\ taken'[s] \in Seq(Packet) /\ queue'[s] \in Seq(Packet)
      /\ Ascends(taken'[s]) /\ Ascends(queue'[s]) /\ Precedes(taken'[s], queue'[s])
      /\ Known(taken'[s], sent) /\ Known(queue'[s], sent)
      /\ Waits(queue'[s])
  <2>1. /\ taken'[s] = taken[s] \o SubSeq(packets, 1, k)
        /\ queue'[s] = SubSeq(packets, k + 1, Len(packets))
    BY <1>1 DEF OrderInv
  <2> QED
    BY <1>2, <1>3, <1>4, <2>1, TakenInOrder
<1>6. \A t \in Sockets \ {s} : taken'[t] = taken[t] /\ queue'[t] = queue[t]
  BY <1>1 DEF OrderInv
<1>7. /\ queue' \in [Sockets -> Seq(Packet)] /\ taken' \in [Sockets -> Seq(Packet)]
  BY <1>1, <1>5 DEF OrderInv
<1> QED
  BY <1>1, <1>5, <1>6, <1>7 DEF OrderInv

LEMMA ArrivesInOrder ==
    ASSUME OrderInv, UpdateArrives
    PROVE  OrderInv'
<1> DEFINE packet == [update |-> sent + 1, decoded |-> "pending"]
<1>1. sent' = sent + 1 /\ sent' \in 0 .. MaxUpdates /\ packet \in Packet
  BY ConstantsAssumption DEF OrderInv, UpdateArrives, Packet
<1>2. ASSUME NEW s \in Sockets
      PROVE  queue'[s] = queue[s] \/ queue'[s] = Append(queue[s], packet)
  BY <1>1 DEF UpdateArrives
<1>3. taken' = taken
  BY DEF UpdateArrives
<1>4. ASSUME NEW s \in Sockets
      PROVE  /\ queue'[s] \in Seq(Packet)
             /\ Ascends(queue'[s]) /\ Precedes(taken[s], queue'[s])
             /\ Known(taken[s], sent') /\ Known(queue'[s], sent')
             /\ Waits(queue'[s])
  <2>1. /\ queue[s] \in Seq(Packet) /\ taken[s] \in Seq(Packet)
        /\ Ascends(queue[s]) /\ Precedes(taken[s], queue[s])
        /\ Known(taken[s], sent) /\ Known(queue[s], sent)
        /\ Waits(queue[s]) /\ sent \in Nat
    BY DEF OrderInv
  <2>2. CASE queue'[s] = queue[s]
    BY <1>1, <2>1, <2>2, KnownLater
  <2>3. CASE queue'[s] = Append(queue[s], packet)
    <3>1. /\ queue'[s] \in Seq(Packet) /\ Len(queue'[s]) = Len(queue[s]) + 1
          /\ \A n \in 1 .. Len(queue[s]) : queue'[s][n] = queue[s][n]
          /\ queue'[s][Len(queue[s]) + 1] = packet
      BY <1>1, <2>1, <2>3
    <3>2. packet.update = sent + 1 /\ packet.decoded = "pending"
      OBVIOUS
    <3> HIDE DEF packet
    <3>3. Known(taken[s], sent') /\ Known(queue'[s], sent')
      <4>1. Known(taken[s], sent') /\ Known(queue[s], sent')
        BY <1>1, <2>1, KnownLater
      <4> QED
        <5>1. \A n \in 1 .. Len(queue[s]) : queue'[s][n].update <= sent'
          BY <2>1, <3>1, <4>1 DEF Known
        <5>2. queue'[s][Len(queue[s]) + 1].update <= sent'
          BY <1>1, <2>1, <3>1, <3>2
        <5>3. \A n \in DOMAIN queue'[s] : n \in 1 .. Len(queue[s]) \/ n = Len(queue[s]) + 1
          BY <2>1, <3>1
        <5> QED
          BY <4>1, <5>1, <5>2, <5>3 DEF Known
    <3>4. Ascends(queue'[s])
      <4> SUFFICES ASSUME NEW m \in DOMAIN queue'[s], NEW n \in DOMAIN queue'[s], m < n
                   PROVE  queue'[s][m].update < queue'[s][n].update
        BY DEF Ascends
      <4>1. m \in DOMAIN queue[s] /\ queue[s][m].update \in Nat
        BY <2>1, <3>1, PacketsAreNumbered
      <4>2. CASE n \in DOMAIN queue[s]
        <5>1. queue'[s][m] = queue[s][m] /\ queue'[s][n] = queue[s][n]
          BY <2>1, <3>1, <4>1, <4>2
        <5> QED
          BY <2>1, <4>1, <4>2, <5>1 DEF Ascends
      <4>3. CASE n = Len(queue[s]) + 1
        <5>1. m \in DOMAIN queue[s]
          BY <4>1
        <5>2. queue'[s][m] = queue[s][m] /\ queue[s][m].update <= sent
          BY <2>1, <3>1, <5>1 DEF Known
        <5> QED
          BY <2>1, <3>1, <3>2, <4>1, <4>3, <5>2
      <4> QED
        BY <2>1, <3>1, <4>2, <4>3
    <3>5. Precedes(taken[s], queue'[s])
      <4> SUFFICES ASSUME NEW m \in DOMAIN taken[s], NEW n \in DOMAIN queue'[s]
                   PROVE  taken[s][m].update < queue'[s][n].update
        BY DEF Precedes
      <4>1. taken[s][m].update \in Nat
        BY <2>1, PacketsAreNumbered
      <4>2. CASE n \in DOMAIN queue[s]
        <5>1. queue'[s][n] = queue[s][n]
          BY <2>1, <3>1, <4>2
        <5> QED
          BY <2>1, <4>2, <5>1 DEF Precedes
      <4>3. CASE n = Len(queue[s]) + 1
        BY <2>1, <3>1, <3>2, <4>1, <4>3 DEF Known
      <4> QED
        BY <2>1, <3>1, <4>2, <4>3
    <3>6. Waits(queue'[s])
      BY <2>1, <3>1, <3>2 DEF Waits
    <3> QED
      BY <3>1, <3>3, <3>4, <3>5, <3>6
  <2> QED
    BY <1>2, <2>2, <2>3
<1>5. queue' \in [Sockets -> Seq(Packet)]
  BY <1>4 DEF UpdateArrives
<1> QED
  BY <1>1, <1>3, <1>4, <1>5 DEF OrderInv

\* A socket that is new was sent nothing yet, and the rest changes no queue.
LEMMA OthersKeepOrder ==
    ASSUME OrderInv, queue' = queue,
           sent' \in 0 .. MaxUpdates, sent <= sent',
           \/ taken' = taken
           \/ \E s \in Unused : taken' = [taken EXCEPT ![s] = <<>>]
    PROVE  OrderInv'
<1>1. taken' \in [Sockets -> Seq(Packet)]
  <2>1. <<>> \in Seq(Packet)
    OBVIOUS
  <2> QED
    BY <2>1 DEF OrderInv
<1>5. sent \in Nat /\ sent' \in Nat
  BY DEF OrderInv
<1>2. ASSUME NEW s \in Sockets
      PROVE  taken'[s] = taken[s] \/ taken'[s] = <<>>
  BY DEF OrderInv
<1>3. ASSUME NEW s \in Sockets
      PROVE  /\ Ascends(taken'[s]) /\ Precedes(taken'[s], queue[s])
             /\ Known(taken'[s], sent')
  <2>1. CASE taken'[s] = taken[s]
    BY <1>5, <2>1, KnownLater DEF OrderInv
  <2>2. CASE taken'[s] = <<>>
    BY <2>2 DEF Ascends, Precedes, Known
  <2> QED
    BY <1>2, <2>1, <2>2
<1>4. \A s \in Sockets : Known(queue[s], sent')
  BY <1>5, KnownLater DEF OrderInv
<1> QED
  BY <1>1, <1>3, <1>4 DEF OrderInv

LEMMA NextKeepsOrder ==
    ASSUME OrderInv, [Next]_vars
    PROVE  OrderInv'
<1>1. sent \in 0 .. MaxUpdates
  BY DEF OrderInv
<1>2. ASSUME NEW c \in Callers, Proceed(c)
      PROVE  OrderInv'
  BY <1>1, <1>2, OthersKeepOrder DEF Proceed
<1>3. ASSUME NEW c \in Callers, Connect(c)
      PROVE  OrderInv'
  BY <1>1, <1>2, <1>3, OthersKeepOrder DEF Connect, packetVars
<1>4. CASE BootstrapRefreshes \/ \E c \in Reconnects : ReconnectTimerFires(c)
  BY <1>3, <1>4 DEF BootstrapRefreshes, ReconnectTimerFires, Callers
<1>5. CASE \E c \in Callers : LoginSucceeds(c) \/ LoginFails(c) \/ OpenFails(c)
  BY <1>1, <1>2, <1>5, OthersKeepOrder DEF LoginSucceeds, LoginFails, OpenFails, packetVars
<1>6. CASE \E c \in Callers, early \in 0 .. 1 : Opens(c, early)
  BY <1>1, <1>6, ConstantsAssumption, OthersKeepOrder DEF Opens
<1>7. CASE \/ \E s \in Sockets : SocketCloses(s)
           \/ \E loggingOut \in BOOLEAN : Reset(loggingOut)
           \/ UNCHANGED vars
  BY <1>1, <1>7, OthersKeepOrder DEF SocketCloses, Reset, packetVars, vars
<1>8. CASE UpdateArrives
  BY <1>8, ArrivesInOrder
<1>9. CASE \E s \in Sockets, n \in 1 .. MaxUpdates, result \in Results : Decoded(s, n, result)
  BY <1>9, DecodedKeepsOrder
<1> QED
  BY <1>4, <1>5, <1>6, <1>7, <1>8, <1>9 DEF Next

\* Packets are let go in the order they arrived in, for any number of them, however long
\* each takes to inflate and whichever cannot be decoded (enqueuePacket).
THEOREM UpdatesStayInOrder == Spec => []EmittedInOrder
<1>1. Init => OrderInv
  BY ConstantsAssumption DEF Init, OrderInv, Ascends, Precedes, Known, Waits
<1>2. OrderInv /\ [Next]_vars => OrderInv'
  BY NextKeepsOrder
<1>3. OrderInv => EmittedInOrder
  BY DEF OrderInv, EmittedInOrder, Ascends, Waits
<1> QED
  BY <1>1, <1>2, <1>3, PTL DEF Spec

-----------------------------------------------------------------------------
-----------------------------------------------------------------------------
(* A connection.                                                           *)

\* Where a connection can be: connecting, with a socket, or ended, once.
LifeInv ==
    /\ closes \in {0, 1}
    /\ delivered \in Seq(Seq(Nat))
    /\ socket \in {"none", "up", "destroyed", "gone"}
    /\ socket = "none" => delivered = <<>> /\ chunk = <<>>
    /\ closes = 1 <=> socket = "gone" \/ (socket = "none" /\ readyState # "CONNECTING")
    /\ closes = 1 => readyState = "CLOSED" /\ chunk = <<>>
    /\ readyState = "CONNECTING" => socket = "none"
    /\ request = "done" => readyState # "CONNECTING"
    /\ closeTimer => socket \in {"up", "destroyed"}
    /\ heartbeatTimer => socket \in {"up", "destroyed"}
    /\ fragments \in Seq(Nat)
    /\ received \in Seq(Client!FrameKinds)
    /\ chunk \in Seq(Client!FrameKinds)

LEMMA InitLifeInv == Client!Init => LifeInv
BY DEF Client!Init, LifeInv

\* A data event hands the loop frames of the known kinds.
LEMMA ChunksAreFrames == \A c \in Client!Chunks : c \in Seq(Client!FrameKinds)
<1>1. ASSUME NEW c \in Client!Chunks PROVE c \in Seq(Client!FrameKinds)
  <2>1. PICK n \in 1 .. 2 : c \in [1 .. n -> Client!FrameKinds]
    BY DEF Client!Chunks
  <2> QED
    BY <2>1, SeqDef
<1> QED
  BY <1>1

LEMMA NextKeepsLifeInv ==
    ASSUME LifeInv, [Client!Next]_(Client!vars) PROVE LifeInv'
<1> USE DEF LifeInv, Client!loopVars, Client!timerVars
<1>1. ASSUME NEW head \in Client!Chunks \cup {<<>>}, Client!Upgrade(head) PROVE LifeInv'
  <2>1. head \in Seq(Client!FrameKinds)
    <3>1. CASE head \in Client!Chunks
      BY <3>1, ChunksAreFrames
    <3>2. CASE head = <<>>
      BY <3>2
    <3> QED
      BY <3>1, <3>2
  <2>2. CASE Client!AwaitsUpgrade
    BY <1>1, <2>1, <2>2 DEF Client!Upgrade, Client!AwaitsUpgrade, Client!BeginClosing
  <2>3. CASE ~Client!AwaitsUpgrade
    BY <1>1, <2>3 DEF Client!Upgrade, Client!AwaitsUpgrade
  <2> QED
    BY <2>2, <2>3
<1>2. CASE Client!HandshakeFails
  BY <1>2 DEF Client!HandshakeFails
<1>3. CASE Client!Close
  BY <1>3 DEF Client!Close, Client!BeginClosing, Client!Idle
<1>4. CASE Client!CloseTimerFires
  BY <1>4 DEF Client!CloseTimerFires, Client!Idle
<1>5. CASE Client!SocketCloses
  BY <1>5 DEF Client!SocketCloses, Client!Idle
<1>6. CASE Client!HeartbeatTick
  BY <1>6 DEF Client!HeartbeatTick, Client!Idle
<1>7. ASSUME NEW frames \in Client!Chunks, Client!DataArrives(frames) PROVE LifeInv'
  BY <1>7, ChunksAreFrames DEF Client!DataArrives, Client!Idle
<1>8. CASE Client!ProcessFrame
  <2>1. /\ ~Client!Idle => /\ chunk # <<>> /\ Tail(chunk) \in Seq(Client!FrameKinds)
                           /\ Client!Frame \in Client!FrameKinds
        /\ Client!FrameNumber \in Nat
    BY DEF Client!Idle, Client!Frame, Client!FrameNumber
  <2>2. CASE Client!RefuseFrame
    BY <1>8, <2>1, <2>2 DEF Client!RefuseFrame, Client!Terminate, Client!Idle
  <2>3. CASE Client!StrayContinuation
    BY <1>8, <2>1, <2>3
    DEF Client!StrayContinuation, Client!ReadFrame, Client!Terminate, Client!Idle
  <2> DEFINE Unclosed == UNCHANGED <<readyState, heartbeatTimer, closeTimer>>
             ReadsOn == /\ Client!ReadFrame
                        /\ UNCHANGED <<socket, failed>>
                        /\ fragments' \in Seq(Nat)
                        /\ delivered' \in Seq(Seq(Nat))
                        /\ Unclosed \/ (readyState = "OPEN" /\ Client!BeginClosing)
  <2>8. ASSUME ReadsOn PROVE LifeInv'
    <3>1. chunk # <<>> /\ chunk' = Tail(chunk) /\ received' = Append(received, Client!Frame)
      BY <2>8 DEF Client!ReadFrame, Client!Idle
    <3>2. socket \in {"up", "destroyed"} /\ closes = 0
      BY <3>1
    <3>3. CASE Unclosed
      BY <2>1, <2>8, <3>1, <3>2, <3>3 DEF Client!ReadFrame
    <3>4. CASE readyState = "OPEN" /\ Client!BeginClosing
      BY <2>1, <2>8, <3>1, <3>2, <3>4 DEF Client!ReadFrame, Client!BeginClosing
    <3> QED
      BY <2>8, <3>3, <3>4
  <2>4. CASE Client!Continuation
    <3>1. Append(fragments, Client!FrameNumber) \in Seq(Nat)
      BY <2>1
    <3> DEFINE message == Append(fragments, Client!FrameNumber)
    <3>4. fragments' = <<>> \/ fragments' = message
      BY <2>4 DEF Client!Continuation
    <3>5. delivered' = Append(delivered, message) \/ delivered' = delivered
      BY <2>4 DEF Client!Continuation, Client!DeliverMessage
    <3>6. message \in Seq(Nat)
      BY <3>1
    <3>7. Append(delivered, message) \in Seq(Seq(Nat))
      <4> HIDE DEF message
      <4> QED BY <3>6, AppendProperties
    <3> HIDE DEF message
    <3>2. fragments' \in Seq(Nat) /\ delivered' \in Seq(Seq(Nat))
      <4>1. fragments' \in Seq(Nat)
        BY <3>4, <3>6, EmptySeq
      <4> QED
        BY <3>5, <3>7, <4>1
    <3>3. Unclosed \/ (readyState = "OPEN" /\ Client!BeginClosing)
      BY <2>4 DEF Client!Continuation, Client!DeliverMessage, Client!ListenerMayClose
    <3> QED
      BY <2>4, <2>8, <3>2, <3>3 DEF Client!Continuation
  <2>5. CASE Client!DataFrame
    <3>1. Client!StartOver \in Seq(Nat)
      BY <2>1 DEF Client!StartOver
    <3>4. fragments' = <<>> \/ fragments' = Client!StartOver
      BY <2>5 DEF Client!DataFrame
    <3>5. delivered' = Append(delivered, Client!StartOver) \/ delivered' = delivered
      BY <2>5 DEF Client!DataFrame, Client!DeliverMessage
    <3>6. Append(delivered, Client!StartOver) \in Seq(Seq(Nat))
      BY <3>1, AppendProperties
    <3>2. fragments' \in Seq(Nat) /\ delivered' \in Seq(Seq(Nat))
      <4>1. fragments' \in Seq(Nat)
        BY <3>4, <3>1, EmptySeq
      <4> QED
        BY <3>5, <3>6, <4>1
    <3>3. Unclosed \/ (readyState = "OPEN" /\ Client!BeginClosing)
      BY <2>5 DEF Client!DataFrame, Client!DeliverMessage, Client!ListenerMayClose
    <3> QED
      BY <2>5, <2>8, <3>2, <3>3 DEF Client!DataFrame
  <2>6. CASE Client!CloseFrame
    BY <1>8, <2>1, <2>6
    DEF Client!CloseFrame, Client!ClosingGracePeriod, Client!ReadFrame, Client!Idle
  <2>7. CASE Client!PongFrame
    BY <1>8, <2>1, <2>7 DEF Client!PongFrame, Client!ReadFrame, Client!Idle
  <2> QED
    BY <1>8, <2>2, <2>3, <2>4, <2>5, <2>6, <2>7 DEF Client!ProcessFrame
<1>9. CASE UNCHANGED Client!vars
  BY <1>9 DEF Client!vars, Client!connection
<1> QED
  BY <1>1, <1>2, <1>3, <1>4, <1>5, <1>6, <1>7, <1>8, <1>9 DEF Client!Next, Client!Step

THEOREM LifeInvariant == Client!Spec => []LifeInv
<1>1. LifeInv /\ [Client!Next]_(Client!vars) => LifeInv'
  BY NextKeepsLifeInv
<1> QED
  BY InitLifeInv, <1>1, PTL DEF Client!Spec

\* A connection that announced its end holds no socket and no timer.
THEOREM EndsForGood == Client!Spec => []Client!EndIsFinal
<1>1. LifeInv => Client!EndIsFinal
  BY DEF LifeInv, Client!EndIsFinal
<1> QED
  BY <1>1, LifeInvariant, PTL

-----------------------------------------------------------------------------
(* The connection implements its contract.                                 *)

LEMMA InitIsInit == Client!Init => Client!Contract!Init
BY DEF Client!Init, Client!Contract!Init

\* While the loop has frames the connection is open, and its end not announced.
LEMMA LoopIsOpen == LifeInv /\ ~Client!Idle => closes = 0 /\ socket \in {"up", "destroyed"}
BY DEF LifeInv, Client!Idle

\* Reading a frame is a message, or nothing the user of a connection sees.
LEMMA ReadsStep ==
    ASSUME LifeInv, ~Client!Idle, closes' = closes, socket' \in {"up", "destroyed"},
           Len(delivered') = Len(delivered) \/ Len(delivered') = Len(delivered) + 1
    PROVE  [Client!Contract!Next]_(Client!Contract!vars)
<1>1. closes = 0 /\ socket \in {"up", "destroyed"}
  BY LoopIsOpen
<1>2. CASE Len(delivered') = Len(delivered)
  BY <1>1, <1>2 DEF Client!Contract!vars
<1>3. CASE Len(delivered') = Len(delivered) + 1
  BY <1>1, <1>3 DEF Client!Contract!Next, Client!Contract!Deliver
<1> QED
  BY <1>2, <1>3

LEMMA NextIsStep ==
    ASSUME LifeInv, LifeInv', [Client!Next]_(Client!vars)
    PROVE  [Client!Contract!Next]_(Client!Contract!vars)
<1> USE DEF Client!loopVars, Client!timerVars
<1>1. ASSUME NEW head \in Client!Chunks \cup {<<>>}, Client!Upgrade(head)
      PROVE  [Client!Contract!Next]_(Client!Contract!vars)
  <2>1. CASE Client!AwaitsUpgrade
    <3>1. closes = 0 /\ socket = "none"
      BY <2>1 DEF LifeInv, Client!AwaitsUpgrade
    <3>2. closes' = closes /\ socket' = "up" /\ delivered' = delivered
      BY <1>1, <2>1 DEF Client!Upgrade
    <3> QED
      BY <3>1, <3>2 DEF Client!Contract!Next, Client!Contract!Open
  <2>2. CASE ~Client!AwaitsUpgrade
    BY <1>1, <2>2 DEF Client!Upgrade, Client!Contract!vars
  <2> QED
    BY <2>1, <2>2
<1>2. CASE Client!HandshakeFails
  <2>1. closes = 0 /\ socket = "none"
    BY <1>2 DEF LifeInv, Client!HandshakeFails
  <2>2. closes' = closes + 1 /\ delivered' = delivered
    BY <1>2 DEF Client!HandshakeFails
  <2> QED
    BY <2>1, <2>2 DEF Client!Contract!Next, Client!Contract!Close
<1>3. CASE Client!Close
  <2>1. CASE readyState = "CONNECTING"
    <3>1. closes = 0 /\ socket = "none"
      BY <2>1 DEF LifeInv
    <3>2. closes' = closes + 1 /\ delivered' = delivered
      BY <1>3, <2>1 DEF Client!Close
    <3> QED
      BY <3>1, <3>2 DEF Client!Contract!Next, Client!Contract!Close
  <2>2. CASE readyState = "OPEN"
    BY <1>3, <2>2 DEF Client!Close, Client!Contract!vars
  <2> QED
    BY <1>3, <2>1, <2>2 DEF Client!Close
<1>4. CASE Client!CloseTimerFires
  BY <1>4 DEF LifeInv, Client!CloseTimerFires, Client!Contract!vars
<1>5. CASE Client!SocketCloses
  <2>1. closes = 0 /\ socket # "none"
    BY <1>5 DEF LifeInv, Client!SocketCloses
  <2>2. closes' = closes + 1 /\ delivered' = delivered
    BY <1>5 DEF Client!SocketCloses
  <2> QED
    BY <2>1, <2>2 DEF Client!Contract!Next, Client!Contract!Close
<1>6. CASE Client!HeartbeatTick
  BY <1>6 DEF LifeInv, Client!HeartbeatTick, Client!Contract!vars
<1>7. ASSUME NEW frames \in Client!Chunks, Client!DataArrives(frames)
      PROVE  [Client!Contract!Next]_(Client!Contract!vars)
  BY <1>7 DEF Client!DataArrives, Client!Contract!vars
<1>8. CASE Client!ProcessFrame
  <2>1. ~Client!Idle /\ closes' = closes
    BY <1>8
    DEF Client!ProcessFrame, Client!RefuseFrame, Client!StrayContinuation, Client!Continuation,
        Client!DataFrame, Client!CloseFrame, Client!PongFrame, Client!ReadFrame
  <2>2. socket' \in {"up", "destroyed"}
    <3>1. socket' \in {socket, "destroyed"}
      BY <1>8
      DEF Client!ProcessFrame, Client!RefuseFrame, Client!StrayContinuation,
          Client!Continuation, Client!DataFrame, Client!CloseFrame, Client!PongFrame,
          Client!Terminate
    <3> QED
      BY <2>1, <3>1, LoopIsOpen
  <2>3. delivered \in Seq(Seq(Nat)) /\ delivered' \in Seq(Seq(Nat))
    BY DEF LifeInv
  <2>4. delivered' = delivered \/ \E message : delivered' = Append(delivered, message)
    BY <1>8
    DEF Client!ProcessFrame, Client!RefuseFrame, Client!StrayContinuation, Client!Continuation,
        Client!DataFrame, Client!CloseFrame, Client!PongFrame, Client!DeliverMessage
  <2>5. Len(delivered') = Len(delivered) \/ Len(delivered') = Len(delivered) + 1
    BY <2>3, <2>4
  <2> QED
    BY <2>1, <2>2, <2>5, ReadsStep
<1>9. CASE UNCHANGED Client!vars
  BY <1>9 DEF Client!vars, Client!connection, Client!Contract!vars
<1> QED
  BY <1>1, <1>2, <1>3, <1>4, <1>5, <1>6, <1>7, <1>8, <1>9 DEF Client!Next, Client!Step

\* The events of a connection are those its users rely on, for every payload cap,
\* heartbeat and sequence of frames.
THEOREM SocketImplementsContract == Client!Spec => ImplementsContract
<1>1. LifeInv /\ LifeInv' /\ [Client!Next]_(Client!vars)
        => [Client!Contract!Next]_(Client!Contract!vars)
  BY NextIsStep
<1> QED
  BY InitIsInit, LifeInvariant, <1>1, PTL
  DEF Client!Spec, ImplementsContract, Client!ImplementsContract, Client!Contract!Spec

-----------------------------------------------------------------------------
-----------------------------------------------------------------------------
(* Messages.                                                               *)

Frames(message) == {message[n] : n \in DOMAIN message}

DataBetween(first, last, frames) == {n \in first .. last : frames[n] \in Client!DataKinds}

\* What MessagesAreWhole says of one message.
IsWhole(message, frames) ==
    /\ message \in Seq(Nat) /\ message # <<>> /\ Len(message) <= MaxPayload
    /\ Frames(message) \subseteq DOMAIN frames
    /\ DataBetween(message[1], message[Len(message)], frames) = Frames(message)
    /\ \/ Len(message) = 1 /\ frames[message[1]] = "data"
       \/ /\ frames[message[1]] = "first"
          /\ frames[message[Len(message)]] = "last"
          /\ \A n \in 2 .. Len(message) - 1 : frames[message[n]] = "cont"

\* A message up to its last frame so far.
IsUnfinished(message, frames) ==
    /\ message \in Seq(Nat) /\ message # <<>> /\ Len(message) <= MaxPayload
    /\ Frames(message) \subseteq DOMAIN frames
    /\ DataBetween(message[1], Len(frames), frames) = Frames(message)
    /\ frames[message[1]] = "first"
    /\ \A n \in 2 .. Len(message) : frames[message[n]] = "cont"

\* What is reassembled is an unfinished message, for as long as anything can be read.
MessagesInv ==
    /\ \A k \in DOMAIN delivered : IsWhole(delivered[k], received)
    /\ chunk # <<>> \/ socket = "up" => fragments = <<>> \/ IsUnfinished(fragments, received)
    /\ socket = "none" => fragments = <<>>

LEMMA AppendedFrames ==
    ASSUME NEW S, NEW s \in Seq(S), NEW e \in S
    PROVE  /\ Append(s, e) \in Seq(S) /\ Append(s, e) # <<>>
           /\ Len(Append(s, e)) = Len(s) + 1 /\ Len(s) \in Nat
           /\ DOMAIN Append(s, e) = 1 .. Len(s) + 1 /\ DOMAIN s = 1 .. Len(s)
           /\ \A n \in 1 .. Len(s) : Append(s, e)[n] = s[n]
           /\ Append(s, e)[Len(s) + 1] = e
OBVIOUS

\* Frames that come later are none of a message's that was delivered.
LEMMA WholeLater ==
    ASSUME NEW frames \in Seq(Client!FrameKinds), NEW f \in Client!FrameKinds,
           NEW message, IsWhole(message, frames)
    PROVE  IsWhole(message, Append(frames, f))
<1> DEFINE later == Append(frames, f)
<1>1. /\ DOMAIN later = 1 .. Len(frames) + 1 /\ DOMAIN frames = 1 .. Len(frames)
      /\ Len(frames) \in Nat
      /\ \A n \in 1 .. Len(frames) : later[n] = frames[n]
  BY AppendedFrames
<1> HIDE DEF later
<1>2. \A n \in DOMAIN message : message[n] \in 1 .. Len(frames)
  BY <1>1 DEF IsWhole, Frames
<1>3. /\ DOMAIN message = 1 .. Len(message) /\ Len(message) \in Nat \ {0}
      /\ message[1] \in 1 .. Len(frames) /\ message[Len(message)] \in 1 .. Len(frames)
  BY <1>2 DEF IsWhole
<1>4. DataBetween(message[1], message[Len(message)], later) = Frames(message)
  <2>1. \A n \in message[1] .. message[Len(message)] : n \in 1 .. Len(frames)
    BY <1>3
  <2> QED
    BY <1>1, <2>1 DEF IsWhole, DataBetween
<1>5. \A n \in 1 .. Len(message) : later[message[n]] = frames[message[n]]
  BY <1>1, <1>2, <1>3
<1>6. Frames(message) \subseteq DOMAIN later
  BY <1>1, <1>2 DEF Frames
<1>7. 1 \in 1 .. Len(message) /\ Len(message) \in 1 .. Len(message)
  BY <1>3
<1>8. IsWhole(message, later)
  <2>1. \/ Len(message) = 1 /\ later[message[1]] = "data"
        \/ /\ later[message[1]] = "first"
           /\ later[message[Len(message)]] = "last"
           /\ \A n \in 2 .. Len(message) - 1 : later[message[n]] = "cont"
    BY <1>3, <1>5, <1>7 DEF IsWhole
  <2> QED
    BY <1>4, <1>6, <2>1 DEF IsWhole
<1> QED
  BY <1>8 DEF later

\* Control frames may come between the fragments of a message.
LEMMA UnfinishedLater ==
    ASSUME NEW frames \in Seq(Client!FrameKinds), NEW f \in Client!FrameKinds \ Client!DataKinds,
           NEW message, IsUnfinished(message, frames)
    PROVE  IsUnfinished(message, Append(frames, f))
<1> DEFINE later == Append(frames, f)
<1>1. /\ DOMAIN later = 1 .. Len(frames) + 1 /\ DOMAIN frames = 1 .. Len(frames)
      /\ Len(frames) \in Nat /\ Len(later) = Len(frames) + 1
      /\ \A n \in 1 .. Len(frames) : later[n] = frames[n]
      /\ later[Len(frames) + 1] = f
  BY AppendedFrames
<1> HIDE DEF later
<1>2. \A n \in DOMAIN message : message[n] \in 1 .. Len(frames)
  BY <1>1 DEF IsUnfinished, Frames
<1>3. /\ DOMAIN message = 1 .. Len(message) /\ Len(message) \in Nat \ {0}
      /\ message[1] \in 1 .. Len(frames)
  BY <1>2 DEF IsUnfinished
<1>4. DataBetween(message[1], Len(later), later) = Frames(message)
  <2>1. DataBetween(message[1], Len(later), later) = DataBetween(message[1], Len(frames), frames)
    BY <1>1, <1>3 DEF DataBetween
  <2> QED
    BY <2>1 DEF IsUnfinished
<1>5. \A n \in 1 .. Len(message) : later[message[n]] = frames[message[n]]
  BY <1>1, <1>2, <1>3
<1>6. Frames(message) \subseteq DOMAIN later
  BY <1>1, <1>2 DEF Frames
<1>7. /\ later[message[1]] = "first"
      /\ \A n \in 2 .. Len(message) : later[message[n]] = "cont"
  BY <1>3, <1>5 DEF IsUnfinished
<1>8. IsUnfinished(message, later)
  BY <1>4, <1>6, <1>7 DEF IsUnfinished
<1> QED
  BY <1>8 DEF later

\* A continuation goes on with the message, or ends it.
LEMMA ContinuedMessage ==
    ASSUME NEW frames \in Seq(Client!FrameKinds), NEW f \in {"cont", "last"},
           NEW message, IsUnfinished(message, frames), Len(message) + 1 <= MaxPayload
    PROVE  LET longer == Append(message, Len(frames) + 1) IN
           /\ f = "last" => IsWhole(longer, Append(frames, f))
           /\ f = "cont" => IsUnfinished(longer, Append(frames, f))
<1> DEFINE later == Append(frames, f)
           longer == Append(message, Len(frames) + 1)
<1>1. /\ DOMAIN later = 1 .. Len(frames) + 1 /\ DOMAIN frames = 1 .. Len(frames)
      /\ Len(frames) \in Nat /\ Len(later) = Len(frames) + 1
      /\ \A n \in 1 .. Len(frames) : later[n] = frames[n]
      /\ later[Len(frames) + 1] = f
  BY AppendedFrames DEF Client!FrameKinds, Client!DataKinds
<1>2. /\ longer \in Seq(Nat) /\ longer # <<>>
      /\ DOMAIN longer = 1 .. Len(message) + 1 /\ DOMAIN message = 1 .. Len(message)
      /\ Len(message) \in Nat \ {0} /\ Len(longer) = Len(message) + 1
      /\ \A n \in 1 .. Len(message) : longer[n] = message[n]
      /\ longer[Len(message) + 1] = Len(frames) + 1
  <2>1. Len(frames) + 1 \in Nat /\ message \in Seq(Nat) /\ message # <<>>
    BY DEF IsUnfinished
  <2>2. Len(message) # 0
    BY <2>1
  <2> QED
    BY <2>1, <2>2, AppendedFrames
<1> HIDE DEF later, longer
<1>3. \A n \in DOMAIN message : message[n] \in 1 .. Len(frames)
  BY <1>1 DEF IsUnfinished, Frames
<1>4. message[1] \in 1 .. Len(frames) /\ longer[1] = message[1]
  BY <1>2, <1>3
<1>5. Frames(longer) = Frames(message) \cup {Len(frames) + 1}
  BY <1>2 DEF Frames
<1>6. DataBetween(longer[1], Len(frames) + 1, later)
        = DataBetween(message[1], Len(frames), frames) \cup {Len(frames) + 1}
  BY <1>1, <1>4 DEF DataBetween, Client!DataKinds
<1>7. DataBetween(longer[1], Len(frames) + 1, later) = Frames(longer)
  BY <1>5, <1>6 DEF IsUnfinished
<1>8. Frames(longer) \subseteq DOMAIN later
  <2>1. Frames(message) \subseteq 1 .. Len(frames)
    BY <1>3 DEF Frames
  <2> QED
    BY <1>1, <1>5, <2>1
<1>9. \A n \in 1 .. Len(message) : later[longer[n]] = frames[message[n]]
  BY <1>1, <1>2, <1>3
<1>10. /\ later[longer[1]] = "first" /\ later[longer[Len(longer)]] = f
       /\ \A n \in 2 .. Len(message) : later[longer[n]] = "cont"
  <2>1. /\ frames[message[1]] = "first"
        /\ \A n \in 2 .. Len(message) : frames[message[n]] = "cont"
    BY DEF IsUnfinished
  <2>2. longer[Len(longer)] = Len(frames) + 1
    BY <1>2
  <2>3. 1 \in 1 .. Len(message) /\ \A n \in 2 .. Len(message) : n \in 1 .. Len(message)
    BY <1>2
  <2> QED
    BY <1>1, <1>9, <2>1, <2>2, <2>3
<1>11. f = "last" => IsWhole(longer, later)
  BY <1>2, <1>7, <1>8, <1>10 DEF IsWhole
<1>12. f = "cont" => IsUnfinished(longer, later)
  BY <1>1, <1>2, <1>7, <1>8, <1>10 DEF IsUnfinished
<1> QED
  BY <1>11, <1>12 DEF later, longer

\* A frame that is no continuation is a message, or begins one.
LEMMA BegunMessage ==
    ASSUME NEW frames \in Seq(Client!FrameKinds), NEW f \in {"data", "first"}, 1 <= MaxPayload
    PROVE  /\ f = "data" => IsWhole(<<Len(frames) + 1>>, Append(frames, f))
           /\ f = "first" => IsUnfinished(<<Len(frames) + 1>>, Append(frames, f))
<1> DEFINE later == Append(frames, f)
           n == Len(frames) + 1
           message == <<n>>
<1>1. /\ DOMAIN later = 1 .. n /\ n \in Nat \ {0} /\ Len(later) = n /\ later[n] = f
  BY AppendedFrames DEF Client!FrameKinds, Client!DataKinds
<1>2. /\ message \in Seq(Nat) /\ message # <<>> /\ Len(message) = 1 /\ message[1] = n
      /\ Frames(message) = {n}
  BY <1>1 DEF Frames
<1> HIDE DEF later, n, message
<1>3. DataBetween(n, n, later) = {n}
  BY <1>1 DEF DataBetween, Client!DataKinds
<1>4. f = "data" => IsWhole(message, later)
  BY <1>1, <1>2, <1>3 DEF IsWhole
<1>5. f = "first" => IsUnfinished(message, later)
  BY <1>1, <1>2, <1>3 DEF IsUnfinished
<1> QED
  BY <1>4, <1>5 DEF later, n, message

-----------------------------------------------------------------------------
LEMMA KnownStayWhole ==
    ASSUME LifeInv, MessagesInv, ~Client!Idle, received' = Append(received, Client!Frame)
    PROVE  \A k \in DOMAIN delivered : IsWhole(delivered[k], received')
<1>1. received \in Seq(Client!FrameKinds) /\ Client!Frame \in Client!FrameKinds
  BY DEF LifeInv, Client!Idle, Client!Frame
<1>2. ASSUME NEW k \in DOMAIN delivered
      PROVE  IsWhole(delivered[k], Append(received, Client!Frame))
  <2>1. IsWhole(delivered[k], received)
    BY DEF MessagesInv
  <2> QED
    BY <1>1, <2>1, WholeLater
<1> QED
  BY <1>2

LEMMA DeliveredLater ==
    ASSUME LifeInv, MessagesInv, ~Client!Idle, received' = Append(received, Client!Frame),
           delivered' = delivered
    PROVE  \A k \in DOMAIN delivered' : IsWhole(delivered'[k], received')
BY KnownStayWhole

LEMMA OneMoreDelivered ==
    ASSUME LifeInv, MessagesInv, ~Client!Idle, received' = Append(received, Client!Frame),
           NEW message \in Seq(Nat), delivered' = Append(delivered, message),
           IsWhole(message, received')
    PROVE  \A k \in DOMAIN delivered' : IsWhole(delivered'[k], received')
<1>1. /\ DOMAIN delivered' = 1 .. Len(delivered) + 1 /\ DOMAIN delivered = 1 .. Len(delivered)
      /\ \A k \in 1 .. Len(delivered) : delivered'[k] = delivered[k]
      /\ delivered'[Len(delivered) + 1] = message
  BY AppendedFrames DEF LifeInv
<1>2. \A k \in DOMAIN delivered : IsWhole(delivered[k], received')
  BY KnownStayWhole DEF LifeInv
<1>3. \A k \in DOMAIN delivered' : k \in 1 .. Len(delivered) \/ k = Len(delivered) + 1
  BY <1>1, AppendedFrames DEF LifeInv
<1> QED
  <2> SUFFICES ASSUME NEW k \in DOMAIN delivered'
               PROVE  IsWhole(delivered'[k], received')
    OBVIOUS
  <2>1. CASE k \in 1 .. Len(delivered)
    BY <1>1, <1>2, <2>1
  <2>2. CASE k = Len(delivered) + 1
    BY <1>1, <2>2
  <2> QED
    BY <1>3, <2>1, <2>2

LEMMA MessagesNext ==
    ASSUME LifeInv, MessagesInv, [Client!Next]_(Client!vars)
    PROVE  MessagesInv'
<1> USE DEF Client!loopVars, Client!timerVars
<1>1. ASSUME UNCHANGED <<received, delivered, fragments>>,
             chunk' # <<>> \/ socket' = "up" => chunk # <<>> \/ socket = "up" \/ fragments = <<>>,
             socket' = "none" => socket = "none"
      PROVE  MessagesInv'
  BY <1>1 DEF MessagesInv
<1>2. ASSUME NEW head \in Client!Chunks \cup {<<>>}, Client!Upgrade(head)
      PROVE  MessagesInv'
  <2>1. CASE Client!AwaitsUpgrade
    BY <1>1, <1>2, <2>1 DEF Client!Upgrade, Client!AwaitsUpgrade, LifeInv, MessagesInv
  <2>2. CASE ~Client!AwaitsUpgrade
    BY <1>1, <1>2, <2>2 DEF Client!Upgrade
  <2> QED
    BY <2>1, <2>2
<1>3. CASE Client!HandshakeFails \/ Client!Close
  BY <1>1, <1>3 DEF Client!HandshakeFails, Client!Close
<1>4. CASE Client!CloseTimerFires \/ Client!SocketCloses \/ Client!HeartbeatTick
  BY <1>1, <1>4 DEF Client!CloseTimerFires, Client!SocketCloses, Client!HeartbeatTick
<1>5. ASSUME NEW frames \in Client!Chunks, Client!DataArrives(frames)
      PROVE  MessagesInv'
  BY <1>1, <1>5 DEF Client!DataArrives
<1>6. CASE Client!ProcessFrame
  <2>1. /\ ~Client!Idle /\ received' = Append(received, Client!Frame)
        /\ received \in Seq(Client!FrameKinds) /\ Client!Frame \in Client!FrameKinds
        /\ Client!FrameNumber = Len(received) + 1 /\ socket # "none"
        /\ fragments \in Seq(Nat)
        /\ fragments = <<>> \/ IsUnfinished(fragments, received)
    BY <1>6 DEF Client!ProcessFrame, Client!RefuseFrame, Client!StrayContinuation,
                Client!Continuation, Client!DataFrame, Client!CloseFrame, Client!PongFrame,
                Client!ReadFrame, Client!Idle, Client!Frame, Client!FrameNumber,
                LifeInv, MessagesInv
  <2>2. CASE Client!RefuseFrame
    BY <2>1, <2>2, DeliveredLater DEF Client!RefuseFrame, Client!Terminate, MessagesInv
  <2>3. CASE Client!StrayContinuation
    BY <2>1, <2>3, DeliveredLater DEF Client!StrayContinuation, Client!Terminate, MessagesInv
  <2>4. CASE Client!Continuation
    <3> DEFINE message == Append(fragments, Client!FrameNumber)
    <3>1. /\ Client!Frame \in {"cont", "last"} /\ fragments # <<>>
          /\ socket' = socket /\ ~Client!Refused
      BY <2>4 DEF Client!Continuation, Client!ReadFrame
    <3>2. Len(fragments) + 1 <= MaxPayload
      BY <2>1, <3>1, PayloadAssumption DEF Client!Refused, Client!ExceedsCap, Client!DataKinds
    <3>3. /\ Client!Frame = "last" => IsWhole(message, received')
          /\ Client!Frame = "cont" => IsUnfinished(message, received')
      BY <2>1, <3>1, <3>2, ContinuedMessage
    <3>4. CASE Client!Frame = "last"
      <4>1. fragments' = <<>> /\ delivered' = Append(delivered, message)
        BY <2>4, <3>4 DEF Client!Continuation, Client!DeliverMessage
      <4>2. message \in Seq(Nat)
        BY <3>3, <3>4 DEF IsWhole
      <4> HIDE DEF message
      <4> QED
        BY <2>1, <3>1, <3>3, <3>4, <4>1, <4>2, OneMoreDelivered DEF MessagesInv
    <3>5. CASE Client!Frame = "cont"
      <4>1. fragments' = message /\ delivered' = delivered
        BY <2>4, <3>5 DEF Client!Continuation
      <4> HIDE DEF message
      <4> QED
        BY <2>1, <3>1, <3>3, <3>5, <4>1, DeliveredLater DEF MessagesInv
    <3> QED
      BY <3>1, <3>4, <3>5
  <2>5. CASE Client!DataFrame
    <3>1. Client!Frame \in {"data", "first"} /\ socket' = socket /\ ~Client!Refused
      BY <2>5 DEF Client!DataFrame, Client!ReadFrame
    <3>2. 1 <= MaxPayload
      BY <2>1, <3>1, PayloadAssumption DEF Client!Refused, Client!ExceedsCap, Client!DataKinds
    <3>3. /\ Client!Frame = "data" => IsWhole(Client!StartOver, received')
          /\ Client!Frame = "first" => IsUnfinished(Client!StartOver, received')
      BY <2>1, <3>1, <3>2, BegunMessage DEF Client!StartOver
    <3>4. CASE Client!Frame = "data"
      <4>1. fragments' = <<>> /\ delivered' = Append(delivered, Client!StartOver)
        BY <2>5, <3>4 DEF Client!DataFrame, Client!DeliverMessage
      <4>2. Client!StartOver \in Seq(Nat)
        BY <3>3, <3>4 DEF IsWhole
      <4> QED
        BY <2>1, <3>1, <3>3, <3>4, <4>1, <4>2, OneMoreDelivered DEF MessagesInv
    <3>5. CASE Client!Frame = "first"
      <4>1. fragments' = Client!StartOver /\ delivered' = delivered
        BY <2>5, <3>5 DEF Client!DataFrame
      <4> QED
        BY <2>1, <3>1, <3>3, <3>5, <4>1, DeliveredLater DEF MessagesInv
    <3> QED
      BY <3>1, <3>4, <3>5
  <2>6. CASE Client!CloseFrame \/ Client!PongFrame
    <3>1. /\ Client!Frame \in Client!FrameKinds \ Client!DataKinds
          /\ UNCHANGED <<fragments, delivered, socket>>
      BY <2>6 DEF Client!CloseFrame, Client!PongFrame, Client!FrameKinds, Client!DataKinds
    <3>2. fragments' = <<>> \/ IsUnfinished(fragments', received')
      BY <2>1, <3>1, UnfinishedLater
    <3> QED
      BY <2>1, <3>1, <3>2, DeliveredLater DEF MessagesInv
  <2> QED
    BY <1>6, <2>2, <2>3, <2>4, <2>5, <2>6 DEF Client!ProcessFrame
<1>7. CASE UNCHANGED Client!vars
  BY <1>1, <1>7 DEF Client!vars, Client!connection
<1> QED
  BY <1>2, <1>3, <1>4, <1>5, <1>6, <1>7 DEF Client!Next, Client!Step

\* Whatever frames the server sends in whatever chunks, a message is delivered as it was
\* sent, or not at all: for any cap, and any number of frames (processFrame).
THEOREM MessagesStayWhole == Client!Spec => []Client!MessagesAreWhole
<1>1. Client!Init => LifeInv /\ MessagesInv
  BY InitLifeInv DEF Client!Init, MessagesInv
<1>2. LifeInv /\ MessagesInv /\ [Client!Next]_(Client!vars) => (LifeInv /\ MessagesInv)'
  BY NextKeepsLifeInv, MessagesNext
<1>3. MessagesInv => Client!MessagesAreWhole
  <2> SUFFICES ASSUME MessagesInv, NEW k \in DOMAIN delivered
               PROVE  LET message == delivered[k]
                          last == message[Len(message)]
                          between == {n \in message[1] .. last : received[n] \in Client!DataKinds}
                      IN  /\ Len(message) <= MaxPayload
                          /\ between = {message[n] : n \in DOMAIN message}
                          /\ \/ Len(message) = 1 /\ received[last] = "data"
                             \/ /\ received[message[1]] = "first"
                                /\ received[last] = "last"
                                /\ \A n \in 2 .. Len(message) - 1 : received[message[n]] = "cont"
    BY DEF Client!MessagesAreWhole
  <2>1. IsWhole(delivered[k], received)
    BY DEF MessagesInv
  <2> QED
    BY <2>1 DEF IsWhole, Frames, DataBetween
<1> QED
  BY <1>1, <1>2, <1>3, PTL DEF Client!Spec

-----------------------------------------------------------------------------
(* The bytes a connection receives.                                        *)

\* The frames follow each other in the stream without a gap.
FramesFollow ==
    /\ stream \in Seq(Framing!FramesAt(Nat))
    /\ stream # <<>> => stream[1].begin = 0
    /\ \A i \in 1 .. Len(stream) - 1 : stream[i + 1].begin = Framing!End(stream[i])
    /\ \A i, j \in 1 .. Len(stream) : i < j => Framing!End(stream[i]) <= stream[j].begin

ByteTypes ==
    /\ arrived \in Nat /\ arrived <= Framing!StreamEnd
    /\ processed \in Seq([from : Nat, length : Nat])
    /\ pendingBytes \in [from : Nat, length : Nat]
    /\ buffer \in [from : Nat, length : Nat]
    /\ bytesNeeded \in Nat
    /\ isReading \in BOOLEAN /\ isTerminated \in BOOLEAN

\* Where the frames the loop has taken end, and the one it looks for begins.
Taken == IF processed = <<>> THEN 0 ELSE Framing!End(stream[Len(processed)])

HasNext == Len(processed) < Len(stream)

\* The loop reads from the beginning of a frame, and has all that arrived since.
ReadsFrames ==
    /\ buffer.from = Taken
    /\ Taken + buffer.length = arrived
    /\ pendingBytes.length = 0

\* What is queued begins with a frame, of which it is too little to read on: the bytes
\* needed are never more than the frame has, nor than it takes to refuse it.
AwaitsBytes ==
    /\ Taken + pendingBytes.length = arrived
    /\ pendingBytes.length > 0 => pendingBytes.from = Taken /\ pendingBytes.length < bytesNeeded
    /\ bytesNeeded > 2 =>
           /\ HasNext
           /\ bytesNeeded <= Framing!Size(Framing!Frame)
           /\ Framing!Refused(Framing!Frame) => bytesNeeded <= Framing!LengthKnown(Framing!Frame)

HasRefused ==
    /\ isTerminated
    /\ HasNext /\ Framing!Refused(Framing!Frame)
    /\ pendingBytes.length = 0

FramingInv ==
    /\ FramesFollow /\ ByteTypes
    /\ Framing!PayloadsAreTheirs
    /\ isReading => ReadsFrames
    /\ ~isReading => AwaitsBytes \/ HasRefused

\* The parts of a frame, one after the other.
LEMMA PartsOfFrames ==
    ASSUME NEW frame \in Framing!FramesAt(Nat)
    PROVE  /\ frame.begin \in Nat /\ frame.length \in Nat
           /\ Framing!LengthKnown(frame) \in 2 .. 10
           /\ Framing!PayloadOffset(frame) \in Framing!LengthKnown(frame) .. 14
           /\ Framing!Size(frame) = Framing!PayloadOffset(frame) + frame.length
           /\ Framing!Size(frame) \in Nat
           /\ Framing!End(frame) = frame.begin + Framing!Size(frame)
           /\ Framing!End(frame) \in Nat
           /\ ~Framing!Refused(frame) => frame.length <= MaxPayload
<1>1. frame.extension \in {0, 2, 8} /\ frame.mask \in {0, 4} /\ frame.begin \in Nat
      /\ frame.length \in Nat
  BY PayloadAssumption DEF Framing!FramesAt
<1> QED
  BY <1>1, PayloadAssumption
     DEF Framing!LengthKnown, Framing!PayloadOffset, Framing!Size, Framing!End, Framing!Refused

\* The stream ends with its last frame.
LEMMA EndsInStream ==
    ASSUME FramesFollow
    PROVE  /\ Framing!StreamEnd \in Nat
           /\ \A i \in 1 .. Len(stream) : /\ stream[i] \in Framing!FramesAt(Nat)
                                         /\ Framing!End(stream[i]) \in Nat
                                         /\ stream[i].begin \in Nat
                                         /\ stream[i].begin <= Framing!End(stream[i])
                                         /\ Framing!End(stream[i]) <= Framing!StreamEnd
<1>1. Len(stream) \in Nat /\ (stream = <<>> <=> Len(stream) = 0)
  BY DEF FramesFollow
<1>2. \A i \in 1 .. Len(stream) : /\ stream[i] \in Framing!FramesAt(Nat)
                                  /\ Framing!End(stream[i]) \in Nat
                                  /\ stream[i].begin \in Nat
                                  /\ stream[i].begin <= Framing!End(stream[i])
  BY <1>1, PartsOfFrames DEF FramesFollow
<1>3. \A i \in 1 .. Len(stream) : Framing!End(stream[i]) <= Framing!StreamEnd
  <2> TAKE i \in 1 .. Len(stream)
  <2>1. stream # <<>> /\ Len(stream) \in 1 .. Len(stream)
    BY <1>1
  <2>2. i = Len(stream) \/ Framing!End(stream[i]) <= stream[Len(stream)].begin
    BY <1>1, <2>1 DEF FramesFollow
  <2> QED
    BY <1>1, <1>2, <2>1, <2>2 DEF Framing!StreamEnd
<1> QED
  BY <1>1, <1>2, <1>3 DEF Framing!StreamEnd

\* Where the loop stands in the stream.
LEMMA TakenIs ==
    ASSUME FramesFollow, ByteTypes, Framing!PayloadsAreTheirs
    PROVE  /\ Taken \in Nat /\ Taken <= Framing!StreamEnd
           /\ Len(processed) \in Nat /\ Len(processed) <= Len(stream)
           /\ Framing!StreamEnd \in Nat
           /\ HasNext => /\ Len(processed) + 1 \in 1 .. Len(stream)
                         /\ Framing!Frame \in Framing!FramesAt(Nat)
                         /\ Framing!Frame.begin = Taken
           /\ ~HasNext => Taken = Framing!StreamEnd
<1>1. /\ Len(processed) \in Nat /\ Len(stream) \in Nat /\ Len(processed) <= Len(stream)
      /\ processed = <<>> <=> Len(processed) = 0
      /\ stream = <<>> <=> Len(stream) = 0
  BY DEF FramesFollow, ByteTypes, Framing!PayloadsAreTheirs
<1>2. /\ Framing!StreamEnd \in Nat
      /\ \A i \in 1 .. Len(stream) : /\ stream[i] \in Framing!FramesAt(Nat)
                                    /\ Framing!End(stream[i]) \in Nat
                                    /\ Framing!End(stream[i]) <= Framing!StreamEnd
  BY EndsInStream
<1>3. Taken \in Nat /\ Taken <= Framing!StreamEnd
  BY <1>1, <1>2 DEF Taken
<1>4. ASSUME HasNext
      PROVE  /\ Len(processed) + 1 \in 1 .. Len(stream)
             /\ Framing!Frame \in Framing!FramesAt(Nat)
             /\ Framing!Frame.begin = Taken
  <2>1. Len(processed) + 1 \in 1 .. Len(stream)
    BY <1>1, <1>4 DEF HasNext
  <2>2. CASE processed = <<>>
    BY <1>1, <1>2, <2>1, <2>2 DEF Taken, Framing!Frame, FramesFollow
  <2>3. CASE processed # <<>>
    <3>1. Len(processed) \in 1 .. Len(stream) - 1
      BY <1>1, <2>1, <2>3
    <3> QED
      BY <1>2, <2>1, <2>3, <3>1 DEF Taken, Framing!Frame, FramesFollow
  <2> QED
    BY <2>1, <2>2, <2>3
<1>5. ~HasNext => Taken = Framing!StreamEnd
  BY <1>1 DEF HasNext, Taken, Framing!StreamEnd
<1> QED
  BY <1>1, <1>2, <1>3, <1>4, <1>5

\* What has arrived of a frame shows that there is one.
LEMMA ReadsFrame ==
    ASSUME FramingInv, isReading, Framing!Has(2)
    PROVE  /\ HasNext
           /\ Framing!Frame \in Framing!FramesAt(Nat)
           /\ Framing!Frame.begin = Taken
           /\ buffer.from = Taken /\ Taken + buffer.length = arrived
           /\ Taken \in Nat /\ buffer.length \in Nat /\ arrived \in Nat
<1>1. /\ buffer.from = Taken /\ Taken + buffer.length = arrived
      /\ buffer.length \in Nat /\ buffer.length >= 2
      /\ arrived \in Nat /\ arrived <= Framing!StreamEnd
  BY DEF FramingInv, ReadsFrames, ByteTypes, Framing!Has
<1>2. Taken \in Nat /\ Framing!StreamEnd \in Nat
  BY TakenIs DEF FramingInv
<1>3. HasNext
  BY <1>1, <1>2, TakenIs DEF FramingInv
<1> QED
  BY <1>1, <1>2, <1>3, TakenIs DEF FramingInv

\* One more frame in the stream changes nothing of those before it.
LEMMA ServerSendsKeeps ==
    ASSUME FramingInv, NEW frame \in Framing!FramesAt({Framing!StreamEnd}),
           Framing!ServerSends(frame)
    PROVE  FramingInv'
<1>1. /\ stream' = Append(stream, frame) /\ ~isReading
      /\ UNCHANGED <<arrived, processed, pendingBytes, bytesNeeded, buffer, isReading,
                     isTerminated>>
  BY DEF Framing!ServerSends, Framing!queueVars
<1>2. /\ Taken \in Nat /\ Taken <= Framing!StreamEnd /\ Framing!StreamEnd \in Nat
      /\ Len(processed) \in Nat /\ Len(processed) <= Len(stream)
  BY TakenIs DEF FramingInv
<1>3. frame \in Framing!FramesAt(Nat) /\ frame.begin = Framing!StreamEnd
  BY <1>2 DEF Framing!FramesAt
<1>4. /\ stream \in Seq(Framing!FramesAt(Nat)) /\ Len(stream) \in Nat
      /\ stream' \in Seq(Framing!FramesAt(Nat)) /\ Len(stream') = Len(stream) + 1
      /\ stream' # <<>>
      /\ \A i \in 1 .. Len(stream) : stream'[i] = stream[i]
      /\ stream'[Len(stream) + 1] = frame
  BY <1>1, <1>3 DEF FramingInv, FramesFollow
<1>5. Framing!StreamEnd' = Framing!End(frame)
  BY <1>4 DEF Framing!StreamEnd, Framing!End, Framing!Size, Framing!PayloadOffset,
              Framing!LengthKnown
<1>6. Framing!End(frame) \in Nat /\ Framing!StreamEnd <= Framing!End(frame)
  BY <1>2, <1>3, PartsOfFrames
<1>7. FramesFollow'
  <2>1. stream'[1].begin = 0
    BY <1>1, <1>3, <1>4 DEF FramingInv, FramesFollow, Framing!StreamEnd
  <2>2. ASSUME NEW i \in 1 .. Len(stream') - 1
        PROVE  stream'[i + 1].begin = Framing!End(stream'[i])
    <3>1. CASE i < Len(stream)
      <4>1. i \in 1 .. Len(stream) - 1 /\ i \in 1 .. Len(stream) /\ i + 1 \in 1 .. Len(stream)
        BY <1>4, <3>1
      <4> QED
        BY <1>4, <4>1 DEF FramingInv, FramesFollow
    <3>2. CASE i = Len(stream)
      <4>1. stream # <<>> /\ i \in 1 .. Len(stream)
        BY <1>4, <3>2
      <4> QED
        BY <1>3, <1>4, <3>2, <4>1 DEF Framing!StreamEnd
    <3> QED
      BY <1>4, <3>1, <3>2
  <2>3. ASSUME NEW i \in 1 .. Len(stream'), NEW j \in 1 .. Len(stream'), i < j
        PROVE  Framing!End(stream'[i]) <= stream'[j].begin
    <3>1. i \in 1 .. Len(stream)
      BY <1>4, <2>3
    <3>2. CASE j \in 1 .. Len(stream)
      BY <1>4, <2>3, <3>1, <3>2 DEF FramingInv, FramesFollow
    <3>3. CASE j = Len(stream) + 1
      BY <1>3, <1>4, <3>1, <3>3, EndsInStream DEF FramingInv
    <3> QED
      BY <1>4, <3>2, <3>3
  <2> QED
    BY <1>4, <2>1, <2>2, <2>3 DEF FramesFollow, Framing!End, Framing!Size,
                                  Framing!PayloadOffset, Framing!LengthKnown
<1>8. ByteTypes'
  BY <1>1, <1>2, <1>5, <1>6 DEF FramingInv, ByteTypes
<1>9. Framing!PayloadsAreTheirs'
  <2>1. DOMAIN processed \subseteq 1 .. Len(stream)
    BY <1>2, <1>4 DEF FramingInv, ByteTypes
  <2> QED
    BY <1>1, <1>2, <1>4, <2>1
       DEF FramingInv, Framing!PayloadsAreTheirs, Framing!Payload, Framing!Refused,
           Framing!PayloadOffset, Framing!LengthKnown
<1>10. Taken' = Taken
  <2>1. processed # <<>> => Len(processed) \in 1 .. Len(stream)
    BY <1>2, <1>4 DEF FramingInv, ByteTypes
  <2> QED
    BY <1>1, <1>4, <2>1 DEF Taken, Framing!End, Framing!Size, Framing!PayloadOffset,
                            Framing!LengthKnown
<1>11. HasNext => HasNext' /\ Framing!Frame' = Framing!Frame
  <2>1. HasNext => Len(processed) + 1 \in 1 .. Len(stream)
    BY <1>2, <1>4 DEF HasNext
  <2> QED
    BY <1>1, <1>2, <1>4, <2>1 DEF HasNext, Framing!Frame
<1>12. AwaitsBytes => AwaitsBytes'
  BY <1>1, <1>10, <1>11 DEF AwaitsBytes, Framing!Refused, Framing!Size, Framing!PayloadOffset,
                            Framing!LengthKnown
<1>13. HasRefused => HasRefused'
  BY <1>1, <1>11 DEF HasRefused, Framing!Refused
<1> QED
  BY <1>1, <1>7, <1>8, <1>9, <1>12, <1>13 DEF FramingInv

LEMMA DataArrivesKeeps ==
    ASSUME FramingInv, NEW count \in 1 .. Framing!StreamEnd - arrived,
           Framing!DataArrives(count)
    PROVE  FramingInv'
<1>1. /\ ~isReading /\ ~isTerminated
      /\ arrived' = arrived + count /\ arrived + count <= Framing!StreamEnd
      /\ UNCHANGED <<stream, processed, isTerminated>>
  BY DEF Framing!DataArrives
<1>2. /\ Taken \in Nat /\ Taken <= Framing!StreamEnd /\ Framing!StreamEnd \in Nat
      /\ count \in Nat \ {0} /\ arrived \in Nat
  BY TakenIs DEF FramingInv, ByteTypes
<1>3. AwaitsBytes
  BY <1>1 DEF FramingInv, HasRefused
<1>4. /\ Framing!Queued(count) \in [from : Nat, length : Nat]
      /\ Framing!Queued(count).from = Taken
      /\ Taken + Framing!Queued(count).length = arrived + count
      /\ Framing!Queued(count).length > 0
  <2>1. /\ pendingBytes.from \in Nat /\ pendingBytes.length \in Nat
        /\ Taken + pendingBytes.length = arrived
        /\ pendingBytes.length > 0 => pendingBytes.from = Taken
    BY <1>3 DEF FramingInv, ByteTypes, AwaitsBytes
  <2>2. CASE pendingBytes.length = 0
    BY <1>2, <2>1, <2>2 DEF Framing!Queued
  <2>3. CASE pendingBytes.length # 0
    BY <1>2, <2>1, <2>3 DEF Framing!Queued
  <2> QED
    BY <2>2, <2>3
<1>5. UNCHANGED <<Taken, HasNext, Framing!Frame, Framing!StreamEnd>>
  BY <1>1 DEF Taken, HasNext, Framing!Frame, Framing!StreamEnd, Framing!End, Framing!Size,
              Framing!PayloadOffset, Framing!LengthKnown
<1>6. FramesFollow' /\ Framing!PayloadsAreTheirs'
  BY <1>1 DEF FramingInv, FramesFollow, Framing!PayloadsAreTheirs, Framing!End, Framing!Size,
              Framing!PayloadOffset, Framing!LengthKnown, Framing!Payload, Framing!Refused
<1>7. CASE Framing!Queued(count).length < bytesNeeded
  <2>1. /\ pendingBytes' = Framing!Queued(count)
        /\ UNCHANGED <<bytesNeeded, buffer, isReading>>
    BY <1>7 DEF Framing!DataArrives
  <2>2. ByteTypes'
    BY <1>1, <1>2, <1>4, <1>5, <2>1 DEF FramingInv, ByteTypes
  <2>3. AwaitsBytes'
    BY <1>1, <1>3, <1>4, <1>5, <1>7, <2>1
       DEF AwaitsBytes, Framing!Refused, Framing!Size, Framing!PayloadOffset,
           Framing!LengthKnown
  <2> QED
    BY <1>1, <1>6, <2>1, <2>2, <2>3 DEF FramingInv
<1>8. CASE ~(Framing!Queued(count).length < bytesNeeded)
  <2>1. /\ buffer' = Framing!Queued(count) /\ pendingBytes' = Framing!NoBytes
        /\ bytesNeeded' = 0 /\ isReading' = TRUE
    BY <1>8 DEF Framing!DataArrives
  <2>2. ByteTypes'
    BY <1>1, <1>2, <1>4, <1>5, <2>1 DEF FramingInv, ByteTypes, Framing!NoBytes
  <2>3. ReadsFrames'
    BY <1>1, <1>4, <1>5, <2>1 DEF ReadsFrames, Framing!NoBytes
  <2> QED
    BY <1>6, <2>1, <2>2, <2>3 DEF FramingInv
<1> QED
  BY <1>7, <1>8

\* What is not enough to read on is queued for the next chunk.
LEMMA AwaitBytesKeeps ==
    ASSUME FramingInv, isReading, NEW count \in Nat, Framing!AwaitBytes(count),
           count > 2 =>
               /\ HasNext
               /\ count <= Framing!Size(Framing!Frame)
               /\ Framing!Refused(Framing!Frame)
                      => count <= Framing!LengthKnown(Framing!Frame)
    PROVE  FramingInv'
<1>1. /\ buffer.length < count /\ bytesNeeded' = count
      /\ pendingBytes' = IF buffer.length > 0 THEN buffer ELSE pendingBytes
      /\ buffer' = Framing!NoBytes /\ isReading' = FALSE
      /\ UNCHANGED <<stream, arrived, processed, isTerminated>>
  BY DEF Framing!AwaitBytes, Framing!Has, FramingInv, ByteTypes
<1>2. UNCHANGED <<Taken, HasNext, Framing!Frame, Framing!StreamEnd>>
  BY <1>1 DEF Taken, HasNext, Framing!Frame, Framing!StreamEnd, Framing!End, Framing!Size,
              Framing!PayloadOffset, Framing!LengthKnown
<1>3. FramesFollow' /\ Framing!PayloadsAreTheirs'
  BY <1>1 DEF FramingInv, FramesFollow, Framing!PayloadsAreTheirs, Framing!End, Framing!Size,
              Framing!PayloadOffset, Framing!LengthKnown, Framing!Payload, Framing!Refused
<1>4. ByteTypes'
  BY <1>1, <1>2 DEF FramingInv, ByteTypes, Framing!NoBytes
<1>5. /\ pendingBytes'.length = buffer.length
      /\ buffer.length > 0 => pendingBytes'.from = buffer.from
  BY <1>1 DEF FramingInv, ByteTypes, ReadsFrames
<1>6. AwaitsBytes'
  BY <1>1, <1>2, <1>5
     DEF FramingInv, ReadsFrames, AwaitsBytes, Framing!Refused, Framing!Size,
         Framing!PayloadOffset, Framing!LengthKnown
<1> QED
  BY <1>1, <1>3, <1>4, <1>6 DEF FramingInv

LEMMA RefuseFrameKeeps ==
    ASSUME FramingInv, Framing!RefuseFrame PROVE FramingInv'
<1>1. /\ isReading /\ Framing!Has(2) /\ Framing!Refused(Framing!Frame)
      /\ isTerminated' = TRUE /\ isReading' = FALSE
      /\ UNCHANGED <<stream, arrived, processed, pendingBytes, bytesNeeded, buffer>>
  BY DEF Framing!RefuseFrame
<1>2. HasNext /\ pendingBytes.length = 0
  BY <1>1, ReadsFrame DEF FramingInv, ReadsFrames
<1>3. UNCHANGED <<HasNext, Framing!Frame, Framing!StreamEnd>>
  BY <1>1 DEF HasNext, Framing!Frame, Framing!StreamEnd, Framing!End, Framing!Size,
              Framing!PayloadOffset, Framing!LengthKnown
<1>4. FramesFollow' /\ Framing!PayloadsAreTheirs'
  BY <1>1 DEF FramingInv, FramesFollow, Framing!PayloadsAreTheirs, Framing!End, Framing!Size,
              Framing!PayloadOffset, Framing!LengthKnown, Framing!Payload, Framing!Refused
<1>5. ByteTypes'
  BY <1>1, <1>3 DEF FramingInv, ByteTypes
<1>6. HasRefused'
  BY <1>1, <1>2, <1>3 DEF HasRefused, Framing!Refused
<1> QED
  BY <1>1, <1>4, <1>5, <1>6 DEF FramingInv

LEMMA ProcessFrameKeeps ==
    ASSUME FramingInv, Framing!ProcessFrame PROVE FramingInv'
<1> DEFINE frame == Framing!Frame
<1>1. /\ isReading /\ Framing!Has(2) /\ Framing!Has(Framing!Size(frame))
      /\ ~Framing!Refused(frame)
      /\ processed' = Append(processed, [from |-> buffer.from + Framing!PayloadOffset(frame),
                                         length |-> frame.length])
      /\ buffer' = [from |-> buffer.from + Framing!Size(frame),
                    length |-> buffer.length - Framing!Size(frame)]
      /\ isTerminated' \in {isTerminated, TRUE}
      /\ UNCHANGED <<stream, arrived, pendingBytes, bytesNeeded, isReading>>
  BY DEF Framing!ProcessFrame, Framing!Accepted, Framing!Remainder
<1>2. /\ HasNext /\ frame \in Framing!FramesAt(Nat) /\ frame.begin = Taken
      /\ buffer.from = Taken /\ Taken + buffer.length = arrived
      /\ Taken \in Nat /\ buffer.length \in Nat /\ arrived \in Nat
  BY <1>1, ReadsFrame
<1>3. /\ frame.length \in Nat /\ Framing!PayloadOffset(frame) \in Nat
      /\ Framing!Size(frame) \in Nat
      /\ Framing!End(frame) = frame.begin + Framing!Size(frame)
  BY <1>2, PartsOfFrames
<1>4. /\ Len(processed) \in Nat /\ Len(processed) + 1 \in 1 .. Len(stream)
      /\ frame = stream[Len(processed) + 1]
  BY <1>2, TakenIs DEF FramingInv, Framing!Frame
<1>5. /\ processed' \in Seq([from : Nat, length : Nat])
      /\ Len(processed') = Len(processed) + 1
      /\ processed' # <<>>
      /\ \A i \in DOMAIN processed : processed'[i] = processed[i]
      /\ DOMAIN processed' = DOMAIN processed \cup {Len(processed) + 1}
      /\ processed'[Len(processed) + 1] = Framing!Payload(frame)
  <2> DEFINE payload == [from |-> buffer.from + Framing!PayloadOffset(frame),
                         length |-> frame.length]
  <2>1. payload \in [from : Nat, length : Nat] /\ payload = Framing!Payload(frame)
    BY <1>2, <1>3 DEF Framing!Payload
  <2>2. processed \in Seq([from : Nat, length : Nat])
    BY DEF FramingInv, ByteTypes
  <2> HIDE DEF payload, frame
  <2>3. processed' = Append(processed, payload)
    BY <1>1 DEF payload
  <2> QED
    BY <2>1, <2>2, <2>3, <1>4
<1>6. Taken' = Taken + Framing!Size(frame)
  BY <1>1, <1>2, <1>3, <1>4, <1>5 DEF Taken, Framing!End, Framing!Size, Framing!PayloadOffset,
                                      Framing!LengthKnown
<1>7. UNCHANGED Framing!StreamEnd
  BY <1>1 DEF Framing!StreamEnd, Framing!End, Framing!Size, Framing!PayloadOffset,
              Framing!LengthKnown
<1>8. FramesFollow'
  BY <1>1 DEF FramingInv, FramesFollow, Framing!End, Framing!Size, Framing!PayloadOffset,
              Framing!LengthKnown
<1>9. Framing!PayloadsAreTheirs'
  <2>1. \A i \in DOMAIN processed' :
            processed'[i] = Framing!Payload(stream[i]) /\ ~Framing!Refused(stream[i])
    BY <1>1, <1>4, <1>5 DEF FramingInv, Framing!PayloadsAreTheirs
  <2> QED
    BY <1>1, <1>4, <1>5, <2>1
       DEF Framing!PayloadsAreTheirs, Framing!Payload, Framing!Refused, Framing!PayloadOffset,
           Framing!LengthKnown
<1>10. buffer' \in [from : Nat, length : Nat]
  BY <1>1, <1>2, <1>3 DEF Framing!Has
<1>11. ByteTypes'
  BY <1>1, <1>5, <1>7, <1>10 DEF FramingInv, ByteTypes
<1>12. ReadsFrames'
  BY <1>1, <1>2, <1>3, <1>6 DEF FramingInv, ReadsFrames, Framing!Has
<1> QED
  BY <1>1, <1>8, <1>9, <1>11, <1>12 DEF FramingInv

LEMMA NextKeepsFramingInv ==
    ASSUME FramingInv, [Framing!Next]_(Framing!vars) PROVE FramingInv'
<1>1. ASSUME NEW frame \in Framing!FramesAt({Framing!StreamEnd}), Framing!ServerSends(frame)
      PROVE  FramingInv'
  BY <1>1, ServerSendsKeeps
<1>2. ASSUME NEW count \in 1 .. Framing!StreamEnd - arrived, Framing!DataArrives(count)
      PROVE  FramingInv'
  BY <1>2, DataArrivesKeeps
<1>3. CASE Framing!AwaitHeader
  BY <1>3, AwaitBytesKeeps DEF Framing!AwaitHeader
<1>4. ASSUME isReading, Framing!Has(2)
      PROVE  /\ HasNext
             /\ Framing!LengthKnown(Framing!Frame) \in Nat
             /\ Framing!PayloadOffset(Framing!Frame) \in Nat
             /\ Framing!Size(Framing!Frame) \in Nat
             /\ Framing!LengthKnown(Framing!Frame) <= Framing!PayloadOffset(Framing!Frame)
             /\ Framing!PayloadOffset(Framing!Frame) <= Framing!Size(Framing!Frame)
  BY <1>4, ReadsFrame, PartsOfFrames
<1>5. CASE Framing!AwaitLength
  BY <1>4, <1>5, AwaitBytesKeeps DEF Framing!AwaitLength
<1>6. CASE Framing!RefuseFrame
  BY <1>6, RefuseFrameKeeps
<1>7. CASE Framing!AwaitMask
  BY <1>4, <1>7, AwaitBytesKeeps DEF Framing!AwaitMask, Framing!Accepted
<1>8. CASE Framing!AwaitPayload
  BY <1>4, <1>8, AwaitBytesKeeps DEF Framing!AwaitPayload, Framing!Accepted
<1>9. CASE Framing!ProcessFrame
  BY <1>9, ProcessFrameKeeps
<1>10. CASE UNCHANGED Framing!vars
  BY <1>10
     DEF Framing!vars, Framing!queueVars, FramingInv, FramesFollow, ByteTypes, ReadsFrames,
         AwaitsBytes, HasRefused, Taken, HasNext, Framing!PayloadsAreTheirs, Framing!Frame,
         Framing!StreamEnd, Framing!End, Framing!Size, Framing!PayloadOffset,
         Framing!LengthKnown, Framing!Payload, Framing!Refused
<1> QED
  BY <1>1, <1>2, <1>3, <1>5, <1>6, <1>7, <1>8, <1>9, <1>10 DEF Framing!Next, Framing!Read

\* What is queued is never a whole frame, nor more than it takes to refuse one.
LEMMA AwaitsLess ==
    ASSUME FramingInv, ~isReading, AwaitsBytes
    PROVE  /\ pendingBytes.length < 14 + MaxPayload
           /\ HasNext => /\ arrived < Framing!End(Framing!Frame)
                         /\ Framing!Refused(Framing!Frame)
                                => arrived < Taken + Framing!LengthKnown(Framing!Frame)
<1>1. /\ pendingBytes.length \in Nat /\ bytesNeeded \in Nat /\ arrived \in Nat
      /\ Taken + pendingBytes.length = arrived
      /\ pendingBytes.length > 0 => pendingBytes.length < bytesNeeded
  BY DEF FramingInv, ByteTypes, AwaitsBytes
<1>2. Taken \in Nat /\ MaxPayload \in Nat
  BY TakenIs, PayloadAssumption DEF FramingInv
<1>3. CASE ~HasNext
  BY <1>1, <1>2, <1>3 DEF AwaitsBytes
<1>4. CASE HasNext
  <2> DEFINE frame == Framing!Frame
  <2>1. /\ frame \in Framing!FramesAt(Nat) /\ frame.begin = Taken
    BY <1>4, TakenIs DEF FramingInv
  <2>2. /\ Framing!LengthKnown(frame) \in 2 .. 10
        /\ Framing!PayloadOffset(frame) \in Framing!LengthKnown(frame) .. 14
        /\ Framing!Size(frame) = Framing!PayloadOffset(frame) + frame.length
        /\ Framing!End(frame) = Taken + Framing!Size(frame)
        /\ frame.length \in Nat
        /\ ~Framing!Refused(frame) => frame.length <= MaxPayload
    BY <2>1, PartsOfFrames
  <2>3. bytesNeeded > 2 => /\ bytesNeeded <= Framing!Size(frame)
                           /\ Framing!Refused(frame)
                                  => bytesNeeded <= Framing!LengthKnown(frame)
    BY DEF AwaitsBytes
  <2> HIDE DEF frame
  <2>4. /\ pendingBytes.length < 14 + MaxPayload
        /\ arrived < Framing!End(frame)
        /\ Framing!Refused(frame) => arrived < Taken + Framing!LengthKnown(frame)
    BY <1>1, <1>2, <2>2, <2>3
  <2> QED
    BY <1>4, <2>4 DEF frame
<1> QED
  BY <1>3, <1>4

LEMMA FramesAreFound ==
    ASSUME FramingInv PROVE Framing!FramesAreWhole
<1>1. /\ Len(processed) \in Nat /\ DOMAIN processed = 1 .. Len(processed)
      /\ Len(stream) \in Nat /\ DOMAIN stream = 1 .. Len(stream)
      /\ arrived \in Nat /\ pendingBytes.length \in Nat
      /\ Taken \in Nat /\ MaxPayload \in Nat
  BY TakenIs, PayloadAssumption DEF FramingInv, ByteTypes, FramesFollow
\* The frames the loop has yet to take end behind the one it looks for.
<1>2. ASSUME NEW i \in DOMAIN stream, i \notin DOMAIN processed
      PROVE  /\ HasNext
             /\ i = Len(processed) + 1 \/ Framing!End(Framing!Frame) <= stream[i].begin
             /\ stream[i].begin \in Nat
             /\ Framing!End(Framing!Frame) \in Nat
             /\ Framing!End(Framing!Frame) <= Framing!End(stream[i])
             /\ Len(processed) + 1 \in 1 .. i
             /\ Framing!LengthKnown(stream[i]) \in Nat
             /\ Framing!LengthKnown(stream[i]) >= 2
  <2>1. HasNext /\ Len(processed) + 1 \in 1 .. i /\ Len(processed) + 1 \in 1 .. Len(stream)
    BY <1>1, <1>2 DEF HasNext
  <2>2. i = Len(processed) + 1 \/ Framing!End(Framing!Frame) <= stream[i].begin
    BY <1>1, <2>1 DEF FramingInv, FramesFollow, Framing!Frame
  <2>3. /\ stream[i] \in Framing!FramesAt(Nat)
        /\ Framing!End(Framing!Frame) \in Nat /\ Framing!End(stream[i]) \in Nat
        /\ stream[i].begin \in Nat /\ stream[i].begin <= Framing!End(stream[i])
    BY <1>1, <2>1, EndsInStream DEF FramingInv, Framing!Frame
  <2>4. Framing!LengthKnown(stream[i]) \in 2 .. 10
    BY <2>3, PartsOfFrames
  <2>5. i = Len(processed) + 1 => Framing!End(stream[i]) = Framing!End(Framing!Frame)
    BY DEF Framing!Frame
  <2> QED
    BY <2>1, <2>2, <2>3, <2>4, <2>5
<1>3. Framing!NoneIsLate
  <2> SUFFICES ASSUME ~isReading, NEW i \in DOMAIN stream,
                      \A j \in 1 .. i : ~Framing!Refused(stream[j]),
                      Framing!End(stream[i]) <= arrived, i \notin DOMAIN processed
               PROVE  FALSE
    BY DEF Framing!NoneIsLate
  <2>1. ~Framing!Refused(Framing!Frame)
    BY <1>2 DEF Framing!Frame
  <2>2. AwaitsBytes
    BY <2>1 DEF FramingInv, HasRefused
  <2>3. arrived < Framing!End(Framing!Frame)
    BY <1>2, <2>2, AwaitsLess
  <2>4. Framing!End(stream[i]) \in Nat
    BY <1>1, EndsInStream DEF FramingInv
  <2> QED
    BY <1>1, <1>2, <2>3, <2>4
<1>4. Framing!RefusedInTime
  <2> SUFFICES ASSUME ~isReading, ~isTerminated, NEW i \in DOMAIN stream,
                      Framing!Refused(stream[i])
               PROVE  arrived < stream[i].begin + Framing!LengthKnown(stream[i])
    BY DEF Framing!RefusedInTime
  <2>1. i \notin DOMAIN processed
    BY DEF FramingInv, Framing!PayloadsAreTheirs
  <2>2. AwaitsBytes
    BY DEF FramingInv, HasRefused
  <2>3. CASE i = Len(processed) + 1
    <3>1. Framing!Frame = stream[i] /\ stream[i].begin = Taken
      BY <1>2, <2>1, <2>3, TakenIs DEF FramingInv, Framing!Frame
    <3> QED
      BY <1>2, <2>1, <2>2, <3>1, AwaitsLess
  <2>4. CASE Framing!End(Framing!Frame) <= stream[i].begin
    BY <1>1, <1>2, <2>1, <2>2, <2>4, AwaitsLess
  <2> QED
    BY <1>2, <2>1, <2>3, <2>4
<1>5. Framing!QueueIsBounded
  <2>1. ~AwaitsBytes \/ isReading => pendingBytes.length = 0
    BY DEF FramingInv, ReadsFrames, HasRefused
  <2> QED
    BY <1>1, <2>1, AwaitsLess DEF Framing!QueueIsBounded
<1> QED
  BY <1>3, <1>4, <1>5 DEF FramingInv, Framing!FramesAreWhole

\* However the bytes of any number of frames are cut into chunks, each frame is found as
\* it was sent, none is kept waiting for more than its own bytes, a refused one is refused
\* once its length is known, and the queue stays below one frame (processData).
THEOREM FramesStayWhole == Framing!Spec => []Framing!FramesAreWhole
<1>1. Framing!Init => FramingInv
  <2> SUFFICES ASSUME Framing!Init PROVE FramingInv
    OBVIOUS
  <2>1. /\ stream = <<>> /\ arrived = 0 /\ processed = <<>> /\ bytesNeeded = 0
        /\ pendingBytes = [from |-> 0, length |-> 0] /\ buffer = [from |-> 0, length |-> 0]
        /\ isReading = FALSE /\ isTerminated = FALSE
    BY DEF Framing!Init, Framing!NoBytes
  <2>2. FramesFollow /\ Framing!PayloadsAreTheirs
    BY <2>1 DEF FramesFollow, Framing!PayloadsAreTheirs
  <2>3. ByteTypes
    <3>1. processed \in Seq([from : Nat, length : Nat])
      BY <2>1
    <3>2. pendingBytes \in [from : Nat, length : Nat] /\ buffer \in [from : Nat, length : Nat]
      BY <2>1
    <3>3. arrived \in Nat /\ arrived <= Framing!StreamEnd /\ bytesNeeded \in Nat
      BY <2>1 DEF Framing!StreamEnd
    <3> QED
      BY <2>1, <3>1, <3>2, <3>3 DEF ByteTypes
  <2>4. AwaitsBytes
    BY <2>1 DEF AwaitsBytes, Taken
  <2> QED
    BY <2>1, <2>2, <2>3, <2>4 DEF FramingInv
<1>2. FramingInv /\ [Framing!Next]_(Framing!vars) => FramingInv'
  BY NextKeepsFramingInv
<1>3. FramingInv => Framing!FramesAreWhole
  BY FramesAreFound
<1> QED
  BY <1>1, <1>2, <1>3, PTL DEF Framing!Spec

\* Of whatever bytes in whatever chunks: messages are whole, and so are their frames.
THEOREM MessagesComeWhole == Client!Spec /\ Framing!Spec => []MessagesAreWhole
<1>1. Client!MessagesAreWhole /\ Framing!FramesAreWhole => MessagesAreWhole
  BY DEF MessagesAreWhole
<1> QED
  BY <1>1, MessagesStayWhole, FramesStayWhole, PTL

-----------------------------------------------------------------------------
(* The parts together.                                                     *)

\* Channel, connection and framing are behaviours of their own specifications, whichever a
\* behaviour is about.
LEMMA PartsAreBehaviours == PartsSpec => Spec /\ Client!Spec /\ Framing!Spec
<1> DEFINE allVars == <<part, vars, heartbeatInterval, connection, framing>>
<1>1. PartsInit => Init /\ Client!Init /\ Framing!Init
  BY DEF PartsInit
<1>2. [PartsNext]_allVars => [Next]_vars
  BY DEF PartsNext, ChannelSteps, SocketSteps, FramingSteps
<1>3. [PartsNext]_allVars => [Client!Next]_(Client!vars)
  BY DEF PartsNext, ChannelSteps, SocketSteps, FramingSteps, connection, Client!vars,
         Client!connection, Client!timerVars, Client!loopVars
<1>4. [PartsNext]_allVars => [Framing!Next]_(Framing!vars)
  BY DEF PartsNext, ChannelSteps, SocketSteps, FramingSteps, framing, Framing!vars,
         Framing!queueVars
<1> QED
  BY <1>1, <1>2, <1>3, <1>4, PTL DEF PartsSpec, Spec, Client!Spec, Framing!Spec

\* Whatever the network does, what is available is up, attempts do not stack, updates come
\* in order and messages whole, and a connection is what its user takes it for.
THEOREM RealtimeIsSound ==
    PartsSpec => /\ [](/\ AvailableIsAlive /\ AttemptsNeverStack
                       /\ EmittedInOrder /\ MessagesAreWhole)
                 /\ ForgetsNoOpenSocket /\ ImplementsContract
BY PartsAreBehaviours, AvailableStaysAlive, OneAttempt, UpdatesStayInOrder, MessagesComeWhole,
   ForgetsOnlyClosed, SocketImplementsContract, PTL

=============================================================================
