----------------------- MODULE LivestreamManagerProofs -----------------------
(***************************************************************************)
(* Proofs about LivestreamManager, for any consumers, bounds and options.  *)
(* ManagerInv is the inductive invariant: types, listeners and subscribers,*)
(* and restarts, each preserved by a lemma of its own.                     *)
(***************************************************************************)
EXTENDS LivestreamManager, TLAPS

-----------------------------------------------------------------------------
(* Types.                                                                  *)

\* The feature option does not change; every other step is one of Next.
LEMMA SpecTakesSteps == Spec => Init /\ [][Next]_vars
<1>1. [Next /\ UNCHANGED useRtsp]_<<useRtsp, vars>> => [Next]_vars
  BY DEF vars
<1> QED
  BY <1>1, PTL DEF Spec

LEMMA InitFlagsOK == Init => FlagsOK
BY Zenon DEF Init, FlagsOK

\* The flags: every action sets them to a truth value or leaves them alone.
LEMMA NextKeepsFlagsOK ==
    ASSUME FlagsOK, [Next]_vars PROVE FlagsOK'
<1> USE DEF FlagsOK, managerVars, objectVars, consumerVars
<1>1. ASSUME NEW c \in Consumers,
             \/ Join(c) \/ BeginStart(c) \/ StartRtsp(c)
             \/ StartSucceeds(c) \/ StartThrows(c) \/ StartFails(c)
      PROVE  FlagsOK'
  BY <1>1, Zenon DEF Join, NextSubscriber, BeginStart, StartRtsp, FirstSubscriber,
     StartSucceeds, StartThrows, StartFails
<1>2. ASSUME NEW c \in Consumers,
             ProcessExits(c) \/ TimeshiftStops(c) \/ RestartRequested(c)
      PROVE  FlagsOK'
  BY <1>2, Zenon DEF ProcessExits, TimeshiftStops, Stop, RestartRequested, RestartHandler
<1>3. CASE Shutdown \/ WatchdogFires
  BY <1>3, Zenon DEF Shutdown, WatchdogFires, RestartHandler
<1>4. ASSUME NEW r \in restarts, NEW ok \in BOOLEAN,
             RestartWakes(r) \/ RebootReturns(r, ok) \/ RestartReturns(r, ok)
      PROVE  FlagsOK'
  BY <1>4, Zenon DEF RestartWakes, RebootReturns, RestartReturns, Restarted
<1>5. ASSUME NEW o \in Objects, NEW settled \in BOOLEAN,
             SessionDrops(o) \/ Segment(o, settled)
      PROVE  FlagsOK'
  BY <1>5, Zenon DEF SessionDrops, Segment
<1>6. CASE ConnectivityChanges
  BY <1>6, Zenon DEF ConnectivityChanges
<1>7. CASE UNCHANGED vars
  BY <1>7, Zenon DEF vars
<1> QED
  BY <1>1, <1>2, <1>3, <1>4, <1>5, <1>6, <1>7, Zenon DEF Next

LEMMA InitDataOK == Init => DataOK
BY ConstantsAssumption
   DEF Init, DataOK, Objects, NoObject, WatchdogStates, ConsumerStates

\* What stop leaves behind.
LEMMA StopKeepsTypes ==
    ASSUME DataOK, Stop
    PROVE  /\ subscribers' \in Nat /\ generation' \in Nat /\ watchdog' \in WatchdogStates
           /\ live' \in [Objects -> BOOLEAN] /\ handlers' \in [Objects -> Nat]
<1> USE DEF DataOK, WatchdogStates, Halt
<1>1. \/ handlers \in [Objects -> Nat] /\ HandlersLeftOn(livestream) \in Nat
      \/ livestream = NoObject
  BY DEF HandlersLeftOn, NoObject, Objects
<1>2. CASE subscribers > 1
  BY <1>2 DEF Stop
<1>3. CASE subscribers <= 1
  <2>1. subscribers' \in Nat /\ generation' \in Nat /\ watchdog' \in WatchdogStates
    BY <1>3 DEF Stop
  <2>2. live' \in [Objects -> BOOLEAN]
    BY <1>3 DEF Stop
  <2>3. handlers' \in [Objects -> Nat]
    BY <1>1, <1>3 DEF Stop
  <2> QED
    BY <2>1, <2>2, <2>3
<1> QED
  BY <1>2, <1>3

\* What the restart handler leaves behind at its first await or early return.
LEMMA HandlerKeepsTypes ==
    ASSUME DataOK, NEW retry \in BOOLEAN, NEW timer \in WatchdogStates,
           livestream # NoObject, RestartHandler(retry, timer)
    PROVE  /\ watchdog' \in WatchdogStates /\ live' \in [Objects -> BOOLEAN]
           /\ restartCount' \in 0 .. RebootLimit /\ restarts' \subseteq Restart
<1> USE ConstantsAssumption DEF DataOK
<1>1. CASE ~Admitted(retry)
  BY <1>1 DEF RestartHandler
<1>2. CASE Admitted(retry)
  <2>1. watchdog' \in WatchdogStates /\ live' \in [Objects -> BOOLEAN]
    BY <1>2 DEF RestartHandler, WatchdogStates, Halt
  <2>2. restartCount' \in 0 .. RebootLimit
    BY <1>2 DEF RestartHandler, RebootDue
  <2>3. [object |-> livestream, gen |-> generation,
         phase |-> IF RebootDue THEN "reboot" ELSE "sleep"] \in Restart
    BY DEF Restart
  <2>4. restarts' \subseteq Restart
    BY <1>2, <2>3 DEF RestartHandler
  <2> QED
    BY <2>1, <2>2, <2>4
<1> QED
  BY <1>1, <1>2

\* The calls of one consumer: acquire, start and stop.
LEMMA ConsumerKeepsDataOK ==
    ASSUME DataOK, NEW c \in Consumers,
           \/ Join(c) \/ BeginStart(c) \/ StartRtsp(c)
           \/ StartSucceeds(c) \/ StartThrows(c) \/ StartFails(c)
           \/ ProcessExits(c) \/ TimeshiftStops(c) \/ RestartRequested(c)
    PROVE  DataOK'
<1> USE ConstantsAssumption
        DEF DataOK, Objects, NoObject, WatchdogStates, ConsumerStates, Restart,
            managerVars, objectVars, consumerVars
<1>1. CASE Join(c)
  BY <1>1 DEF Join, NextSubscriber
<1>2. CASE BeginStart(c)
  <2>1. PICK o \in Objects : Acquire(o) /\ Halt(o) /\ target' = [target EXCEPT ![c] = o]
    BY <1>2 DEF BeginStart
  <2>2. livestream' \in Objects \cup {NoObject} /\ created' \in 0 .. MaxObjects
    BY <2>1 DEF Acquire
  <2>3. live' \in [Objects -> BOOLEAN]
    BY <2>1 DEF Halt
  <2>4. target' \in [Consumers -> Objects \cup {NoObject}]
    BY <2>1
  <2>5. pc' \in [Consumers -> ConsumerStates] /\ starts' \in [Consumers -> Nat]
    BY <1>2 DEF BeginStart
  <2> QED
    BY <1>2, <2>2, <2>3, <2>4, <2>5 DEF BeginStart
<1>3. CASE StartRtsp(c)
  <2>1. PICK o \in Objects :
          /\ Acquire(o) /\ Launch(o) /\ FirstSubscriber(o)
          /\ target' = [target EXCEPT ![c] = o]
    BY <1>3 DEF StartRtsp
  <2>2. livestream' \in Objects \cup {NoObject} /\ created' \in 0 .. MaxObjects
    BY <2>1 DEF Acquire
  <2>3. live' \in [Objects -> BOOLEAN] /\ orphaned' \in [Objects -> BOOLEAN]
    BY <2>1 DEF Launch
  <2>4. handlers' \in [Objects -> Nat] /\ subscribers' \in Nat /\ watchdog' \in WatchdogStates
    BY <2>1 DEF FirstSubscriber
  <2>5. target' \in [Consumers -> Objects \cup {NoObject}]
    BY <2>1
  <2>6. pc' \in [Consumers -> ConsumerStates] /\ starts' \in [Consumers -> Nat]
    BY <1>3 DEF StartRtsp
  <2> QED
    BY <1>3, <2>2, <2>3, <2>4, <2>5, <2>6 DEF StartRtsp
<1>4. CASE StartSucceeds(c)
  <2>1. live' \in [Objects -> BOOLEAN] /\ orphaned' \in [Objects -> BOOLEAN]
    BY <1>4 DEF StartSucceeds, Launch
  <2>2. pc' \in [Consumers -> ConsumerStates]
    BY <1>4 DEF StartSucceeds, Resumed
  <2>3. CASE subscribers = 0
    <3>1. handlers' \in [Objects -> Nat] /\ subscribers' \in Nat /\ watchdog' \in WatchdogStates
      BY <1>4, <2>3 DEF StartSucceeds, FirstSubscriber
    <3> QED
      BY <1>4, <2>1, <2>2, <2>3, <3>1 DEF StartSucceeds
  <2>4. CASE subscribers # 0
    BY <1>4, <2>1, <2>2, <2>4 DEF StartSucceeds, NextSubscriber
  <2> QED
    BY <2>3, <2>4
<1>5. CASE StartThrows(c)
  BY <1>5 DEF StartThrows, Launch, Resumed
<1>6. CASE StartFails(c)
  BY <1>6 DEF StartFails, Resumed
<1>7. CASE ProcessExits(c)
  BY <1>7, StopKeepsTypes DEF ProcessExits
<1>8. CASE TimeshiftStops(c)
  <2>1. CASE pc[c] = "subscribed"
    BY <1>8, <2>1, StopKeepsTypes DEF TimeshiftStops
  <2>2. CASE pc[c] # "subscribed"
    BY <1>8, <2>2 DEF TimeshiftStops
  <2> QED
    BY <2>1, <2>2
<1>9. CASE RestartRequested(c)
  BY <1>9, HandlerKeepsTypes DEF RestartRequested
<1> QED
  BY <1>1, <1>2, <1>3, <1>4, <1>5, <1>6, <1>7, <1>8, <1>9

\* Shutdown, timers, the awaits of a restart, segments and the environment.
LEMMA RestKeepsDataOK ==
    ASSUME DataOK,
           \/ Shutdown \/ WatchdogFires \/ ConnectivityChanges
           \/ \E r \in restarts :
                \/ RestartWakes(r)
                \/ \E ok \in BOOLEAN : RebootReturns(r, ok) \/ RestartReturns(r, ok)
           \/ \E o \in Objects :
                \/ SessionDrops(o)
                \/ \E settled \in BOOLEAN : Segment(o, settled)
    PROVE  DataOK'
<1> USE ConstantsAssumption
        DEF DataOK, Objects, NoObject, WatchdogStates, ConsumerStates, Restart,
            managerVars, objectVars, consumerVars
<1>1. CASE Shutdown
  BY <1>1 DEF Shutdown, Halt
<1>2. CASE WatchdogFires
  <2>1. CASE livestream = NoObject \/ handlers[livestream] = 0
    BY <1>2, <2>1 DEF WatchdogFires
  <2>2. CASE ~(livestream = NoObject \/ handlers[livestream] = 0)
    BY <1>2, <2>2, HandlerKeepsTypes DEF WatchdogFires
  <2> QED
    BY <2>1, <2>2
<1>3. ASSUME NEW r \in restarts, RestartWakes(r) PROVE DataOK'
  BY <1>3 DEF RestartWakes, Launch, Halt, Restarted
<1>4. ASSUME NEW r \in restarts, NEW ok \in BOOLEAN, RebootReturns(r, ok) PROVE DataOK'
  BY <1>4 DEF RebootReturns
<1>5. ASSUME NEW r \in restarts, NEW ok \in BOOLEAN, RestartReturns(r, ok) PROVE DataOK'
  BY <1>5 DEF RestartReturns, Restarted
<1>6. ASSUME NEW o \in Objects, SessionDrops(o) PROVE DataOK'
  BY <1>6 DEF SessionDrops, Halt
<1>7. ASSUME NEW o \in Objects, NEW settled \in BOOLEAN, Segment(o, settled) PROVE DataOK'
  <2>1. watchdog' \in WatchdogStates
    BY <1>7 DEF Segment
  <2>2. restartCount' \in 0 .. RebootLimit
    BY <1>7 DEF Segment
  <2> QED
    BY <1>7, <2>1, <2>2 DEF Segment
<1>8. CASE ConnectivityChanges
  BY <1>8 DEF ConnectivityChanges
<1> QED
  BY <1>1, <1>2, <1>3, <1>4, <1>5, <1>6, <1>7, <1>8

LEMMA NextKeepsDataOK ==
    ASSUME DataOK, [Next]_vars PROVE DataOK'
<1>1. CASE UNCHANGED vars
  BY <1>1 DEF DataOK, vars, managerVars, objectVars, consumerVars
<1>2. CASE Next
  BY <1>2, ConsumerKeepsDataOK, RestKeepsDataOK DEF Next
<1> QED
  BY <1>1, <1>2

\* Every variable keeps its type, whatever the consumers do.
THEOREM TypeCorrect == Spec => []TypeOK
<1>1. Init => TypeOK
  BY InitFlagsOK, InitDataOK DEF TypeOK
<1>2. TypeOK /\ [Next]_vars => TypeOK'
  BY NextKeepsFlagsOK, NextKeepsDataOK DEF TypeOK
<1> QED
  BY <1>1, <1>2, SpecTakesSteps, PTL

-----------------------------------------------------------------------------
(* Listeners and subscribers.                                              *)

ListenersInv == ListenersMatchSubscribers /\ SubscribedIsPooled

\* Whatever keeps the pool's object, listeners and subscribers keeps the invariant.
LEMMA ListenersUntouched ==
    ASSUME ListenersInv, UNCHANGED <<livestream, handlers, bound, subscribers>>
    PROVE  ListenersInv'
BY DEF ListenersInv, ListenersMatchSubscribers, SubscribedIsPooled

\* The last subscriber takes off the pair the first one registered.
LEMMA StopTakesListenersOff ==
    ASSUME DataOK, ListenersInv, Stop, livestream' = livestream
    PROVE  ListenersInv'
<1> USE DEF DataOK, ListenersInv, ListenersMatchSubscribers, SubscribedIsPooled
<1>1. CASE subscribers > 1
  BY <1>1 DEF Stop
<1>2. CASE subscribers <= 1
  <2>1. CASE livestream = NoObject
    BY <1>2, <2>1 DEF Stop
  <2>2. CASE livestream # NoObject
    <3>1. livestream \in Objects /\ HandlersLeftOn(livestream) = 0
      BY <2>2, <1>2 DEF HandlersLeftOn
    <3> QED
      BY <1>2, <2>2, <3>1 DEF Stop
  <2> QED
    BY <2>1, <2>2
<1> QED
  BY <1>1, <1>2

LEMMA NextKeepsListeners ==
    ASSUME DataOK, ListenersInv, [Next]_vars PROVE ListenersInv'
<1> USE DEF managerVars, objectVars, consumerVars
<1>1. ASSUME NEW c \in Consumers, Join(c) PROVE ListenersInv'
  BY <1>1 DEF Join, NextSubscriber, DataOK, ListenersInv, ListenersMatchSubscribers,
     SubscribedIsPooled
<1>2. ASSUME NEW c \in Consumers, BeginStart(c) PROVE ListenersInv'
  <2>1. subscribers = 0
    BY <1>2 DEF BeginStart, AcquiredSubscribers, ListenersInv, SubscribedIsPooled, DataOK
  <2> QED
    BY <1>2, <2>1 DEF BeginStart, ListenersInv, ListenersMatchSubscribers, SubscribedIsPooled
<1>3. ASSUME NEW c \in Consumers, StartRtsp(c) PROVE ListenersInv'
  <2>1. subscribers = 0
    BY <1>3 DEF StartRtsp, AcquiredSubscribers, ListenersInv, SubscribedIsPooled, DataOK
  <2>2. PICK o \in Objects : Acquire(o) /\ FirstSubscriber(o)
    BY <1>3 DEF StartRtsp
  <2>3. livestream' = o
    BY <2>2 DEF Acquire
  <2> QED
    BY <2>1, <2>2, <2>3
       DEF FirstSubscriber, ListenersInv, ListenersMatchSubscribers, SubscribedIsPooled,
           DataOK, NoObject, Objects
<1>4. ASSUME NEW c \in Consumers, StartSucceeds(c) PROVE ListenersInv'
  <2>1. CASE subscribers = 0
    BY <1>4, <2>1 DEF StartSucceeds, FirstSubscriber, ListenersInv,
       ListenersMatchSubscribers, SubscribedIsPooled, DataOK
  <2>2. CASE subscribers # 0
    BY <1>4, <2>2 DEF StartSucceeds, NextSubscriber, ListenersInv,
       ListenersMatchSubscribers, SubscribedIsPooled, DataOK
  <2> QED
    BY <2>1, <2>2
<1>5. ASSUME NEW c \in Consumers, ProcessExits(c) PROVE ListenersInv'
  BY <1>5, StopTakesListenersOff DEF ProcessExits
<1>6. ASSUME NEW c \in Consumers, TimeshiftStops(c) PROVE ListenersInv'
  BY <1>6, StopTakesListenersOff, ListenersUntouched DEF TimeshiftStops
<1>7. CASE Shutdown
  BY <1>7 DEF Shutdown, ListenersInv, ListenersMatchSubscribers, SubscribedIsPooled, DataOK
<1>8. ASSUME NEW c \in Consumers,
             StartThrows(c) \/ StartFails(c) \/ RestartRequested(c)
      PROVE  ListenersInv'
  BY <1>8, ListenersUntouched DEF StartThrows, StartFails, RestartRequested
<1>9. CASE WatchdogFires \/ ConnectivityChanges \/ UNCHANGED vars
  BY <1>9, ListenersUntouched DEF WatchdogFires, ConnectivityChanges, vars
<1>10. ASSUME NEW r \in restarts, NEW ok \in BOOLEAN,
              RestartWakes(r) \/ RebootReturns(r, ok) \/ RestartReturns(r, ok)
       PROVE  ListenersInv'
  BY <1>10, ListenersUntouched DEF RestartWakes, RebootReturns, RestartReturns
<1>11. ASSUME NEW o \in Objects, NEW settled \in BOOLEAN,
              SessionDrops(o) \/ Segment(o, settled)
       PROVE  ListenersInv'
  BY <1>11, ListenersUntouched DEF SessionDrops, Segment
<1> QED
  BY <1>1, <1>2, <1>3, <1>4, <1>5, <1>6, <1>7, <1>8, <1>9, <1>10, <1>11 DEF Next

\* One pair of listeners on the pooled object while it has subscribers, and none
\* anywhere else, across every await of start and of a restart.
THEOREM ListenersFollowSubscribers == Spec => []ListenersMatchSubscribers
<1>1. Init => TypeOK /\ ListenersInv
  BY InitFlagsOK, InitDataOK
     DEF Init, TypeOK, ListenersInv, ListenersMatchSubscribers, SubscribedIsPooled
<1>2. TypeOK /\ ListenersInv /\ [Next]_vars => (TypeOK /\ ListenersInv)'
  BY NextKeepsFlagsOK, NextKeepsDataOK, NextKeepsListeners DEF TypeOK
<1>3. ListenersInv => ListenersMatchSubscribers
  BY DEF ListenersInv
<1> QED
  BY <1>1, <1>2, <1>3, SpecTakesSteps, PTL

-----------------------------------------------------------------------------
(* Restarts.                                                               *)

RestartsInv == RestartsAreExclusive /\ AlwaysWatched /\ RestartingEnds

\* A restart is stale exactly when its generation is over.
LEMMA StaleByGeneration ==
    ASSUME RestartsAreExclusive, NEW r \in restarts
    PROVE  IsStale(r) <=> r.gen # generation
BY DEF RestartsAreExclusive, IsStale

\* Without subscribers no restart of this generation is left.
LEMMA NoneWithoutSubscribers ==
    ASSUME RestartsAreExclusive, subscribers = 0, NEW r \in restarts
    PROVE  r.gen # generation
BY DEF RestartsAreExclusive

LEMMA RestartsUntouched ==
    ASSUME RestartsInv,
           UNCHANGED <<livestream, subscribers, generation, restarting, watchdog, restarts>>
    PROVE  RestartsInv'
BY DEF RestartsInv, RestartsAreExclusive, AlwaysWatched, RestartingEnds, InFlight, IsStale

\* One more subscriber changes nothing for the restarts.
LEMMA JoinKeepsRestarts ==
    ASSUME DataOK, RestartsInv, NextSubscriber, subscribers > 0,
           UNCHANGED <<livestream, generation, restarts>>
    PROVE  RestartsInv'
BY DEF NextSubscriber, DataOK, RestartsInv, RestartsAreExclusive, AlwaysWatched,
   RestartingEnds, InFlight, IsStale

\* The first one finds only restarts of earlier generations.
LEMMA FirstKeepsRestarts ==
    ASSUME RestartsInv, subscribers = 0, NEW o \in Objects, FirstSubscriber(o),
           UNCHANGED <<generation, restarts>>
    PROVE  RestartsInv'
BY NoneWithoutSubscribers
   DEF FirstSubscriber, RestartsInv, RestartsAreExclusive, AlwaysWatched, RestartingEnds

\* A new generation makes every restart stale.
LEMMA NewGenerationKeepsRestarts ==
    ASSUME DataOK, RestartsInv, subscribers' = 0, generation' = generation + 1,
           restarts' = restarts
    PROVE  RestartsInv'
BY DEF DataOK, Restart, RestartsInv, RestartsAreExclusive, AlwaysWatched, RestartingEnds

LEMMA StopKeepsRestarts ==
    ASSUME DataOK, RestartsInv, Stop, UNCHANGED <<livestream, restarting, restarts>>
    PROVE  RestartsInv'
<1>1. CASE subscribers > 1
  BY <1>1 DEF Stop, DataOK, RestartsInv, RestartsAreExclusive, AlwaysWatched,
     RestartingEnds, InFlight, IsStale
<1>2. CASE subscribers <= 1
  BY <1>2, NewGenerationKeepsRestarts DEF Stop, DataOK
<1> QED
  BY <1>1, <1>2 DEF DataOK

\* The handler is only admitted while no restart is in flight; ignored triggers
\* leave a restart or an armed retry behind.
LEMMA HandlerKeepsRestarts ==
    ASSUME DataOK, RestartsInv, NEW retry \in BOOLEAN, NEW timer \in WatchdogStates,
           subscribers > 0, RestartHandler(retry, timer),
           UNCHANGED <<livestream, subscribers, generation>>,
           \/ retry /\ watchdog = "armedRetry"
           \/ ~retry /\ timer = watchdog
           \/ ~retry /\ watchdog = "armed" /\ timer = "fired"
    PROVE  RestartsInv'
<1> USE DEF RestartsInv, RestartsAreExclusive, AlwaysWatched, RestartingEnds, InFlight,
            IsStale
<1>1. CASE ~Admitted(retry)
  <2>1. restarting /\ ~retry
    BY <1>1 DEF Admitted
  <2> QED
    BY <1>1, <2>1 DEF RestartHandler
<1>2. CASE Admitted(retry)
  <2>1. \A r \in restarts : r.gen # generation
    BY <1>2 DEF Admitted
  <2>2. CASE ~online
    BY <1>2, <2>1, <2>2 DEF RestartHandler
  <2>3. CASE online
    <3> DEFINE begun == [object |-> livestream, gen |-> generation,
                         phase |-> IF RebootDue THEN "reboot" ELSE "sleep"]
    <3>1. /\ restarting' /\ watchdog' = "off" /\ restarts' = restarts \cup {begun}
      BY <1>2, <2>3 DEF RestartHandler
    <3>2. begun.gen = generation /\ begun.object = livestream
      OBVIOUS
    <3> HIDE DEF begun
    <3> QED
      BY <2>1, <3>1, <3>2 DEF DataOK
  <2> QED
    BY <2>2, <2>3
<1> QED
  BY <1>1, <1>2

LEMMA WatchdogKeepsRestarts ==
    ASSUME DataOK, ListenersInv, RestartsInv, WatchdogFires PROVE RestartsInv'
<1>1. CASE livestream = NoObject \/ handlers[livestream] = 0
  <2>1. subscribers = 0
    BY <1>1 DEF ListenersInv, ListenersMatchSubscribers, SubscribedIsPooled, DataOK
  <2> QED
    BY <1>1, <2>1 DEF WatchdogFires, RestartsInv, RestartsAreExclusive, AlwaysWatched,
       RestartingEnds
<1>2. CASE ~(livestream = NoObject \/ handlers[livestream] = 0)
  <2>1. subscribers > 0
    BY <1>2 DEF ListenersInv, ListenersMatchSubscribers, DataOK
  <2> QED
    BY <1>2, <2>1, HandlerKeepsRestarts DEF WatchdogFires, WatchdogStates
<1> QED
  BY <1>1, <1>2

LEMMA RebootKeepsRestarts ==
    ASSUME DataOK, RestartsInv, NEW r \in restarts, NEW ok \in BOOLEAN, RebootReturns(r, ok)
    PROVE  RestartsInv'
<1> USE DEF RestartsInv, RestartsAreExclusive, AlwaysWatched, RestartingEnds, InFlight,
            IsStale
<1>1. CASE IsStale(r)
  BY <1>1 DEF RebootReturns
<1>2. CASE ~IsStale(r) /\ ok
  <2> DEFINE next == [r EXCEPT !.phase = "sleep"]
  <2>1. next.gen = r.gen /\ next.object = r.object
    BY DEF DataOK, Restart
  <2>2. restarts' = (restarts \ {r}) \cup {next}
    BY <1>2 DEF RebootReturns
  <2> HIDE DEF next
  <2> QED
    BY <1>2, <2>1, <2>2 DEF RebootReturns
<1>3. CASE ~IsStale(r) /\ ~ok
  BY <1>3 DEF RebootReturns
<1> QED
  BY <1>1, <1>2, <1>3

LEMMA WakeKeepsRestarts ==
    ASSUME DataOK, RestartsInv, NEW r \in restarts, RestartWakes(r) PROVE RestartsInv'
<1> USE DEF RestartsInv, RestartsAreExclusive, AlwaysWatched, RestartingEnds, InFlight,
            IsStale
<1>1. CASE IsStale(r)
  BY <1>1 DEF RestartWakes
<1>2. CASE ~IsStale(r) /\ useRtsp
  BY <1>2 DEF RestartWakes, Restarted
<1>3. CASE ~IsStale(r) /\ ~useRtsp
  <2> DEFINE next == [r EXCEPT !.phase = "launch"]
  <2>1. next.gen = r.gen /\ next.object = r.object
    BY DEF DataOK, Restart
  <2>2. restarts' = (restarts \ {r}) \cup {next}
    BY <1>3 DEF RestartWakes
  <2> HIDE DEF next
  <2> QED
    BY <1>3, <2>1, <2>2 DEF RestartWakes
<1> QED
  BY <1>1, <1>2, <1>3

LEMMA ReturnKeepsRestarts ==
    ASSUME DataOK, RestartsInv, NEW r \in restarts, NEW ok \in BOOLEAN, RestartReturns(r, ok)
    PROVE  RestartsInv'
<1> USE DEF RestartsInv, RestartsAreExclusive, AlwaysWatched, RestartingEnds, InFlight,
            IsStale
<1>1. CASE IsStale(r)
  BY <1>1 DEF RestartReturns
<1>2. CASE ~IsStale(r)
  BY <1>2 DEF RestartReturns, Restarted
<1> QED
  BY <1>1, <1>2

LEMMA NextKeepsRestarts ==
    ASSUME DataOK, ListenersInv, RestartsInv, [Next]_vars PROVE RestartsInv'
<1> USE DEF managerVars, objectVars, consumerVars
<1>1. ASSUME NEW c \in Consumers, Join(c) PROVE RestartsInv'
  BY <1>1, JoinKeepsRestarts DEF Join
<1>2. ASSUME NEW c \in Consumers, BeginStart(c) PROVE RestartsInv'
  <2>1. subscribers = 0 /\ subscribers' = 0
    BY <1>2 DEF BeginStart, AcquiredSubscribers, ListenersInv, SubscribedIsPooled, DataOK
  <2> QED
    BY <1>2, <2>1 DEF BeginStart, RestartsInv, RestartsAreExclusive, AlwaysWatched,
       RestartingEnds
<1>3. ASSUME NEW c \in Consumers, StartRtsp(c) PROVE RestartsInv'
  <2>1. subscribers = 0
    BY <1>3 DEF StartRtsp, AcquiredSubscribers, ListenersInv, SubscribedIsPooled, DataOK
  <2> QED
    BY <1>3, <2>1, FirstKeepsRestarts DEF StartRtsp
<1>4. ASSUME NEW c \in Consumers, StartSucceeds(c) PROVE RestartsInv'
  <2>1. livestream \in Objects
    BY <1>4 DEF StartSucceeds, DataOK
  <2>2. CASE subscribers = 0
    BY <1>4, <2>1, <2>2, FirstKeepsRestarts DEF StartSucceeds
  <2>3. CASE subscribers # 0
    BY <1>4, <2>3, JoinKeepsRestarts DEF StartSucceeds, DataOK
  <2> QED
    BY <2>2, <2>3
<1>5. ASSUME NEW c \in Consumers, ProcessExits(c) PROVE RestartsInv'
  BY <1>5, StopKeepsRestarts DEF ProcessExits
<1>6. ASSUME NEW c \in Consumers, TimeshiftStops(c) PROVE RestartsInv'
  BY <1>6, StopKeepsRestarts, RestartsUntouched DEF TimeshiftStops
<1>7. CASE Shutdown
  BY <1>7, NewGenerationKeepsRestarts DEF Shutdown
<1>8. ASSUME NEW c \in Consumers, RestartRequested(c) PROVE RestartsInv'
  <2>1. subscribers > 0
    BY <1>8 DEF RestartRequested, ListenersInv, ListenersMatchSubscribers, DataOK
  <2> QED
    BY <1>8, <2>1, HandlerKeepsRestarts DEF RestartRequested, DataOK
<1>9. ASSUME NEW o \in Objects, NEW settled \in BOOLEAN, Segment(o, settled)
      PROVE  RestartsInv'
  BY <1>9 DEF Segment, RestartsInv, RestartsAreExclusive, AlwaysWatched, RestartingEnds,
     InFlight, IsStale
<1>10. ASSUME NEW r \in restarts, NEW ok \in BOOLEAN,
              RestartWakes(r) \/ RebootReturns(r, ok) \/ RestartReturns(r, ok)
       PROVE  RestartsInv'
  BY <1>10, WakeKeepsRestarts, RebootKeepsRestarts, ReturnKeepsRestarts
<1>11. ASSUME NEW c \in Consumers, StartThrows(c) \/ StartFails(c)
       PROVE  RestartsInv'
  BY <1>11, RestartsUntouched DEF StartThrows, StartFails
<1>12. ASSUME NEW o \in Objects, SessionDrops(o) PROVE RestartsInv'
  BY <1>12, RestartsUntouched DEF SessionDrops
<1>13. CASE ConnectivityChanges \/ UNCHANGED vars
  BY <1>13, RestartsUntouched DEF ConnectivityChanges, vars
<1> QED
  BY <1>1, <1>2, <1>3, <1>4, <1>5, <1>6, <1>7, <1>8, <1>9, <1>10, <1>11, <1>12, <1>13,
     WatchdogKeepsRestarts DEF Next

LEMMA ManagerInvIsInductive ==
    /\ Init => ManagerInv
    /\ ManagerInv /\ [Next]_vars => ManagerInv'
<1>1. Init => ManagerInv
  BY InitFlagsOK, InitDataOK
     DEF Init, ManagerInv, TypeOK, ListenersMatchSubscribers, SubscribedIsPooled,
         AlwaysWatched, RestartingEnds, RestartsAreExclusive
<1>2. ManagerInv <=> TypeOK /\ ListenersInv /\ RestartsInv
  BY DEF ManagerInv, ListenersInv, RestartsInv
<1>3. ManagerInv' <=> TypeOK' /\ ListenersInv' /\ RestartsInv'
  BY DEF ManagerInv, ListenersInv, RestartsInv
<1> QED
  BY <1>1, <1>2, <1>3, NextKeepsFlagsOK, NextKeepsDataOK, NextKeepsListeners,
     NextKeepsRestarts DEF TypeOK

THEOREM ManagerInvariant == Spec => []ManagerInv
BY ManagerInvIsInductive, SpecTakesSteps, PTL

\* A subscribed session always has an armed watchdog or a restart in flight.
THEOREM SubscribedIsWatched == Spec => []AlwaysWatched
<1>1. ManagerInv => AlwaysWatched
  BY DEF ManagerInv
<1> QED
  BY <1>1, ManagerInvariant, PTL

\* isRestarting never stays set on a subscribed session with nothing to clear it.
THEOREM RestartingIsResolved == Spec => []RestartingEnds
<1>1. ManagerInv => RestartingEnds
  BY DEF ManagerInv
<1> QED
  BY <1>1, ManagerInvariant, PTL

-----------------------------------------------------------------------------
(* What a step does to the restarts.                                       *)

\* A step leaves the restarts alone, begins one from the handler, moves one that
\* exists to its next await, or ends one.
LEMMA RestartSteps ==
    ASSUME ManagerInv, [Next]_vars
    PROVE  \/ restarts' \subseteq restarts
           \/ /\ \A r \in restarts : r.gen # generation
              /\ \A r \in restarts' \ restarts : r.phase # "launch"
           \/ \E r \in restarts, phase \in {"sleep", "launch"} :
                /\ restarts' = (restarts \ {r}) \cup {[r EXCEPT !.phase = phase]}
                /\ r.phase # phase
                /\ ~IsStale(r)
<1> DEFINE Begins(retry, timer) ==
             \/ restarts' \subseteq restarts
             \/ /\ \A r \in restarts : r.gen # generation
                /\ \A r \in restarts' \ restarts : r.phase # "launch"
<1> USE DEF managerVars, objectVars, consumerVars
<1>1. ASSUME NEW retry \in BOOLEAN, NEW timer, RestartHandler(retry, timer),
             retry => watchdog = "armedRetry"
      PROVE  Begins(retry, timer)
  <2>1. CASE ~Admitted(retry) \/ ~online
    BY <1>1, <2>1 DEF RestartHandler
  <2>2. CASE Admitted(retry) /\ online
    <3>1. \A r \in restarts : r.gen # generation
      BY <1>1, <2>2 DEF Admitted, ManagerInv, RestartsAreExclusive
    <3>2. \A r \in restarts' \ restarts : r.phase # "launch"
      BY <1>1, <2>2 DEF RestartHandler
    <3> QED
      BY <3>1, <3>2
  <2> QED
    BY <2>1, <2>2
<1>2. CASE WatchdogFires
  BY <1>1, <1>2 DEF WatchdogFires
<1>3. ASSUME NEW c \in Consumers, RestartRequested(c) PROVE Begins(FALSE, watchdog)
  BY <1>1, <1>3 DEF RestartRequested
<1>4. ASSUME NEW r \in restarts, NEW ok \in BOOLEAN, RebootReturns(r, ok)
      PROVE  \/ restarts' \subseteq restarts
             \/ /\ restarts' = (restarts \ {r}) \cup {[r EXCEPT !.phase = "sleep"]}
                /\ r.phase # "sleep" /\ ~IsStale(r)
  BY <1>4 DEF RebootReturns
<1>5. ASSUME NEW r \in restarts, RestartWakes(r)
      PROVE  \/ restarts' \subseteq restarts
             \/ /\ restarts' = (restarts \ {r}) \cup {[r EXCEPT !.phase = "launch"]}
                /\ r.phase # "launch" /\ ~IsStale(r)
  BY <1>5 DEF RestartWakes
<1>6. ASSUME NEW r \in restarts, NEW ok \in BOOLEAN, RestartReturns(r, ok)
      PROVE  restarts' \subseteq restarts
  BY <1>6 DEF RestartReturns
<1>7. ASSUME NEW c \in Consumers,
             \/ Join(c) \/ BeginStart(c) \/ StartRtsp(c)
             \/ StartSucceeds(c) \/ StartThrows(c) \/ StartFails(c)
             \/ ProcessExits(c) \/ TimeshiftStops(c)
      PROVE  restarts' = restarts
  BY <1>7 DEF Join, BeginStart, StartRtsp, StartSucceeds, StartThrows, StartFails,
     ProcessExits, TimeshiftStops
<1>8. ASSUME NEW o \in Objects, NEW settled \in BOOLEAN,
             SessionDrops(o) \/ Segment(o, settled)
      PROVE  restarts' = restarts
  BY <1>8 DEF SessionDrops, Segment
<1>9. CASE Shutdown \/ ConnectivityChanges \/ UNCHANGED vars
  BY <1>9 DEF Shutdown, ConnectivityChanges, vars
<1> QED
  BY <1>2, <1>3, <1>4, <1>5, <1>6, <1>7, <1>8, <1>9 DEF Next

\* No restart begins while one of the same subscribers is in flight.
LEMMA OneRestartAtATime ==
    ASSUME ManagerInv, [Next]_vars PROVE RestartBeginsAlone
<1>1. CASE \A r \in restarts : r.gen # generation
  BY <1>1, StaleByGeneration DEF RestartBeginsAlone, InFlight, ManagerInv
<1>2. ASSUME NEW r \in restarts, NEW phase \in {"sleep", "launch"}, r.phase # phase,
             restarts' = (restarts \ {r}) \cup {[r EXCEPT !.phase = phase]}
      PROVE  RestartBeginsAlone
  <2>1. r \in Restart
    BY DEF ManagerInv, TypeOK, DataOK
  <2>2. [r EXCEPT !.phase = phase].gen = r.gen /\ [r EXCEPT !.phase = phase] # r
    BY <2>1, <1>2 DEF Restart
  <2> QED
    BY <1>2, <2>2 DEF RestartBeginsAlone
<1>3. CASE restarts' \subseteq restarts
  BY <1>3 DEF RestartBeginsAlone
<1> QED
  BY <1>1, <1>2, <1>3, RestartSteps

\* A restart reconnects only the pooled session, and only while it is subscribed.
LEMMA RestartsServe ==
    ASSUME ManagerInv, [Next]_vars PROVE LaunchServesSubscribers
<1>1. ASSUME NEW r \in restarts, NEW phase \in {"sleep", "launch"}, ~IsStale(r),
             restarts' = (restarts \ {r}) \cup {[r EXCEPT !.phase = phase]}
      PROVE  LaunchServesSubscribers
  <2>1. r \in Restart /\ [r EXCEPT !.phase = phase].object = r.object
    BY DEF ManagerInv, TypeOK, DataOK, Restart
  <2>2. subscribers > 0 /\ r.object = livestream
    BY <1>1 DEF ManagerInv, RestartsAreExclusive, IsStale
  <2> QED
    BY <1>1, <2>1, <2>2 DEF LaunchServesSubscribers
<1>2. CASE \A r \in restarts' \ restarts : r.phase # "launch"
  BY <1>2 DEF LaunchServesSubscribers
<1> QED
  BY <1>1, <1>2, RestartSteps

\* There is one restart at a time, and it reconnects only for somebody.
THEOREM RestartsExclude == Spec => RestartsAreNeeded
<1>1. ManagerInv /\ [Next]_vars => [RestartBeginsAlone /\ LaunchServesSubscribers]_vars
  BY OneRestartAtATime, RestartsServe
<1> QED
  BY <1>1, ManagerInvariant, SpecTakesSteps, PTL DEF RestartsAreNeeded

-----------------------------------------------------------------------------
-----------------------------------------------------------------------------
(* FFmpeg sessions.                                                        *)

\* An FFmpeg livestream starts without waiting, so that nothing is between its steps.
RtspInv ==
    useRtsp =>
        /\ \A c \in Consumers : pc[c] \notin {"starting", "exited"}
        /\ \A r \in restarts : r.phase # "launch"
        /\ \A o \in Objects : live[o] => o = livestream

\* Sessions end more often than they begin.
LEMMA RtspSessionsEnd ==
    ASSUME DataOK, RtspInv, useRtsp, UNCHANGED livestream,
           \/ live' = live
           \/ \E o \in Objects : live' = [live EXCEPT ![o] = FALSE]
    PROVE  \A o \in Objects : live'[o] => o = livestream'
BY DEF DataOK, RtspInv

LEMMA StopEndsSessions ==
    ASSUME DataOK, Stop
    PROVE  \/ live' = live
           \/ \E o \in Objects : live' = [live EXCEPT ![o] = FALSE]
BY DEF DataOK, Stop, Halt

LEMMA RestartHandlerEndsSessions ==
    ASSUME DataOK, NEW retry, NEW timer, livestream # NoObject, RestartHandler(retry, timer)
    PROVE  /\ \/ live' = live
              \/ \E o \in Objects : live' = [live EXCEPT ![o] = FALSE]
           /\ \A r \in restarts' \ restarts : r.phase # "launch"
BY DEF DataOK, RestartHandler, Halt

LEMMA NextKeepsRtspInv ==
    ASSUME DataOK, RtspInv, [Next /\ UNCHANGED useRtsp]_<<useRtsp, vars>>
    PROVE  RtspInv'
<1> SUFFICES ASSUME useRtsp, useRtsp' PROVE RtspInv'
  BY DEF RtspInv, vars
<1> USE DEF managerVars, objectVars, consumerVars
<1>1. /\ \A c \in Consumers : pc[c] \notin {"starting", "exited"}
      /\ \A r \in restarts : r.phase # "launch"
      /\ \A o \in Objects : live[o] => o = livestream
      /\ pc \in [Consumers -> ConsumerStates] /\ live \in [Objects -> BOOLEAN]
      /\ livestream \in Objects \cup {NoObject} /\ NoObject \notin Objects
  BY DEF RtspInv, DataOK, NoObject, Objects
<1>2. ASSUME NEW c \in Consumers, Join(c)
      PROVE  RtspInv'
  BY <1>1, <1>2 DEF Join, RtspInv
<1>3. ASSUME NEW c \in Consumers, StartRtsp(c)
      PROVE  RtspInv'
  <2>1. PICK o \in Objects : Acquire(o) /\ Launch(o)
    BY <1>3 DEF StartRtsp
  <2>2. livestream' = o /\ livestream \in {o, NoObject}
    BY <2>1 DEF Acquire
  <2>3. live' = [live EXCEPT ![o] = TRUE]
    BY <2>1 DEF Launch
  <2>4. \A p \in Objects : live'[p] => p = livestream'
    BY <1>1, <2>2, <2>3
  <2> QED
    BY <1>1, <1>3, <2>4 DEF StartRtsp, RtspInv
<1>4. ASSUME NEW c \in Consumers,
             \/ BeginStart(c)
             \/ StartSucceeds(c) \/ StartThrows(c) \/ StartFails(c)
      PROVE  RtspInv'
  BY <1>1, <1>4 DEF BeginStart, StartSucceeds, StartThrows, StartFails
<1>5. ASSUME NEW c \in Consumers, ProcessExits(c)
      PROVE  RtspInv'
  <2>1. \A o \in Objects : live'[o] => o = livestream'
    BY <1>5, StopEndsSessions, RtspSessionsEnd DEF ProcessExits
  <2> QED
    BY <1>1, <1>5, <2>1 DEF ProcessExits, RtspInv
<1>6. ASSUME NEW c \in Consumers, TimeshiftStops(c)
      PROVE  RtspInv'
  <2>1. \A o \in Objects : live'[o] => o = livestream'
    BY <1>6, StopEndsSessions, RtspSessionsEnd DEF TimeshiftStops
  <2> QED
    BY <1>1, <1>6, <2>1 DEF TimeshiftStops, RtspInv
<1>7. ASSUME NEW c \in Consumers, RestartRequested(c)
      PROVE  RtspInv'
  <2>1. \A o \in Objects : live'[o] => o = livestream'
    BY <1>7, RestartHandlerEndsSessions, RtspSessionsEnd DEF RestartRequested
  <2> QED
    BY <1>1, <1>7, <2>1, RestartHandlerEndsSessions DEF RestartRequested, RtspInv
<1>8. CASE Shutdown
  <2>1. live' = [live EXCEPT ![livestream] = FALSE] /\ livestream \in Objects
    BY <1>1, <1>8 DEF Shutdown, Halt
  <2>2. \A o \in Objects : ~live'[o]
    BY <1>1, <2>1
  <2> QED
    BY <1>1, <1>8, <2>2 DEF Shutdown, RtspInv
<1>9. CASE WatchdogFires
  <2>1. /\ \/ live' = live
           \/ \E o \in Objects : live' = [live EXCEPT ![o] = FALSE]
        /\ \A r \in restarts' \ restarts : r.phase # "launch"
    BY <1>9, RestartHandlerEndsSessions DEF WatchdogFires
  <2>2. \A o \in Objects : live'[o] => o = livestream'
    BY <1>9, <2>1, RtspSessionsEnd DEF WatchdogFires
  <2> QED
    BY <1>1, <1>9, <2>1, <2>2 DEF WatchdogFires, RtspInv
<1>10. ASSUME NEW r \in restarts, RestartWakes(r)
       PROVE  RtspInv'
  <2>1. CASE IsStale(r)
    BY <1>1, <1>10, <2>1 DEF RestartWakes, RtspInv
  <2>2. CASE ~IsStale(r)
    <3>1. live' = [live EXCEPT ![livestream] = TRUE] /\ livestream' = livestream
      BY <1>10, <2>2 DEF RestartWakes, Launch, IsStale
    <3>2. \A o \in Objects : live'[o] => o = livestream'
      BY <1>1, <3>1
    <3> QED
      BY <1>1, <1>10, <2>2, <3>2 DEF RestartWakes, RtspInv
  <2> QED
    BY <2>1, <2>2
<1>11. ASSUME NEW r \in restarts, NEW ok \in BOOLEAN, RebootReturns(r, ok)
       PROVE  RtspInv'
  <2>1. r \in Restart
    BY DEF DataOK
  <2>2. [r EXCEPT !.phase = "sleep"].phase # "launch"
    BY <2>1 DEF Restart
  <2> QED
    BY <1>1, <1>11, <2>2 DEF RebootReturns, RtspInv
<1>12. ASSUME NEW r \in restarts, NEW ok \in BOOLEAN, RestartReturns(r, ok)
       PROVE  RtspInv'
  BY <1>1, <1>12 DEF RestartReturns
<1>13. ASSUME NEW o \in Objects, NEW settled \in BOOLEAN, Segment(o, settled)
       PROVE  RtspInv'
  BY <1>1, <1>13 DEF Segment, RtspInv
<1>14. ASSUME NEW o \in Objects, SessionDrops(o)
       PROVE  RtspInv'
  BY <1>1, <1>14 DEF SessionDrops, Halt, RtspInv
<1>15. CASE ConnectivityChanges \/ UNCHANGED vars
  BY <1>1, <1>15 DEF ConnectivityChanges, vars, RtspInv
<1> QED
  BY <1>2, <1>3, <1>4, <1>5, <1>6, <1>7, <1>8, <1>9, <1>10, <1>11, <1>12, <1>13, <1>14, <1>15
  DEF Next, vars

\* No FFmpeg process outlives its place in the pool, however shutdowns and restarts
\* overtake each other (shutdown).
THEOREM OnlyPooledSessions == Spec => []OnlyThePooledSession
<1>1. Init => DataOK /\ RtspInv
  BY InitDataOK DEF Init, RtspInv
<1>2. [Next /\ UNCHANGED useRtsp]_<<useRtsp, vars>> => [Next]_vars
  BY DEF vars
<1>3. DataOK /\ RtspInv /\ [Next /\ UNCHANGED useRtsp]_<<useRtsp, vars>> => (DataOK /\ RtspInv)'
  BY <1>2, NextKeepsDataOK, NextKeepsRtspInv
<1>4. RtspInv => OnlyThePooledSession
  BY DEF RtspInv, OnlyThePooledSession
<1> QED
  BY <1>1, <1>3, <1>4, PTL DEF Spec

=============================================================================
