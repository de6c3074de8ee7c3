-------------------------- MODULE LivestreamManager --------------------------
(***************************************************************************)
(* The livestream connection pool of one camera (protect-livestream.ts),   *)
(* restricted to one index of the pool: the indices share no state but     *)
(* restartCount and shutdown.  Several consumers (the HKSV timeshift       *)
(* buffer, HomeKit streaming sessions) share one session, a watchdog       *)
(* restarts the session when segments stop arriving, and a restart is an   *)
(* asynchronous task that other calls overtake at each of its awaits.      *)
(*                                                                         *)
(* A livestream object is abstracted to whether it has an open session     *)
(* (`live`) and whether a connection it no longer references is still open *)
(* (`orphaned`); ProtectLivestream models the object itself.  Time, delays *)
(* and media data are abstracted: a timer that is armed may fire.          *)
(***************************************************************************)
EXTENDS Naturals, FiniteSets

CONSTANTS
    Consumers,      \* everything that calls acquire, start and stop
    Timeshift,      \* the consumers that call stop only after start succeeded
    MaxObjects,     \* bound: livestream objects acquire may create
    MaxTimeshiftStarts, \* bound: how often a timeshift buffer is started
    RebootLimit,    \* restarts tolerated before the camera is rebooted (10)
    SelfHealing     \* the Device.SelfHealing feature option

ASSUME ConstantsAssumption ==
    /\ IsFiniteSet(Consumers)
    /\ Timeshift \subseteq Consumers
    /\ MaxObjects \in Nat \ {0}
    /\ MaxTimeshiftStarts \in Nat
    /\ RebootLimit \in Nat
    /\ SelfHealing \in BOOLEAN

NoObject == 0
Objects == 1 .. MaxObjects

VARIABLES
    useRtsp,        \* the Debug.Video.HKSV.UseRtsp feature option
    livestream,     \* livestreams[index], or NoObject
    created,        \* how many objects acquire has created
    live,           \* live[o]: object o has a session of its own
    orphaned,       \* orphaned[o]: a connection o lost track of is still open
    handlers,       \* handlers[o]: restart/segment listener pairs on object o
    bound,          \* eventHandlers holds the current listener pair
    subscribers,    \* subscriberCount[index]
    generation,     \* generation[index]
    restarting,     \* restarting[index]
    watchdog,       \* segmentTimer[index]
    restartCount,   \* restarts since the last good session (all indices)
    restarts,       \* restart tasks suspended at an await
    online,         \* controller reachable and camera connected
    pc,             \* where each consumer is
    target,         \* target[c]: the object consumer c is starting or using
    starts          \* starts[c]: how often consumer c was started

managerVars == <<livestream, created, bound, subscribers, generation, restarting,
                 watchdog, restartCount, restarts>>
objectVars == <<live, orphaned, handlers>>
consumerVars == <<pc, target, starts>>
vars == <<managerVars, objectVars, consumerVars, online>>

\* A timer keeps its retryRestart argument.  clearTimeout makes it "off" for
\* good; a timer that fired is "fired" until refresh() reactivates it.
WatchdogStates == {"off", "armed", "armedRetry", "fired", "firedRetry"}

Restart == [object : Objects, gen : Nat, phase : {"reboot", "sleep", "launch"}]

\* idle -> starting -> subscribed -> done, with the two ways a start goes wrong:
\* "failed" (start returned false or threw, the consumer's process still runs)
\* and "exited" (the process ended while its start was suspended).
ConsumerStates == {"idle", "starting", "subscribed", "failed", "exited", "done"}

FlagsOK ==
    /\ bound \in BOOLEAN
    /\ restarting \in BOOLEAN
    /\ online \in BOOLEAN

DataOK ==
    /\ livestream \in Objects \cup {NoObject}
    /\ created \in 0 .. MaxObjects
    /\ live \in [Objects -> BOOLEAN]
    /\ orphaned \in [Objects -> BOOLEAN]
    /\ handlers \in [Objects -> Nat]
    /\ subscribers \in Nat
    /\ generation \in Nat
    /\ watchdog \in WatchdogStates
    /\ restartCount \in 0 .. RebootLimit
    /\ restarts \subseteq Restart
    /\ pc \in [Consumers -> ConsumerStates]
    /\ target \in [Consumers -> Objects \cup {NoObject}]
    /\ starts \in [Consumers -> Nat]

TypeOK == FlagsOK /\ DataOK

Init ==
    /\ useRtsp \in BOOLEAN
    /\ livestream = NoObject
    /\ created = 0
    /\ live = [o \in Objects |-> FALSE]
    /\ orphaned = [o \in Objects |-> FALSE]
    /\ handlers = [o \in Objects |-> 0]
    /\ bound = FALSE
    /\ subscribers = 0
    /\ generation = 0
    /\ restarting = FALSE
    /\ watchdog = "off"
    /\ restartCount = 0
    /\ restarts = {}
    /\ online = TRUE
    /\ pc = [c \in Consumers |-> "idle"]
    /\ target = [c \in Consumers |-> NoObject]
    /\ starts = [c \in Consumers |-> 0]

-----------------------------------------------------------------------------
(* The livestream object, as its callers see it.                           *)

\* ProtectLivestream.start resumes with a websocket: a session that is already
\* there is overwritten, and its connection stays open with nobody to close it.
\* An FFmpeg process replaces its predecessor.
Launch(o) ==
    /\ live' = [live EXCEPT ![o] = TRUE]
    /\ orphaned' = [orphaned EXCEPT ![o] = @ \/ (live[o] /\ ~useRtsp)]

\* ProtectLivestream.stop ends the session the object knows of.
Halt(o) == live' = [live EXCEPT ![o] = FALSE]

\* Deviation: a restart that compares nothing.
IsNeverStale(r) == FALSE

\* A restart captured an earlier generation or another object.
IsStale(r) == r.gen # generation \/ r.object # livestream

-----------------------------------------------------------------------------
(* acquire and start.                                                      *)

\* acquire: reuse the pooled object, or create one and forget its subscribers.
Acquire(o) ==
    \/ /\ livestream # NoObject
       /\ o = livestream
       /\ UNCHANGED <<livestream, created>>
    \/ /\ livestream = NoObject
       /\ created < MaxObjects
       /\ o = created + 1
       /\ livestream' = o
       /\ created' = o

AcquiredSubscribers == IF livestream = NoObject THEN 0 ELSE subscribers

\* Deviation: a first subscriber who inherits the previous one's restart flag.
FirstSubscriberKeepsRestarting(o) ==
    /\ handlers' = [handlers EXCEPT ![o] = @ + 1]
    /\ bound' = TRUE
    /\ watchdog' = "armed"
    /\ subscribers' = 1
    /\ UNCHANGED restarting

\* start, once the session is up and nobody had subscribed before: listeners,
\* watchdog and restart state are set up afresh.
FirstSubscriber(o) ==
    /\ restarting' = FALSE
    /\ handlers' = [handlers EXCEPT ![o] = @ + 1]
    /\ bound' = TRUE
    /\ watchdog' = "armed"
    /\ subscribers' = 1

NextSubscriber ==
    /\ subscribers' = subscribers + 1
    /\ UNCHANGED <<restarting, handlers, bound, watchdog>>

MayBegin(c) ==
    \/ pc[c] = "idle"
    \/ c \in Timeshift /\ pc[c] = "done" /\ starts[c] < MaxTimeshiftStarts

\* acquire followed by start: somebody subscribed already, so the session is
\* shared and start does not suspend.
Join(c) ==
    /\ MayBegin(c)
    /\ livestream # NoObject
    /\ subscribers > 0
    /\ NextSubscriber
    /\ pc' = [pc EXCEPT ![c] = "subscribed"]
    /\ target' = [target EXCEPT ![c] = livestream]
    /\ starts' = [starts EXCEPT ![c] = @ + 1]
    /\ UNCHANGED <<livestream, created, generation, restartCount, restarts,
                   live, orphaned, online>>

\* acquire followed by start: the livestream object ends its session, asks the
\* controller for a websocket endpoint, and start suspends.
BeginStart(c) ==
    /\ ~useRtsp
    /\ MayBegin(c)
    /\ AcquiredSubscribers = 0
    /\ \E o \in Objects :
        /\ Acquire(o)
        /\ Halt(o)
        /\ target' = [target EXCEPT ![c] = o]
    /\ subscribers' = 0
    /\ pc' = [pc EXCEPT ![c] = "starting"]
    /\ starts' = [starts EXCEPT ![c] = @ + 1]
    /\ UNCHANGED <<bound, generation, restarting, watchdog, restartCount, restarts,
                   orphaned, handlers, online>>

\* The same with an FFmpeg livestream, whose start is synchronous.
StartRtsp(c) ==
    /\ useRtsp
    /\ MayBegin(c)
    /\ AcquiredSubscribers = 0
    /\ \E o \in Objects :
        /\ Acquire(o)
        /\ Launch(o)
        /\ FirstSubscriber(o)
        /\ target' = [target EXCEPT ![c] = o]
    /\ pc' = [pc EXCEPT ![c] = "subscribed"]
    /\ starts' = [starts EXCEPT ![c] = @ + 1]
    /\ UNCHANGED <<generation, restartCount, restarts, online>>

Resumed(c, succeeded) ==
    pc' = [pc EXCEPT ![c] = IF pc[c] = "exited" THEN "done"
                            ELSE IF succeeded THEN "subscribed" ELSE "failed"]

\* start resumes with the session up.
StartSucceeds(c) ==
    /\ pc[c] \in {"starting", "exited"}
    /\ livestream # NoObject
    /\ Launch(target[c])
    /\ IF subscribers = 0 THEN FirstSubscriber(livestream) ELSE NextSubscriber
    /\ Resumed(c, TRUE)
    /\ UNCHANGED <<livestream, created, generation, restartCount, restarts, target,
                   starts, online>>

\* start resumes with the session up, but shutdown emptied the pool meanwhile:
\* registering the listeners throws.
StartThrows(c) ==
    /\ pc[c] \in {"starting", "exited"}
    /\ livestream = NoObject
    /\ Launch(target[c])
    /\ Resumed(c, FALSE)
    /\ UNCHANGED <<managerVars, handlers, target, starts, online>>

\* start resumes with no websocket endpoint and returns false.
StartFails(c) ==
    /\ pc[c] \in {"starting", "exited"}
    /\ Resumed(c, FALSE)
    /\ UNCHANGED <<managerVars, objectVars, target, starts, online>>

-----------------------------------------------------------------------------
(* stop and shutdown.                                                      *)

\* The handlers that remain on an object once the bound pair is taken off.
HandlersLeftOn(o) == IF bound /\ handlers[o] > 0 THEN handlers[o] - 1 ELSE handlers[o]

\* Deviation: a stop that leaves the listeners to the next subscriber.
StopKeepsListeners ==
    \/ /\ subscribers > 1
       /\ subscribers' = subscribers - 1
       /\ UNCHANGED <<bound, generation, watchdog, live, handlers>>
    \/ /\ subscribers <= 1
       /\ subscribers' = 0
       /\ generation' = generation + 1
       /\ watchdog' = "off"
       /\ IF livestream = NoObject THEN UNCHANGED live ELSE Halt(livestream)
       /\ UNCHANGED <<bound, handlers>>

\* stop: the last subscriber ends the session, the listeners and the watchdog,
\* and invalidates a restart that is in flight.
Stop ==
    \/ /\ subscribers > 1
       /\ subscribers' = subscribers - 1
       /\ UNCHANGED <<bound, generation, watchdog, live, handlers>>
    \/ /\ subscribers <= 1
       /\ subscribers' = 0
       /\ generation' = generation + 1
       /\ watchdog' = "off"
       /\ IF livestream = NoObject
          THEN UNCHANGED <<live, handlers>>
          ELSE /\ Halt(livestream)
               /\ handlers' = [handlers EXCEPT ![livestream] = HandlersLeftOn(livestream)]
       /\ UNCHANGED bound

\* A streaming session's FFmpeg process exits: its exit handler calls stop,
\* whatever became of the session's own call of start.
ProcessExits(c) ==
    /\ c \notin Timeshift
    /\ pc[c] \in {"starting", "subscribed", "failed"}
    /\ Stop
    /\ pc' = [pc EXCEPT ![c] = IF @ = "starting" THEN "exited" ELSE "done"]
    /\ UNCHANGED <<livestream, created, restarting, restartCount, restarts, orphaned,
                   target, starts, online>>

\* The timeshift buffer is stopped: it calls stop only if its start succeeded.
TimeshiftStops(c) ==
    /\ c \in Timeshift
    /\ pc[c] \in {"subscribed", "failed"}
    /\ IF pc[c] = "subscribed" THEN Stop
       ELSE UNCHANGED <<subscribers, bound, generation, watchdog, live, handlers>>
    /\ pc' = [pc EXCEPT ![c] = "done"]
    /\ UNCHANGED <<livestream, created, restarting, restartCount, restarts, orphaned,
                   target, starts, online>>

\* shutdown: the camera is removed from HomeKit.
Shutdown ==
    /\ livestream # NoObject
    /\ livestream' = NoObject
    /\ Halt(livestream)
    /\ handlers' = [handlers EXCEPT ![livestream] = 0]
    /\ generation' = generation + 1
    /\ bound' = FALSE
    /\ restarting' = FALSE
    /\ watchdog' = "off"
    /\ subscribers' = 0
    /\ UNCHANGED <<created, restartCount, restarts, orphaned, consumerVars, online>>

-----------------------------------------------------------------------------
(* The restart handler.                                                    *)

\* Self-healing: this restart is one too many, the camera is rebooted first.
RebootDue == SelfHealing /\ restartCount = RebootLimit

\* Deviations: every trigger restarts, and a retry that cannot pass the latch.
AdmittedAlways(retry) == TRUE
AdmittedUnlessRestarting(retry) == ~restarting

\* A trigger is ignored during a restart, unless it is the restart's own retry.
Admitted(retry) == ~restarting \/ retry

\* From its first line to its first await, for the trigger's retryRestart
\* argument and the timer state the trigger leaves.
RestartHandler(retry, timer) ==
    \/ /\ ~Admitted(retry)
       /\ watchdog' = timer
       /\ UNCHANGED <<restarting, live, restartCount, restarts>>
    \/ /\ Admitted(retry)
       /\ restarting' = TRUE
       /\ Halt(livestream)
       /\ \/ /\ ~online
             /\ watchdog' = "armedRetry"
             /\ UNCHANGED <<restartCount, restarts>>
          \/ /\ online
             /\ watchdog' = "off"
             /\ restartCount' = IF ~SelfHealing THEN restartCount
                                ELSE IF RebootDue THEN 0 ELSE restartCount + 1
             /\ restarts' = restarts \cup
                  {[object |-> livestream, gen |-> generation,
                    phase |-> IF RebootDue THEN "reboot" ELSE "sleep"]}

\* The watchdog fires and emits restart on the pooled object.
WatchdogFires ==
    /\ watchdog \in {"armed", "armedRetry"}
    /\ LET retry == watchdog = "armedRetry"
           fired == IF retry THEN "firedRetry" ELSE "fired"
       IN  IF livestream = NoObject \/ handlers[livestream] = 0
           THEN /\ watchdog' = fired
                /\ UNCHANGED <<restarting, live, restartCount, restarts>>
           ELSE RestartHandler(retry, fired)
    /\ UNCHANGED <<livestream, created, bound, subscribers, generation, orphaned,
                   handlers, consumerVars, online>>

\* The timeshift buffer asks for a restart (ProtectTimeshiftBuffer.restart).
RestartRequested(c) ==
    /\ c \in Timeshift
    /\ pc[c] = "subscribed"
    /\ livestream # NoObject
    /\ target[c] = livestream
    /\ handlers[livestream] > 0
    /\ RestartHandler(FALSE, watchdog)
    /\ UNCHANGED <<livestream, created, bound, subscribers, generation, orphaned,
                   handlers, consumerVars, online>>

\* The reboot request returns: give up when stale, retry later when refused.
RebootReturns(r, accepted) ==
    /\ r \in restarts
    /\ r.phase = "reboot"
    /\ restarts' = (restarts \ {r}) \cup
         (IF ~IsStale(r) /\ accepted THEN {[r EXCEPT !.phase = "sleep"]} ELSE {})
    /\ watchdog' = IF ~IsStale(r) /\ ~accepted THEN "armedRetry" ELSE watchdog
    /\ UNCHANGED <<livestream, created, bound, subscribers, generation, restarting,
                   restartCount, objectVars, consumerVars, online>>

\* Deviation: a restart that reports success without watching the session.
RestartedUnwatched ==
    /\ restarting' = FALSE
    /\ UNCHANGED watchdog

\* The end of a restart attempt.
Restarted ==
    /\ watchdog' = "armed"
    /\ restarting' = FALSE

\* The delay before reconnecting has passed.
RestartWakes(r) ==
    /\ r \in restarts
    /\ r.phase = "sleep"
    /\ \/ /\ IsStale(r)
          /\ restarts' = restarts \ {r}
          /\ UNCHANGED <<live, orphaned, watchdog, restarting>>
       \/ /\ ~IsStale(r)
          /\ useRtsp
          /\ Launch(r.object)
          /\ Restarted
          /\ restarts' = restarts \ {r}
       \/ /\ ~IsStale(r)
          /\ ~useRtsp
          /\ Halt(r.object)
          /\ restarts' = (restarts \ {r}) \cup {[r EXCEPT !.phase = "launch"]}
          /\ UNCHANGED <<orphaned, watchdog, restarting>>
    /\ UNCHANGED <<livestream, created, bound, subscribers, generation, restartCount,
                   handlers, consumerVars, online>>

\* livestream.start returns to the restart, with or without a session: a stale
\* restart stops the object, any other one ends whether or not it reconnected.
RestartReturns(r, succeeded) ==
    /\ r \in restarts
    /\ r.phase = "launch"
    /\ restarts' = restarts \ {r}
    /\ LET overwrites == succeeded /\ live[r.object]
           up == IF IsStale(r) THEN FALSE ELSE live[r.object] \/ succeeded
       IN  /\ live' = [live EXCEPT ![r.object] = up]
           /\ orphaned' = [orphaned EXCEPT ![r.object] = @ \/ overwrites]
    /\ IF IsStale(r) THEN UNCHANGED <<watchdog, restarting>> ELSE Restarted
    /\ UNCHANGED <<livestream, created, bound, subscribers, generation, restartCount,
                   handlers, consumerVars, online>>

-----------------------------------------------------------------------------
(* Segments and the environment.                                           *)

\* A segment arrives on an object with a listener: refresh() pushes the watchdog
\* back, reactivating a timer that fired, and after a minute of good service
\* the restart count is forgotten.
Segment(o, settled) ==
    /\ live[o] \/ orphaned[o]
    /\ handlers[o] > 0
    /\ watchdog' = CASE watchdog = "fired" -> "armed"
                     [] watchdog = "firedRetry" -> "armedRetry"
                     [] OTHER -> watchdog
    /\ restartCount' = IF settled THEN 0 ELSE restartCount
    /\ UNCHANGED <<livestream, created, bound, subscribers, generation, restarting,
                   restarts, objectVars, consumerVars, online>>

\* A session ends on its own: the controller or the network closed it.
SessionDrops(o) ==
    /\ live[o]
    /\ Halt(o)
    /\ UNCHANGED <<managerVars, orphaned, handlers, consumerVars, online>>

\* The controller or the camera goes away or comes back.
ConnectivityChanges ==
    /\ online' = ~online
    /\ UNCHANGED <<managerVars, objectVars, consumerVars>>

Next ==
    \/ \E c \in Consumers :
        \/ Join(c) \/ BeginStart(c) \/ StartRtsp(c)
        \/ StartSucceeds(c) \/ StartThrows(c) \/ StartFails(c)
        \/ ProcessExits(c) \/ TimeshiftStops(c) \/ RestartRequested(c)
    \/ Shutdown
    \/ WatchdogFires
    \/ \E r \in restarts :
        \/ RestartWakes(r)
        \/ \E ok \in BOOLEAN : RebootReturns(r, ok) \/ RestartReturns(r, ok)
    \/ \E o \in Objects :
        \/ SessionDrops(o)
        \/ \E settled \in BOOLEAN : Segment(o, settled)
    \/ ConnectivityChanges

\* The feature option is what it was when the plugin started.
Spec == Init /\ [][Next /\ UNCHANGED useRtsp]_<<useRtsp, vars>>

\* Timers fire and awaits return.  The watchdog only has to fire while nothing
\* delivers segments to push it back, and the controller that is asked for an
\* endpoint again and again grants one eventually.
Silent(o) == ~live[o] /\ ~orphaned[o]

Fairness ==
    /\ WF_vars(livestream # NoObject /\ Silent(livestream) /\ WatchdogFires)
    /\ WF_vars(\E r \in restarts : RestartWakes(r))
    /\ WF_vars(\E r \in restarts, ok \in BOOLEAN : RebootReturns(r, ok))
    /\ WF_vars(\E r \in restarts, ok \in BOOLEAN : RestartReturns(r, ok))
    /\ SF_vars(\E r \in restarts : ~IsStale(r) /\ RestartReturns(r, TRUE))

FairSpec == Spec /\ Fairness

-----------------------------------------------------------------------------
(* What the pool promises.                                                 *)

\* A restart that still concerns the session its subscribers share.
InFlight(r) == r \in restarts /\ ~IsStale(r)

\* Exactly the pooled object has listeners, one pair of them, and only while it
\* is subscribed to: start registers for the first subscriber and stop and
\* shutdown take off what they find, across every await of start and of a
\* restart (protect-livestream.ts start, stop, shutdown).
ListenersMatchSubscribers ==
    \A o \in Objects :
        handlers[o] = IF o = livestream /\ subscribers > 0 THEN 1 ELSE 0

\* A session somebody subscribed to is always watched: the watchdog is armed, or
\* it fired into a restart that is in flight or will be retried.  Nothing else
\* would notice that segments stopped (armWatchdog and the restart handler).
AlwaysWatched ==
    subscribers > 0 =>
        \/ watchdog \in {"armed", "armedRetry"}
        \/ \E r \in restarts : InFlight(r)

\* isRestarting, which keeps HKSV from recording, is only set on a subscribed
\* session while a restart of it is in flight or its retry timer is armed: no
\* path through the handler leaves the flag set forever.
RestartingEnds ==
    subscribers > 0 /\ restarting =>
        \/ watchdog = "armedRetry"
        \/ \E r \in restarts : InFlight(r)

\* Whenever a restart begins, none is in flight for the
\* same subscribers, whichever of the watchdog, its retry and the timeshift
\* buffer triggered it.
RestartBeginsAlone ==
    \A r \in restarts' \ restarts :
        (\A q \in restarts \ restarts' : q.gen # r.gen)
            => ~\E q \in restarts : InFlight(q)

\* After the last consumer stopped or the
\* camera was shut down, no delayed restart asks the controller for a session
\* ("abandon the restart rather than resurrect a session nobody is consuming").
LaunchServesSubscribers ==
    \A r \in restarts' \ restarts : r.phase = "launch" =>
        subscribers > 0 /\ r.object = livestream

\* Restarts are exclusive and needed: there is one at a time, and it reconnects only
\* for somebody (the restart handler).
RestartsAreNeeded == [][RestartBeginsAlone /\ LaunchServesSubscribers]_vars

\* Once the controller and the camera stay reachable, a subscribed session that
\* went silent is reconnected or given up by its subscribers.
SilenceEnds ==
    <>[]online =>
        \A o \in Objects :
            livestream = o /\ subscribers > 0 /\ Silent(o)
                ~> ~(livestream = o /\ subscribers > 0 /\ Silent(o))

\* The inductive invariant behind the four state invariants and the two action
\* properties.  A subscribed session is in the pool with its handlers known, and
\* a restart of the current generation is alone, is the pooled object's, and
\* keeps every other trigger out.
SubscribedIsPooled == subscribers > 0 => livestream # NoObject /\ bound

RestartsAreExclusive ==
    /\ \A r \in restarts : r.gen <= generation
    /\ \A r \in restarts : r.gen = generation =>
        /\ subscribers > 0
        /\ r.object = livestream
        /\ restarting
        /\ watchdog \notin {"armedRetry", "firedRetry"}
    /\ \A q, r \in restarts : q.gen = generation /\ r.gen = generation => q = r

ManagerInv ==
    /\ TypeOK
    /\ ListenersMatchSubscribers
    /\ SubscribedIsPooled
    /\ AlwaysWatched
    /\ RestartingEnds
    /\ RestartsAreExclusive

\* stop: "End a livestream API connection once all the consumers of the
\* livestream are done."  A consumer whose start succeeded is counted.
ConsumersAreCounted ==
    Cardinality({c \in Consumers : pc[c] = "subscribed" /\ target[c] = livestream})
        <= subscribers

\* shutdown: "Shutdown all our connections."  Only the pooled object has an FFmpeg process.
OnlyThePooledSession == useRtsp => \A o \in Objects : live[o] => o = livestream

=============================================================================
