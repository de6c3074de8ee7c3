----------------------------- MODULE EventTimers -----------------------------
(***************************************************************************)
(* What the controller's motion, smart detection, doorbell and access      *)
(* events make of one device's sensors, and the timers that end them       *)
(* (protect-events.ts, protect-camera.ts, protect-doorbell.ts,              *)
(* protect-device.ts, protect-sensor.ts).                                  *)
(*                                                                         *)
(* The timers of the events are kept by the device's MAC address, and       *)
(* outlive the device: their callbacks hold on to the services they were    *)
(* made with.  A camera listens to events only when its configuration,      *)
(* which waits for the controller, is over; one that was removed meanwhile  *)
(* listens all the same, and nobody takes its listener away any more.       *)
(*                                                                         *)
(* One object type, one license plate; the services a device does not have  *)
(* are never shown.  The mute switch, which only withholds a ring's         *)
(* notification, is left out, and so is what removed objects do to their    *)
(* own accessory, but for the occupancy sensor they look at.                *)
(***************************************************************************)
EXTENDS Naturals

CONSTANTS
    MaxLives,   \* bound: how often the device, or its motion sensor, is made
    MaxEvents   \* bound: events of the controller and commands of HomeKit

VARIABLES
    smartDetect,    \* options: smart detection is on
    ringDelay,      \* options: there is a pause between two rings
    life,           \* which making of the device's services this is, 0 when there is none
    lives,          \* how many there were
    configuring,    \* lives whose configuration is not over
    place,          \* place[l]: life l's place among the listeners to the device's events, or 0
    detectMotion,   \* detectMotion[l]: the motion switch, in the context of life l
    shown,          \* what HomeKit shows as detected, but for occupancy
    occupied,       \* lives whose occupancy sensor shows occupancy
    isRinging,
    eventTimers,    \* for each pending timer of an event, the life it was set in, or 0
    ownTimers,      \* contactAuthTimer and accessUnlockTimer
    published,      \* topics whose last MQTT message was "true"
    delayedUpdates, \* updates of the trigger switches, 50 ms after HomeKit set them
    events          \* how many events there were

optionVars == <<smartDetect, ringDelay>>
lifeVars == <<life, lives, configuring, place>>
deviceVars == <<lifeVars, detectMotion, isRinging>>
vars == <<optionVars, deviceVars, shown, occupied, eventTimers, ownTimers, published, delayedUpdates,
          events>>

EventKeys == {"motion", "object", "plate", "occupancy", "ring", "ringTrigger", "ringMqtt"}
OwnKeys == {"auth", "unlock"}
Topics == {"motion", "object", "occupancy", "ringMqtt"}
Indicators == {"motion", "motionTrigger", "object", "plate", "ringTrigger"} \cup OwnKeys
Lives == 1 .. MaxLives

TypeOK ==
    /\ smartDetect \in BOOLEAN /\ ringDelay \in BOOLEAN
    /\ life \in 0 .. MaxLives /\ lives \in life .. MaxLives
    /\ configuring \subseteq Lives /\ place \in [Lives -> 0 .. MaxLives]
    /\ detectMotion \in [Lives -> BOOLEAN] /\ isRinging \in BOOLEAN
    /\ shown \subseteq Indicators /\ occupied \subseteq Lives
    /\ eventTimers \in [EventKeys -> 0 .. MaxLives]
    /\ ownTimers \subseteq OwnKeys
    /\ published \subseteq Topics
    /\ delayedUpdates \subseteq {"motionOff", "motionOn", "ringOn"}
    /\ events \in 0 .. MaxEvents

Init ==
    /\ smartDetect \in BOOLEAN /\ ringDelay \in BOOLEAN
    /\ life = 0 /\ lives = 0
    /\ configuring = {} /\ place = [l \in Lives |-> 0]
    /\ detectMotion = [l \in Lives |-> TRUE] /\ isRinging = FALSE
    /\ shown = {} /\ occupied = {} /\ ownTimers = {} /\ published = {} /\ delayedUpdates = {}
    /\ eventTimers = [k \in EventKeys |-> 0]
    /\ events = 0

Pending(key) == eventTimers[key] # 0

\* Deviation: a timer that is pending goes on.
KeepsTimers(l, keys) ==
    eventTimers' = [k \in EventKeys |-> IF k \in keys /\ ~Pending(k) THEN l ELSE eventTimers[k]]

\* resetTimer: a timer that is pending starts anew, with the callback of life l.
ResetTimers(l, keys) ==
    eventTimers' = [k \in EventKeys |-> IF k \in keys THEN l ELSE eventTimers[k]]

Happens == events < MaxEvents /\ events' = events + 1

\* configureEvents: an event of the controller is emitted for the id of the device, and the
\* lives that listen handle it, in the order they have subscribed in.
Listening == {l \in Lives : place[l] # 0}
Emitted == Happens /\ Listening # {}

\* HomeKit sets something of the device that is there.
HomeKitSets == Happens /\ life # 0

\* Of some lives, those that handle an event first and last.
InOrder(first, heard, last) ==
    \A l \in heard : place[first] <= place[l] /\ place[l] <= place[last]

-----------------------------------------------------------------------------
(* Motion.                                                                 *)

\* handleMotionEvent, handleSmartDetection, handleLicensePlate: what has no timer pending
\* is announced, and motion sets its trigger switch.
Announces(keys) == {k \in keys \ {"occupancy"} : ~Pending(k)}
Shows(new) == new \cup (IF "motion" \in new THEN {"motionTrigger"} ELSE {})

\* handleOccupancy looks at the sensor instead.
AnnouncesOccupancy(heard, keys) == "occupancy" \in keys /\ ~(heard \subseteq occupied)

\* What is detected: motion, and with smart detection the objects, some of which count for
\* occupancy; without it, any motion does.
DetectedKeys(objects) ==
    {"motion"} \cup (IF smartDetect THEN objects ELSE {"occupancy"})

\* motionEventHandler, motionEventDelivery, for each life that detects motion: the first one
\* announces, and the last one's callbacks stay.
Detects(heard, objects) ==
    LET detecting == {l \in heard : detectMotion[l]}
        keys == DetectedKeys(objects)
        new == Announces(keys)
    IN  IF detecting = {}
        THEN UNCHANGED <<shown, occupied, published, eventTimers>>
        ELSE \E first, last \in detecting :
                /\ InOrder(first, detecting, last)
                /\ shown' = IF first = life THEN shown \cup Shows(new) ELSE shown
                /\ occupied' = IF "occupancy" \in keys THEN occupied \cup detecting ELSE occupied
                /\ published' = published \cup (new \cap Topics) \cup
                       (IF AnnouncesOccupancy(detecting, keys) THEN {"occupancy"} ELSE {})
                /\ ResetTimers(last, keys)

\* eventHandler, addEventHandler: motion, or a smart detection of an object, whose plate
\* may be known and which may count for occupancy.
MotionEvent ==
    /\ Emitted
    /\ \E objects \in {{}, {"object"}, {"object", "plate"}, {"object", "plate", "occupancy"}} :
           Detects(Listening, objects)
    /\ UNCHANGED <<optionVars, deviceVars, ownTimers, delayedUpdates>>

\* An MQTT message sets off motion, on the object that has subscribed last, be it removed.
MqttMotion ==
    /\ Happens /\ lives # 0
    /\ Detects({lives}, {})
    /\ UNCHANGED <<optionVars, deviceVars, ownTimers, delayedUpdates>>

\* HomeKit sets the motion switch.
SetMotionSwitch ==
    /\ HomeKitSets
    /\ detectMotion' = [detectMotion EXCEPT ![life] = ~@]
    /\ UNCHANGED <<optionVars, lifeVars, isRinging, shown, occupied, eventTimers, ownTimers,
                   published, delayedUpdates>>

\* HomeKit sets the motion trigger on (configureMotionTrigger): the switch goes off again a
\* moment later when motion is not to be detected.
MotionTriggerOn ==
    /\ HomeKitSets
    /\ delayedUpdates' = delayedUpdates \cup (IF detectMotion[life] THEN {} ELSE {"motionOff"})
    /\ IF detectMotion[life]
       THEN Detects({life}, {})
       ELSE /\ shown' = shown \cup {"motionTrigger"}
            /\ UNCHANGED <<occupied, published, eventTimers>>
    /\ UNCHANGED <<optionVars, deviceVars, ownTimers>>

\* ... and off: it goes on again while there is motion.
MotionTriggerOff ==
    /\ HomeKitSets
    /\ delayedUpdates' = delayedUpdates \cup (IF "motion" \in shown THEN {"motionOn"} ELSE {})
    /\ shown' = shown \ {"motionTrigger"}
    /\ UNCHANGED <<optionVars, deviceVars, occupied, eventTimers, ownTimers, published>>

-----------------------------------------------------------------------------
(* The doorbell, and its reader.                                           *)

RingKeys == {"ringTrigger", "ringMqtt"} \cup (IF ringDelay THEN {"ring"} ELSE {})

\* doorbellEventHandler, for each life that handles the ring, unless one was delivered
\* within the delay; with a delay the first one is the only one.
Rings(heard) ==
    IF Pending("ring")
    THEN UNCHANGED <<isRinging, shown, published, eventTimers>>
    ELSE \E first, last \in heard :
            /\ InOrder(first, heard, last)
            /\ IF life \in (IF ringDelay THEN {first} ELSE heard)
               THEN isRinging' = TRUE /\ shown' = shown \cup {"ringTrigger"}
               ELSE UNCHANGED <<isRinging, shown>>
            /\ published' = published \cup {"ringMqtt"}
            /\ ResetTimers(IF ringDelay THEN first ELSE last, RingKeys)

RingEvent ==
    /\ Emitted
    /\ Rings(Listening)
    /\ UNCHANGED <<optionVars, lifeVars, detectMotion, occupied, ownTimers, delayedUpdates>>

\* An MQTT message rings, on the object that has subscribed last, be it removed.
MqttRing ==
    /\ Happens /\ lives # 0
    /\ Rings({lives})
    /\ UNCHANGED <<optionVars, lifeVars, detectMotion, occupied, ownTimers, delayedUpdates>>

\* HomeKit sets the doorbell trigger, which is configured last (configureDoorbellTrigger).
SetDoorbellTrigger(isOn) ==
    /\ HomeKitSets /\ life \in Listening
    /\ IF isOn
       THEN Rings({life}) /\ UNCHANGED delayedUpdates
       ELSE /\ shown' = shown \ {"ringTrigger"}
            /\ delayedUpdates' = delayedUpdates \cup (IF isRinging THEN {"ringOn"} ELSE {})
            /\ UNCHANGED <<isRinging, published, eventTimers>>
    /\ UNCHANGED <<optionVars, lifeVars, detectMotion, occupied, ownTimers>>

\* addEventHandler of the doorbell: someone was authenticated, or was not.
AuthEvent(isKnown) ==
    /\ Emitted /\ life \in Listening
    /\ shown' = IF isKnown THEN shown \cup {"auth"} ELSE shown \ {"auth"}
    /\ ownTimers' = IF isKnown THEN ownTimers \cup {"auth"} ELSE ownTimers \ {"auth"}
    /\ UNCHANGED <<optionVars, deviceVars, occupied, eventTimers, published, delayedUpdates>>

\* addEventHandler of the camera: its door was unlocked.
UnlockEvent ==
    /\ Emitted /\ life \in Listening
    /\ shown' = shown \cup {"unlock"}
    /\ ownTimers' = ownTimers \cup {"unlock"}
    /\ UNCHANGED <<optionVars, deviceVars, occupied, eventTimers, published, delayedUpdates>>

-----------------------------------------------------------------------------
(* Timers.                                                                 *)

\* MQTT is told by the device's MAC address that it is over.
Unpublished(key) == published \ {key}

\* What a callback of resetTimer ends: the services of the life it was made in, and what
\* MQTT was told.
TimerEnds(key) ==
    /\ Pending(key)
    /\ shown' = IF eventTimers[key] = life
                THEN shown \ ({key} \cup (IF key = "motion" THEN {"motionTrigger"} ELSE {}))
                ELSE shown
    /\ occupied' = IF key = "occupancy" THEN occupied \ {eventTimers[key]} ELSE occupied
    /\ isRinging' = IF key = "ringTrigger" /\ eventTimers[key] = life THEN FALSE ELSE isRinging
    /\ published' = Unpublished(key)
    /\ eventTimers' = [eventTimers EXCEPT ![key] = 0]
    /\ UNCHANGED <<optionVars, lifeVars, detectMotion, ownTimers, delayedUpdates, events>>

OwnTimerEnds(key) ==
    /\ key \in ownTimers
    /\ shown' = shown \ {key}
    /\ ownTimers' = ownTimers \ {key}
    /\ UNCHANGED <<optionVars, deviceVars, occupied, eventTimers, published, delayedUpdates, events>>

\* The correction of a trigger switch, whatever has happened since.
DelayedUpdate(u) ==
    /\ u \in delayedUpdates
    /\ delayedUpdates' = delayedUpdates \ {u}
    /\ shown' = CASE u = "motionOff" -> shown \ {"motionTrigger"}
                  [] u = "motionOn"  -> shown \cup {"motionTrigger"}
                  [] u = "ringOn"    -> shown \cup {"ringTrigger"}
    /\ UNCHANGED <<optionVars, deviceVars, occupied, eventTimers, ownTimers, published, events>>

-----------------------------------------------------------------------------
(* The device.                                                             *)

\* cleanup of a camera and a doorbell: their own timers are cleared, and the listeners they
\* have by now; what is being configured goes on.
Removed ==
    /\ life # 0
    /\ life' = 0
    /\ place' = [place EXCEPT ![life] = 0]
    /\ shown' = {} /\ delayedUpdates' = {} /\ isRinging' = FALSE
    /\ ownTimers' = {}
    /\ UNCHANGED <<optionVars, lives, configuring, detectMotion, occupied, eventTimers,
                   published, events>>

\* The constructor, of a device the controller knows by the same id as before or by another
\* one, which no earlier life listens to: its accessory is a new one.
Made(isSameId) ==
    /\ life = 0 /\ lives < MaxLives
    /\ life' = lives + 1 /\ lives' = lives + 1
    /\ configuring' = (IF isSameId THEN configuring ELSE {}) \cup {lives + 1}
    /\ place' = IF isSameId THEN place ELSE [l \in Lives |-> 0]
    /\ UNCHANGED <<optionVars, detectMotion, isRinging, shown, occupied, eventTimers,
                   ownTimers, published, delayedUpdates, events>>

\* The configuration of life l is over, and it listens from now on, whether it is still
\* there or not.  One that fails on the way is never over.
Subscribes(l) ==
    /\ l \in configuring
    /\ configuring' = configuring \ {l}
    /\ \E last \in Lives \cup {0} :
        /\ \A m \in Lives : place[m] <= last
        /\ last # 0 => last \in {place[m] : m \in Lives}
        /\ place' = [place EXCEPT ![l] = last + 1]
    /\ UNCHANGED <<optionVars, life, lives, detectMotion, isRinging, shown, occupied,
                   eventTimers, ownTimers, published, delayedUpdates, events>>

\* The controller switches a sensor's motion detection off and on: its services are made
\* anew (updateDevice of protect-sensor.ts, configureMotionSensor).  A sensor configures
\* itself at once, and has no objects and no bell.
SensorSwitched ==
    /\ life # 0 /\ lives < MaxLives
    /\ Listening = {life} /\ configuring = {}
    /\ life' = lives + 1 /\ lives' = lives + 1
    /\ place' = [place EXCEPT ![life] = 0, ![lives + 1] = 1]
    /\ shown' = shown \ {"motion", "motionTrigger"}
    /\ occupied' = occupied \ {life}
    /\ shown \cap {"object", "plate", "ringTrigger"} = {} /\ ~isRinging
    /\ ownTimers = {} /\ delayedUpdates = {}
    /\ UNCHANGED <<optionVars, configuring, detectMotion, isRinging, eventTimers, ownTimers,
                   published, delayedUpdates, events>>

Timers == (\E k \in EventKeys : TimerEnds(k)) \/ (\E k \in OwnKeys : OwnTimerEnds(k))

Next ==
    \/ MotionEvent \/ MqttMotion
    \/ SetMotionSwitch \/ MotionTriggerOn \/ MotionTriggerOff
    \/ RingEvent \/ MqttRing \/ UnlockEvent
    \/ \E isOn \in BOOLEAN : SetDoorbellTrigger(isOn) \/ AuthEvent(isOn)
    \/ Timers
    \/ \E u \in {"motionOff", "motionOn", "ringOn"} : DelayedUpdate(u)
    \/ Removed \/ SensorSwitched
    \/ \E isSameId \in BOOLEAN : Made(isSameId)
    \/ \E l \in Lives : Subscribes(l)

Spec == Init /\ [][Next]_vars

-----------------------------------------------------------------------------
(* What the timers promise.                                                *)

\* The trigger switches, which HomeKit sets as well, may be late.
TimedSensors == Indicators \ (OwnKeys \cup {"motionTrigger", "ringTrigger"})

\* A timer is pending for everything the device shows, whose callback knows this very life.
ShownIsTimed ==
    /\ \A k \in shown \cap TimedSensors : eventTimers[k] = life
    /\ life \in occupied => eventTimers["occupancy"] = life
    /\ isRinging => eventTimers["ringTrigger"] = life

\* What is detected ends.  As long as a sensor shows something, a timer is pending whose
\* callback knows this very sensor, though timers outlive the device that set them
\* (resetTimer, cleanup), unless an object that was removed while it was configured listens
\* as well; the sensors with timers of their own have them in any case; and for what MQTT
\* was told is detected one is pending that will tell it is over, also when the device is
\* gone, and whoever listens.
DetectionsEnd ==
    /\ Listening \subseteq {life} => ShownIsTimed
    /\ shown \cap OwnKeys = ownTimers
    /\ \A topic \in published : Pending(topic)

=============================================================================
