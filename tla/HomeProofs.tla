------------------------------ MODULE HomeProofs ------------------------------
(***************************************************************************)
(* What a controller, HomeKit, an MQTT broker and the pages of the         *)
(* configuration interface have of each other stays in agreement, for any  *)
(* accessories, states, settings, topics, streams, options and channels:   *)
(* each part's inductive invariant, and then the promise of the parts      *)
(* together, which the instances of MCHome check.                          *)
(***************************************************************************)
EXTENDS DeviceSyncProofs, ControllerApiProofs, FiniteSetTheorems, SequenceTheorems, SetInduction

-----------------------------------------------------------------------------
(* MQTT.                                                                   *)

LEMMA MqttTimersAgree ==
    ASSUME Mqtt!TimersAgree, [Mqtt!Next]_(Mqtt!vars)
    PROVE  Mqtt!TimersAgree'
<1> USE DEF Mqtt!TimersAgree
<1>1. CASE Mqtt!ReconnectTimerFires
  BY <1>1 DEF Mqtt!ReconnectTimerFires
<1>2. CASE Mqtt!Connects
  BY <1>2 DEF Mqtt!Connects, Mqtt!timerVars
<1>3. CASE Mqtt!FallsSilent
  BY <1>3 DEF Mqtt!FallsSilent, Mqtt!timerVars
<1>4. CASE Mqtt!Closes
  BY <1>4 DEF Mqtt!Closes, Mqtt!Reconnects
<1>5. CASE Mqtt!ConnectTimerFires
  BY <1>5 DEF Mqtt!ConnectTimerFires, Mqtt!timerVars
<1>6. CASE Mqtt!KeepaliveFires
  BY <1>6 DEF Mqtt!KeepaliveFires, Mqtt!timerVars
<1>7. ASSUME NEW isNotFound \in BOOLEAN, Mqtt!Fails(isNotFound)
      PROVE  Mqtt!TimersAgree'
  BY <1>7 DEF Mqtt!Fails, Mqtt!timerVars
<1>8. CASE Mqtt!Connack
  BY <1>8 DEF Mqtt!Connack, Mqtt!Receives
<1>9. CASE Mqtt!BadPacket
  BY <1>9 DEF Mqtt!BadPacket, Mqtt!Receives
<1>10. CASE Mqtt!Packet
  BY <1>10 DEF Mqtt!Packet, Mqtt!Receives
<1>11. CASE Mqtt!Publish
  BY <1>11 DEF Mqtt!Publish, Mqtt!socketVars, Mqtt!timerVars
<1>12. CASE Mqtt!End
  BY <1>12 DEF Mqtt!End
<1>13. ASSUME NEW t \in MqttTopics, Mqtt!Subscribe(t) \/ Mqtt!Unsubscribe(t)
       PROVE  Mqtt!TimersAgree'
  BY <1>13 DEF Mqtt!Subscribe, Mqtt!Unsubscribe, Mqtt!socketVars, Mqtt!timerVars
<1>14. CASE UNCHANGED Mqtt!vars
  BY <1>14 DEF Mqtt!vars, Mqtt!socketVars, Mqtt!timerVars
<1> QED
  BY <1>1, <1>2, <1>3, <1>4, <1>5, <1>6, <1>7, <1>8, <1>9, <1>10, <1>11, <1>12, <1>13, <1>14
  DEF Mqtt!Next

\* There is one attempt to reconnect at a time, none once the connection was ended, and a
\* handshake or a connection is never unwatched, whatever the broker, the network and the
\* plugin do in what order (open, teardownSocket, scheduleReconnect, startKeepalive, end).
THEOREM TimersStayInAgreement == Mqtt!Spec => []Mqtt!TimersAgree
<1>1. Mqtt!Init => Mqtt!TimersAgree
  BY DEF Mqtt!Init, Mqtt!TimersAgree
<1>2. Mqtt!TimersAgree /\ [Mqtt!Next]_(Mqtt!vars) => Mqtt!TimersAgree'
  BY MqttTimersAgree
<1> QED
  BY <1>1, <1>2, PTL DEF Mqtt!Spec

-----------------------------------------------------------------------------
(* Subscriptions.                                                          *)

\* What waits is for a handshake that is yet to come, on a socket that is there; and what
\* waits to be unsubscribed from is not asked for, unless it was again.
SubscriptionInv ==
    /\ queuedPackets \in Seq(MqttTopics \cup {"publish"})
    /\ socket \in {"none", "connecting"} => ~connected
    /\ connected \/ socket = "none" => queuedPackets = <<>>
    /\ Mqtt!IsWritable => \A t \in Mqtt!Unsubscribed \ renewed : t \notin subscribedTopics
    /\ Mqtt!SubscriptionsHold

LEMMA RangeOfAppend ==
    ASSUME NEW S, NEW s \in Seq(S), NEW e \in S
    PROVE  Append(s, e) \in Seq(S) /\ Mqtt!Range(Append(s, e)) = Mqtt!Range(s) \cup {e}
<1> DEFINE n == Len(s)
           longer == Append(s, e)
<1>1. /\ n \in Nat /\ DOMAIN s = 1 .. n /\ longer \in Seq(S)
      /\ DOMAIN longer = 1 .. n + 1 /\ longer[n + 1] = e
      /\ \A i \in 1 .. n : longer[i] = s[i]
  OBVIOUS
<1> HIDE DEF n, longer
<1>2. \A i \in 1 .. n + 1 : i \in 1 .. n \/ i = n + 1
  BY <1>1
<1>3. Mqtt!Range(longer) = Mqtt!Range(s) \cup {e}
  <2>1. \A x \in Mqtt!Range(longer) : x \in Mqtt!Range(s) \cup {e}
    BY <1>1, <1>2 DEF Mqtt!Range
  <2>2. \A x \in Mqtt!Range(s) \cup {e} : x \in Mqtt!Range(longer)
    <3>1. 1 .. n \subseteq 1 .. n + 1 /\ n + 1 \in 1 .. n + 1
      BY <1>1
    <3> QED
      BY <1>1, <3>1 DEF Mqtt!Range
  <2> QED
    BY <2>1, <2>2
<1> QED
  BY <1>1, <1>3 DEF longer

LEMMA RangeOfEmpty == Mqtt!Range(<<>>) = {}
BY DEF Mqtt!Range

LEMMA SubscriptionsNext ==
    ASSUME Mqtt!TimersAgree, SubscriptionInv, [Mqtt!Next]_(Mqtt!vars)
    PROVE  SubscriptionInv'
<1> USE MqttAssumption
    DEF SubscriptionInv, Mqtt!SubscriptionsHold, Mqtt!IsWritable, Mqtt!Unsubscribed
<1>1. CASE Mqtt!ReconnectTimerFires
  BY <1>1, RangeOfEmpty DEF Mqtt!ReconnectTimerFires, Mqtt!topicVars, Mqtt!TimersAgree
<1>2. CASE Mqtt!Connects
  BY <1>2 DEF Mqtt!Connects
<1>3. CASE Mqtt!FallsSilent
  BY <1>3 DEF Mqtt!FallsSilent, Mqtt!topicVars
<1>4. CASE Mqtt!Closes
  BY <1>4, RangeOfEmpty DEF Mqtt!Closes, Mqtt!DropsQueue
<1>5. CASE Mqtt!ConnectTimerFires
  BY <1>5 DEF Mqtt!ConnectTimerFires, Mqtt!topicVars
<1>6. CASE Mqtt!KeepaliveFires
  BY <1>6 DEF Mqtt!KeepaliveFires, Mqtt!topicVars
<1>7. ASSUME NEW isNotFound \in BOOLEAN, Mqtt!Fails(isNotFound)
      PROVE  SubscriptionInv'
  BY <1>7 DEF Mqtt!Fails, Mqtt!topicVars
<1>8. CASE Mqtt!Connack
  BY <1>8, RangeOfEmpty DEF Mqtt!Connack, Mqtt!Receives, Mqtt!Restores
<1>9. CASE Mqtt!BadPacket
  BY <1>9 DEF Mqtt!BadPacket, Mqtt!Receives, Mqtt!topicVars
<1>10. CASE Mqtt!Packet
  BY <1>10 DEF Mqtt!Packet, Mqtt!Receives, Mqtt!topicVars
<1>11. CASE Mqtt!Publish
  <2>1. UNCHANGED <<Mqtt!socketVars, subscribedTopics, brokerTopics, renewed>>
    BY <1>11 DEF Mqtt!Publish
  <2>2. CASE Mqtt!Queues
    <3>1. queuedPackets' = Append(queuedPackets, "publish")
      BY <1>11, <2>2 DEF Mqtt!Publish
    <3>2. /\ queuedPackets' \in Seq(MqttTopics \cup {"publish"})
          /\ Mqtt!Unsubscribed' = Mqtt!Unsubscribed
      BY <3>1, RangeOfAppend
    <3> QED
      BY <2>1, <2>2, <3>2 DEF Mqtt!Queues, Mqtt!socketVars
  <2>3. CASE ~Mqtt!Queues
    BY <1>11, <2>1, <2>3 DEF Mqtt!Publish, Mqtt!socketVars
  <2> QED
    BY <2>2, <2>3
<1>12. CASE Mqtt!End
  BY <1>12 DEF Mqtt!End, Mqtt!topicVars
<1>13. ASSUME NEW t \in MqttTopics, Mqtt!Subscribe(t)
       PROVE  SubscriptionInv'
  <2>1. /\ UNCHANGED <<Mqtt!socketVars, queuedPackets>>
        /\ subscribedTopics' = subscribedTopics \cup {t}
    BY <1>13 DEF Mqtt!Subscribe
  <2>2. CASE connected
    <3>1. renewed' = renewed \ {t} /\ Mqtt!Unsubscribed = {}
      BY <1>13, <2>2, RangeOfEmpty DEF Mqtt!Subscribe
    <3>2. brokerTopics' = IF socket = "open" THEN brokerTopics \cup {t} ELSE brokerTopics
      BY <1>13, <2>2 DEF Mqtt!Subscribe
    <3> QED
      BY <2>1, <2>2, <3>1, <3>2, RangeOfEmpty DEF Mqtt!socketVars
  <2>3. CASE ~connected
    <3>1. renewed' = IF Mqtt!Queues /\ t \in Mqtt!Unsubscribed THEN renewed \cup {t} ELSE renewed
      BY <1>13, <2>3 DEF Mqtt!Subscribe
    <3> QED
      BY <2>1, <2>3, <3>1 DEF Mqtt!Queues, Mqtt!socketVars
  <2> QED
    BY <2>2, <2>3
<1>14. ASSUME NEW t \in MqttTopics, Mqtt!Unsubscribe(t)
       PROVE  SubscriptionInv'
  BY <1>14, RangeOfAppend DEF Mqtt!Unsubscribe, Mqtt!Queues, Mqtt!socketVars
<1>15. CASE UNCHANGED Mqtt!vars
  BY <1>15 DEF Mqtt!vars, Mqtt!socketVars, Mqtt!topicVars
<1> QED
  BY <1>1, <1>2, <1>3, <1>4, <1>5, <1>6, <1>7, <1>8, <1>9, <1>10, <1>11, <1>12, <1>13, <1>14,
     <1>15 DEF Mqtt!Next

\* Once the handshake is over the broker has exactly the subscriptions that were asked for,
\* but for topics that were given up and asked for again during one handshake, over any
\* number of reconnects (processPacket, subscribe, unsubscribe, teardownSocket).
LEMMA SubscriptionsStay == Mqtt!Init /\ [][Mqtt!Next]_(Mqtt!vars) => []SubscriptionsHold
<1>1. Mqtt!Init => Mqtt!TimersAgree /\ SubscriptionInv
  BY RangeOfEmpty DEF Mqtt!Init, Mqtt!TimersAgree, SubscriptionInv, Mqtt!SubscriptionsHold,
         Mqtt!IsWritable, Mqtt!Unsubscribed
<1>2. Mqtt!TimersAgree /\ SubscriptionInv /\ [Mqtt!Next]_(Mqtt!vars)
        => (Mqtt!TimersAgree /\ SubscriptionInv)'
  BY MqttTimersAgree, SubscriptionsNext
<1>3. SubscriptionInv => SubscriptionsHold
  BY DEF SubscriptionInv, SubscriptionsHold
<1> QED
  BY <1>1, <1>2, <1>3, PTL

\* So it is whether or not the broker ever answers (processPacket).
THEOREM SubscriptionsAlwaysHold == Mqtt!Spec => []SubscriptionsHold
BY SubscriptionsStay, PTL DEF Mqtt!Spec

-----------------------------------------------------------------------------
(* Detections.                                                             *)

\* What is gone shows and rings nothing, and only lives there have been listen.
DetectionsInv ==
    /\ lives \in Nat /\ lives <= MaxLives /\ life \in {0, lives}
    /\ configuring \subseteq 1 .. lives /\ Timers!Listening \subseteq 1 .. lives
    /\ place \in [Timers!Lives -> Nat]
    /\ occupied \subseteq 1 .. lives
    /\ detected \subseteq Timers!Indicators
    /\ eventTimers \in [Timers!EventKeys -> Nat]
    /\ published \subseteq Timers!Topics
    /\ life = 0 => detected = {} /\ ~isRinging /\ ownTimers = {} /\ delayedUpdates = {}
    /\ Timers!DetectionsEnd

\* Motion, on whatever lives handle it: as long as nobody but the device listens, it is the
\* device, or one that is gone and that HomeKit does not see.
LEMMA DetectsIsTimed ==
    ASSUME DetectionsInv, NEW heard \in SUBSET (1 .. lives),
           NEW objects \in SUBSET {"object", "plate", "occupancy"},
           Timers!Listening \subseteq {life} => heard \subseteq {lives},
           Timers!Detects(heard, objects),
           UNCHANGED <<life, lives, configuring, place, isRinging, ownTimers>>,
           life # 0 \/ UNCHANGED delayedUpdates
    PROVE  DetectionsInv'
<1> DEFINE keys == Timers!DetectedKeys(objects)
           new == Timers!Announces(keys)
           triggering == {l \in heard : detectMotion[l]}
<1>1. keys \subseteq {"motion", "object", "plate", "occupancy"}
  BY DEF Timers!DetectedKeys
<1>2. new \subseteq keys /\ new \subseteq {"motion", "object", "plate"}
  BY <1>1 DEF Timers!Announces
<1>3. Timers!Listening' = Timers!Listening /\ triggering \subseteq 1 .. lives
  BY DEF Timers!Listening
<1>4. CASE triggering = {}
  <2>1. UNCHANGED <<detected, occupied, published, eventTimers>>
    BY <1>4 DEF Timers!Detects
  <2> QED
    BY <1>3, <2>1 DEF DetectionsInv, Timers!DetectionsEnd, Timers!ShownIsTimed, Timers!Pending
<1>5. CASE triggering # {}
  <2>1. PICK first \in triggering, last \in triggering :
            /\ detected' = IF first = life THEN detected \cup Timers!Shows(new) ELSE detected
            /\ occupied' = IF "occupancy" \in keys THEN occupied \cup triggering ELSE occupied
            /\ published' = published \cup (new \cap Timers!Topics) \cup
                   (IF Timers!AnnouncesOccupancy(triggering, keys) THEN {"occupancy"} ELSE {})
            /\ eventTimers' = [k \in Timers!EventKeys |-> IF k \in keys THEN last
                                                                        ELSE eventTimers[k]]
    BY <1>5 DEF Timers!Detects, Timers!ResetTimers
  <2>2. /\ last \in Nat \ {0} /\ first \in Nat \ {0}
        /\ Timers!Listening \subseteq {life} => first = lives /\ last = lives
    BY DEF DetectionsInv
  <2>3. Timers!AnnouncesOccupancy(triggering, keys) => "occupancy" \in keys
    BY DEF Timers!AnnouncesOccupancy
  <2> HIDE DEF keys, new, triggering
  <2>4. Timers!Shows(new) \subseteq new \cup {"motionTrigger"}
    BY DEF Timers!Shows
  <2>5. /\ detected' \subseteq Timers!Indicators
        /\ detected' \cap Timers!OwnKeys = detected \cap Timers!OwnKeys
        /\ life = 0 => detected' = detected
    BY <1>2, <2>1, <2>2, <2>4 DEF DetectionsInv, Timers!OwnKeys, Timers!Indicators
  <2>6. occupied' \subseteq 1 .. lives
    BY <1>3, <2>1 DEF DetectionsInv
  <2>7. eventTimers' \in [Timers!EventKeys -> Nat]
    BY <2>1, <2>2 DEF DetectionsInv
  <2>8. /\ published' \subseteq Timers!Topics
        /\ \A topic \in published' : topic \in published \/ topic \in keys
    BY <1>2, <2>1, <2>3 DEF DetectionsInv, Timers!Topics
  <2>9. ASSUME NEW topic \in published'
        PROVE  eventTimers'[topic] # 0
    <3>1. topic \in Timers!EventKeys
      BY <2>8 DEF Timers!EventKeys, Timers!Topics
    <3>2. topic \in published => eventTimers[topic] # 0
      BY DEF DetectionsInv, Timers!DetectionsEnd, Timers!Pending
    <3> QED
      BY <2>1, <2>2, <2>8, <3>1, <3>2
  <2>10. ASSUME Timers!Listening \subseteq {life}
         PROVE  Timers!ShownIsTimed'
    <3>1. Timers!ShownIsTimed
      BY <2>10 DEF DetectionsInv, Timers!DetectionsEnd
    <3>2. ASSUME NEW k \in detected' \cap Timers!TimedSensors
          PROVE  eventTimers'[k] = life
      <4>1. k \in Timers!EventKeys
        BY DEF Timers!TimedSensors, Timers!Indicators, Timers!OwnKeys, Timers!EventKeys
      <4>2. CASE life = lives
        <5>1. k \in detected \/ k \in keys
          BY <1>2, <2>1, <2>4 DEF Timers!TimedSensors
        <5>2. k \in detected => eventTimers[k] = life
          BY <3>1 DEF Timers!ShownIsTimed
        <5> QED
          BY <2>1, <2>2, <2>10, <4>1, <4>2, <5>1, <5>2
      <4>3. CASE life # lives
        <5>1. detected' = {}
          BY <2>5, <4>3 DEF DetectionsInv
        <5> QED
          BY <5>1
      <4> QED
        BY <4>2, <4>3
    <3>3. life \in occupied' => eventTimers'["occupancy"] = life
      <4>1. "occupancy" \in Timers!EventKeys /\ 0 \notin occupied'
        BY <2>6 DEF Timers!EventKeys
      <4>2. life \in occupied => eventTimers["occupancy"] = life
        BY <3>1 DEF Timers!ShownIsTimed
      <4>3. life = 0 \/ life = lives
        BY DEF DetectionsInv
      <4> QED
        BY <2>1, <2>2, <2>10, <4>1, <4>2, <4>3
    <3>4. isRinging' => eventTimers'["ringTrigger"] = life
      BY <1>1, <2>1, <3>1 DEF Timers!ShownIsTimed, Timers!EventKeys
    <3> QED
      BY <3>2, <3>3, <3>4 DEF Timers!ShownIsTimed, Timers!TimedSensors
  <2> QED
    BY <1>3, <2>5, <2>6, <2>7, <2>8, <2>9, <2>10
       DEF DetectionsInv, Timers!DetectionsEnd, Timers!Pending
<1> QED
  BY <1>4, <1>5

\* A ring, on whatever lives handle it.
LEMMA RingsIsTimed ==
    ASSUME DetectionsInv, NEW heard \in SUBSET (1 .. lives),
           Timers!Listening \subseteq {life} => heard \subseteq {lives},
           Timers!Rings(heard),
           UNCHANGED <<life, lives, configuring, place, occupied, ownTimers, delayedUpdates>>
    PROVE  DetectionsInv'
<1>1. Timers!Listening' = Timers!Listening
  BY DEF Timers!Listening
<1>2. CASE Timers!Pending("ring")
  BY <1>1, <1>2 DEF Timers!Rings, DetectionsInv, Timers!DetectionsEnd, Timers!ShownIsTimed,
                    Timers!Pending
<1>3. CASE ~Timers!Pending("ring")
  <2>1. PICK first \in heard, last \in heard :
            /\ IF life \in (IF ringDelay THEN {first} ELSE heard)
               THEN isRinging' = TRUE /\ detected' = detected \cup {"ringTrigger"}
               ELSE UNCHANGED <<isRinging, detected>>
            /\ published' = published \cup {"ringMqtt"}
            /\ Timers!ResetTimers(IF ringDelay THEN first ELSE last, Timers!RingKeys)
    BY <1>3 DEF Timers!Rings
  <2> DEFINE ringing == IF ringDelay THEN first ELSE last
             keys == Timers!RingKeys
  <2>2. /\ ringing \in Nat \ {0} /\ ringing \in heard
        /\ Timers!Listening \subseteq {life} => ringing = lives
    BY DEF DetectionsInv
  <2>3. /\ {"ringTrigger", "ringMqtt"} \subseteq keys
        /\ keys \subseteq {"ringTrigger", "ringMqtt", "ring"}
    BY DEF Timers!RingKeys
  <2>4. eventTimers' = [k \in Timers!EventKeys |-> IF k \in keys THEN ringing
                                                                 ELSE eventTimers[k]]
    BY <2>1 DEF Timers!ResetTimers
  <2>5. life = 0 => UNCHANGED <<isRinging, detected>>
    BY <2>1
  <2>6. /\ detected' \subseteq detected \cup {"ringTrigger"} /\ detected \subseteq detected'
        /\ published' = published \cup {"ringMqtt"}
    BY <2>1
  <2> HIDE DEF ringing, keys
  <2>7. /\ detected' \subseteq Timers!Indicators
        /\ detected' \cap Timers!OwnKeys = detected \cap Timers!OwnKeys
    BY <2>6 DEF DetectionsInv, Timers!OwnKeys, Timers!Indicators
  <2>8. eventTimers' \in [Timers!EventKeys -> Nat]
    BY <2>2, <2>4 DEF DetectionsInv
  <2>9. ASSUME NEW topic \in published'
        PROVE  topic \in Timers!Topics /\ eventTimers'[topic] # 0
    <3>1. topic \in Timers!Topics /\ topic \in Timers!EventKeys
      BY <2>6 DEF DetectionsInv, Timers!EventKeys, Timers!Topics
    <3>2. topic \in published => eventTimers[topic] # 0
      BY DEF DetectionsInv, Timers!DetectionsEnd, Timers!Pending
    <3> QED
      BY <2>2, <2>3, <2>4, <2>6, <3>1, <3>2
  <2>10. ASSUME Timers!Listening \subseteq {life}
         PROVE  Timers!ShownIsTimed'
    <3>1. Timers!ShownIsTimed
      BY <2>10 DEF DetectionsInv, Timers!DetectionsEnd
    <3>2. ASSUME NEW k \in detected' \cap Timers!TimedSensors
          PROVE  eventTimers'[k] = life
      <4>1. k \in Timers!EventKeys /\ k \in detected /\ k \notin keys
        BY <2>3, <2>6
           DEF Timers!TimedSensors, Timers!Indicators, Timers!OwnKeys, Timers!EventKeys
      <4> QED
        BY <2>4, <3>1, <4>1 DEF Timers!ShownIsTimed
    <3>3. life \in occupied' => eventTimers'["occupancy"] = life
      BY <2>3, <2>4, <3>1 DEF Timers!ShownIsTimed, Timers!EventKeys
    <3>4. isRinging' => eventTimers'["ringTrigger"] = life
      <4>1. eventTimers'["ringTrigger"] = lives
        BY <2>2, <2>3, <2>4, <2>10 DEF Timers!EventKeys
      <4>2. isRinging' => life # 0
        BY <2>5 DEF DetectionsInv
      <4> QED
        BY <4>1, <4>2 DEF DetectionsInv
    <3> QED
      BY <3>2, <3>3, <3>4 DEF Timers!ShownIsTimed, Timers!TimedSensors
  <2> QED
    BY <1>1, <2>5, <2>7, <2>8, <2>9, <2>10
       DEF DetectionsInv, Timers!DetectionsEnd, Timers!Pending
<1> QED
  BY <1>2, <1>3

LEMMA DetectionsNext ==
    ASSUME DetectionsInv, [Timers!Next]_(Timers!vars)
    PROVE  DetectionsInv'
<1> USE DEF DetectionsInv, Timers!DetectionsEnd, Timers!Pending, Timers!ShownIsTimed,
            Timers!TimedSensors, Timers!Listening, Timers!optionVars, Timers!deviceVars,
            Timers!lifeVars, Timers!Happens, Timers!Emitted, Timers!HomeKitSets
<1>0. /\ Timers!Listening \in SUBSET (1 .. lives) /\ life \in {0, lives}
      /\ lives # 0 => {lives} \in SUBSET (1 .. lives)
      /\ life # 0 => {life} = {lives}
      /\ Timers!Listening \subseteq {life} => Timers!Listening \subseteq {lives}
  OBVIOUS
<1>1. CASE Timers!MotionEvent
  <2>1. PICK objects \in SUBSET {"object", "plate", "occupancy"} :
            Timers!Detects(Timers!Listening, objects)
    BY <1>1 DEF Timers!MotionEvent
  <2>2. UNCHANGED <<life, lives, configuring, place, isRinging, ownTimers, delayedUpdates>>
    BY <1>1 DEF Timers!MotionEvent
  <2> QED
    BY ONLY DetectionsInv, <1>0, <2>1, <2>2, DetectsIsTimed
<1>2. CASE Timers!MqttMotion
  <2>1. /\ lives # 0 /\ Timers!Detects({lives}, {})
        /\ UNCHANGED <<life, lives, configuring, place, isRinging, ownTimers, delayedUpdates>>
    BY <1>2 DEF Timers!MqttMotion
  <2> QED
    BY ONLY DetectionsInv, <1>0, <2>1, DetectsIsTimed
<1>3. CASE Timers!SetMotionSwitch
  BY <1>3 DEF Timers!SetMotionSwitch
<1>4. CASE Timers!MotionTriggerOn
  <2>1. /\ life # 0
        /\ UNCHANGED <<life, lives, configuring, place, isRinging, ownTimers>>
    BY <1>4 DEF Timers!MotionTriggerOn
  <2>2. CASE detectMotion[life]
    <3>1. Timers!Detects({life}, {})
      BY <1>4, <2>2 DEF Timers!MotionTriggerOn
    <3> QED
      BY ONLY DetectionsInv, <1>0, <2>1, <3>1, DetectsIsTimed
  <2>3. CASE ~detectMotion[life]
    <3>1. detected' = detected \cup {"motionTrigger"} /\ UNCHANGED <<occupied, published, eventTimers>>
      BY <1>4, <2>3 DEF Timers!MotionTriggerOn
    <3> QED
      BY <2>1, <3>1 DEF Timers!Indicators, Timers!OwnKeys
  <2> QED
    BY <2>2, <2>3
<1>5. CASE Timers!MotionTriggerOff
  BY <1>5 DEF Timers!MotionTriggerOff, Timers!OwnKeys
<1>6. CASE Timers!RingEvent
  <2>1. /\ Timers!Rings(Timers!Listening)
        /\ UNCHANGED <<life, lives, configuring, place, occupied, ownTimers, delayedUpdates>>
    BY <1>6 DEF Timers!RingEvent
  <2> QED
    BY ONLY DetectionsInv, <1>0, <2>1, RingsIsTimed
<1>7. CASE Timers!MqttRing
  <2>1. /\ lives # 0 /\ Timers!Rings({lives})
        /\ UNCHANGED <<life, lives, configuring, place, occupied, ownTimers, delayedUpdates>>
    BY <1>7 DEF Timers!MqttRing
  <2> QED
    BY ONLY DetectionsInv, <1>0, <2>1, RingsIsTimed
<1>8. ASSUME NEW isOn \in BOOLEAN, Timers!SetDoorbellTrigger(isOn)
      PROVE  DetectionsInv'
  <2>1. life # 0 /\ UNCHANGED <<life, lives, configuring, place, occupied, ownTimers>>
    BY <1>8 DEF Timers!SetDoorbellTrigger
  <2>2. CASE isOn
    <3>1. Timers!Rings({life}) /\ UNCHANGED delayedUpdates
      BY <1>8, <2>2 DEF Timers!SetDoorbellTrigger
    <3> QED
      BY ONLY DetectionsInv, <1>0, <2>1, <3>1, RingsIsTimed
  <2>3. CASE ~isOn
    <3>1. detected' = detected \ {"ringTrigger"} /\ UNCHANGED <<isRinging, published, eventTimers>>
      BY <1>8, <2>3 DEF Timers!SetDoorbellTrigger
    <3> QED
      BY <2>1, <3>1 DEF Timers!OwnKeys
  <2> QED
    BY <2>2, <2>3
<1>9. ASSUME NEW isKnown \in BOOLEAN, Timers!AuthEvent(isKnown)
      PROVE  DetectionsInv'
  BY <1>9 DEF Timers!AuthEvent, Timers!OwnKeys, Timers!Indicators
<1>10. CASE Timers!UnlockEvent
  BY <1>10 DEF Timers!UnlockEvent, Timers!OwnKeys, Timers!Indicators
<1>11. ASSUME NEW key \in Timers!EventKeys, Timers!TimerEnds(key)
       PROVE  DetectionsInv'
  <2>1. /\ UNCHANGED <<life, lives, configuring, place, ownTimers, delayedUpdates>>
        /\ detected' = IF eventTimers[key] = life
                       THEN detected \ ({key} \cup (IF key = "motion" THEN {"motionTrigger"}
                                                                    ELSE {}))
                       ELSE detected
        /\ occupied' = IF key = "occupancy" THEN occupied \ {eventTimers[key]} ELSE occupied
        /\ isRinging' = IF key = "ringTrigger" /\ eventTimers[key] = life THEN FALSE
                                                                         ELSE isRinging
        /\ published' = published \ {key}
        /\ eventTimers' = [eventTimers EXCEPT ![key] = 0]
    BY <1>11 DEF Timers!TimerEnds, Timers!Unpublished
  <2>2. /\ eventTimers' \in [Timers!EventKeys -> Nat]
        /\ \A k \in Timers!EventKeys : k # key => eventTimers'[k] = eventTimers[k]
    BY ONLY <1>11, <2>1, DetectionsInv DEF DetectionsInv
  <2>3. \A topic \in published' : topic \in Timers!EventKeys /\ eventTimers'[topic] # 0
    BY <2>1, <2>2 DEF Timers!Topics, Timers!EventKeys
  <2>4. /\ detected' \subseteq detected /\ detected' \cap Timers!OwnKeys = detected \cap Timers!OwnKeys
        /\ occupied' \subseteq occupied /\ isRinging' => isRinging
    BY <2>1 DEF Timers!EventKeys, Timers!OwnKeys
  <2>5. ASSUME Timers!Listening \subseteq {life}
        PROVE  Timers!ShownIsTimed'
    <3>1. ASSUME NEW k \in detected' \cap Timers!TimedSensors
          PROVE  eventTimers'[k] = life
      <4>1. k \in Timers!EventKeys /\ k \in detected /\ eventTimers[k] = life
        BY <2>4, <2>5 DEF Timers!EventKeys, Timers!Indicators, Timers!OwnKeys
      <4>2. k # key
        BY <2>1, <4>1
      <4> QED
        BY <2>2, <4>1, <4>2
    <3>2. life \in occupied' => eventTimers'["occupancy"] = life
      <4>1. "occupancy" \in Timers!EventKeys /\ (life \in occupied => eventTimers["occupancy"] = life)
        BY <2>5 DEF Timers!EventKeys
      <4> QED
        BY <2>1, <2>2, <4>1
    <3>3. isRinging' => eventTimers'["ringTrigger"] = life
      <4>1. "ringTrigger" \in Timers!EventKeys /\ (isRinging => eventTimers["ringTrigger"] = life)
        BY <2>5 DEF Timers!EventKeys
      <4> QED
        BY <2>1, <2>2, <4>1
    <3> QED
      BY <2>1, <3>1, <3>2, <3>3
  <2> QED
    BY <2>1, <2>2, <2>3, <2>4, <2>5
<1>12. ASSUME NEW key \in Timers!OwnKeys, Timers!OwnTimerEnds(key)
       PROVE  DetectionsInv'
  BY <1>12 DEF Timers!OwnTimerEnds, Timers!OwnKeys
<1>13. ASSUME NEW u \in {"motionOff", "motionOn", "ringOn"}, Timers!DelayedUpdate(u)
       PROVE  DetectionsInv'
  BY <1>13 DEF Timers!DelayedUpdate, Timers!OwnKeys, Timers!Indicators
<1>14. CASE Timers!Removed
  <2>1. /\ life # 0 /\ life' = 0 /\ lives' = lives /\ place' = [place EXCEPT ![life] = 0]
        /\ detected' = {} /\ delayedUpdates' = {} /\ isRinging' = FALSE /\ ownTimers' = {}
        /\ UNCHANGED <<configuring, occupied, eventTimers, published>>
    BY <1>14 DEF Timers!Removed
  <2>2. place' \in [Timers!Lives -> Nat] /\ Timers!Listening' \subseteq Timers!Listening
    BY ONLY <2>1, DetectionsInv DEF DetectionsInv, Timers!Listening
  <2>3. Timers!ShownIsTimed' /\ ~(0 \in occupied)
    BY <2>1
  <2> QED
    BY <2>1, <2>2, <2>3
<1>15. ASSUME NEW isSameId \in BOOLEAN, Timers!Made(isSameId)
       PROVE  DetectionsInv'
  BY <1>15, TimersAssumption DEF Timers!Made, Timers!Lives
<1>16. ASSUME NEW l \in Timers!Lives, Timers!Subscribes(l)
       PROVE  DetectionsInv'
  BY <1>16 DEF Timers!Subscribes, Timers!Lives
<1>17. CASE Timers!SensorSwitched
  <2>1. /\ life # 0 /\ lives < MaxLives /\ Timers!Listening = {life} /\ configuring = {}
        /\ life' = lives + 1 /\ lives' = lives + 1
        /\ place' = [place EXCEPT ![life] = 0, ![lives + 1] = 1]
        /\ detected' = detected \ {"motion", "motionTrigger"}
        /\ occupied' = occupied \ {life}
        /\ detected \cap {"object", "plate", "ringTrigger"} = {} /\ ~isRinging
        /\ UNCHANGED <<configuring, isRinging, eventTimers, ownTimers, published, delayedUpdates>>
    BY <1>17 DEF Timers!SensorSwitched
  <2>2. lives + 1 \in Timers!Lives /\ lives' \in Nat /\ lives' <= MaxLives
    BY <2>1, TimersAssumption DEF Timers!Lives
  <2>3. place' \in [Timers!Lives -> Nat] /\ Timers!Listening' \subseteq 1 .. lives'
    BY ONLY <2>1, <2>2, DetectionsInv DEF DetectionsInv, Timers!Listening
  <2>4. detected' \cap Timers!TimedSensors = {}
    BY <2>1 DEF Timers!Indicators, Timers!OwnKeys
  <2>5. Timers!ShownIsTimed'
    BY <2>1, <2>4
  <2>6. detected' \cap Timers!OwnKeys = detected \cap Timers!OwnKeys
    BY <2>1 DEF Timers!OwnKeys
  <2> QED
    BY <2>1, <2>2, <2>3, <2>5, <2>6
<1>18. CASE UNCHANGED Timers!vars
  BY <1>18 DEF Timers!vars
<1> QED
  BY <1>1, <1>2, <1>3, <1>4, <1>5, <1>6, <1>7, <1>8, <1>9, <1>10, <1>11, <1>12, <1>13, <1>14,
     <1>15, <1>16, <1>17, <1>18 DEF Timers!Next, Timers!Timers

\* What a sensor shows as detected has a timer that will end it on this very sensor, as long
\* as no object that was removed while it was configured listens as well, and what MQTT was
\* told one that will tell it is over, over any number of events, removals and makings of
\* the device and whoever listens (resetTimer, motionEventDelivery, doorbellEventHandler).
THEOREM DetectionsAlwaysEnd == Timers!Spec => []DetectionsEnd
<1>1. Timers!Init => DetectionsInv
  BY TimersAssumption
     DEF Timers!Init, DetectionsInv, Timers!DetectionsEnd, Timers!ShownIsTimed,
         Timers!TimedSensors, Timers!Indicators, Timers!OwnKeys, Timers!Listening
<1>2. DetectionsInv /\ [Timers!Next]_(Timers!vars) => DetectionsInv'
  BY DetectionsNext
<1>3. DetectionsInv => DetectionsEnd
  BY DEF DetectionsInv, DetectionsEnd
<1> QED
  BY <1>1, <1>2, <1>3, PTL DEF Timers!Spec

-----------------------------------------------------------------------------
(* The security system.                                                    *)

\* HomeKit shows an alarm in place of a state, and no state is called one.
AlarmInv == security \in Scenes!Security /\ Scenes!AlarmAgrees

LEMMA AlarmNext ==
    ASSUME AlarmInv, [Scenes!Next]_(Scenes!vars)
    PROVE  AlarmInv'
<1> USE ScenesAssumption DEF AlarmInv, Scenes!AlarmAgrees, Scenes!Security, Scenes!States
<1>1. ASSUME NEW views, Scenes!Bootstrap(views)
      PROVE  AlarmInv'
  <2>1. security' = Scenes!SecurityConfigured(views)
    BY <1>1 DEF Scenes!Bootstrap
  <2> QED
    BY <2>1 DEF Scenes!SecurityConfigured, Scenes!SecurityMade, Scenes!NewSecurity
<1>2. CASE Scenes!BootstrapLost
  BY <1>2 DEF Scenes!BootstrapLost
<1>3. CASE Scenes!Restart
  BY <1>3 DEF Scenes!Restart
<1>4. ASSUME NEW v \in SwitchViews, NEW value \in BOOLEAN, NEW byMqtt \in BOOLEAN,
             Scenes!SetSwitch(v, value, byMqtt)
      PROVE  AlarmInv'
  BY <1>4 DEF Scenes!SetSwitch
<1>5. ASSUME NEW c \in Cameras, Scenes!SetMotionSwitch(c)
      PROVE  AlarmInv'
  BY <1>5 DEF Scenes!SetMotionSwitch
<1>6. ASSUME NEW s \in Scenes!States, Scenes!SetSecurityState(s)
      PROVE  AlarmInv'
  <2>1. CASE security' = [security EXCEPT !.securityState = s, !.current = s]
    BY <2>1
  <2>2. CASE security' = Scenes!StateSet(s)
    BY <2>2 DEF Scenes!StateSet, Scenes!StateSetAlone
  <2> QED
    BY <1>6, <2>1, <2>2 DEF Scenes!SetSecurityState
<1>7. ASSUME NEW value \in BOOLEAN, Scenes!SetSecurityAlarm(value)
      PROVE  AlarmInv'
  BY <1>7 DEF Scenes!SetSecurityAlarm
<1>8. CASE UNCHANGED Scenes!vars
  BY <1>8 DEF Scenes!vars
<1> QED
  BY <1>1, <1>2, <1>3, <1>4, <1>5, <1>6, <1>7, <1>8 DEF Scenes!Next

\* The alarm's switch is on exactly while the alarm is, and HomeKit shows an alarm only
\* then, for any states and any order of states, alarms, bootstraps and restarts
\* (setSecurityState, setSecurityAlarm, configureSecuritySystem).
THEOREM AlarmStaysInAgreement == Scenes!Spec => []AlarmAgrees
<1>1. Scenes!Init => AlarmInv
  BY DEF Scenes!Init, AlarmInv, Scenes!AlarmAgrees, Scenes!Security, Scenes!States,
         Scenes!NewSecurity
<1>2. AlarmInv /\ [Scenes!Next]_(Scenes!vars) => AlarmInv'
  BY AlarmNext
<1>3. AlarmInv => AlarmAgrees
  BY DEF AlarmInv, AlarmAgrees
<1> QED
  BY <1>1, <1>2, <1>3, PTL DEF Scenes!Spec

-----------------------------------------------------------------------------
(* Scenes.                                                                 *)

\* The loop over the liveviews that are to be configured ends, whatever their number.
LEMMA ScenesAreThere ==
    ASSUME NEW kept, NEW order, NEW views, Len(order) \in Nat
    PROVE  \E scene :
               /\ scene = [n \in 0 .. Len(order) |->
                              IF n = 0 THEN [motion |-> detecting, switches |-> kept]
                              ELSE Scenes!SceneConfigured(scene[n - 1], order[n], views)]
               /\ Scenes!ScenesConfigured(kept, order, views) = scene[Len(order)]
<1> DEFINE first == [motion |-> detecting, switches |-> kept]
           After(f, n) == IF n = 0 THEN first
                          ELSE Scenes!SceneConfigured(f[n - 1], order[n], views)
           Good == {m \in Nat : \E f : f = [n \in 0 .. m |-> After(f, n)]}
<1>1. 0 \in Good
  <2>1. [n \in 0 .. 0 |-> first] = [n \in 0 .. 0 |-> After([k \in 0 .. 0 |-> first], n)]
    BY SMT
  <2> QED
    BY <2>1
<1>2. ASSUME NEW m \in Nat, m \in Good
      PROVE  m + 1 \in Good
  <2>1. PICK f : f = [n \in 0 .. m |-> After(f, n)]
    BY <1>2
  <2> HIDE DEF After
  <2> DEFINE g == [n \in 0 .. m + 1 |-> IF n <= m THEN f[n] ELSE After(f, n)]
  <2>2. \A n \in 0 .. m + 1 : g[n] = After(g, n)
    <3> SUFFICES ASSUME NEW n \in 0 .. m + 1
                 PROVE  g[n] = After(g, n)
      OBVIOUS
    <3>1. g[n] = After(f, n)
      BY <2>1
    <3>2. n # 0 => g[n - 1] = f[n - 1]
      OBVIOUS
    <3> HIDE DEF g
    <3>3. After(f, n) = After(g, n)
      BY <3>2 DEF After
    <3> QED
      BY <3>1, <3>3
  <2>3. g = [n \in 0 .. m + 1 |-> After(g, n)]
    BY <2>2
  <2> HIDE DEF g
  <2> QED
    BY <2>3
<1>3. Nat \subseteq Good
  <2> HIDE DEF Good
  <2> QED
    BY <1>1, <1>2, NatSetInduction
<1>4. \E f : f = [n \in 0 .. Len(order) |-> After(f, n)]
  BY <1>3
<1> QED
  BY <1>4 DEF Scenes!ScenesConfigured

IsScene(s) == \E m, sw : s = [motion |-> m, switches |-> sw]

LEMMA OneSceneSet ==
    ASSUME NEW m, NEW sw, NEW v, NEW value, NEW views, NEW c \in Cameras
    PROVE  LET t == Scenes!SceneSet([motion |-> m, switches |-> sw], v, value, views) IN
           IsScene(t) /\ (t.motion[c] # m[c] => c \in Scenes!CamerasOf(v, views))
<1> DEFINE s == [motion |-> m, switches |-> sw]
           t == Scenes!SceneSet(s, v, value, views)
           cameras == Scenes!CamerasOf(v, views)
           changed == [d \in Cameras |-> IF d \in cameras THEN value ELSE m[d]]
           sw2 == [sw EXCEPT ![v].liveviewState = value]
<1>1. t = s \/ t = [motion |-> changed, switches |-> sw2]
  <2>1. s.motion = m /\ s.switches = sw
    OBVIOUS
  <2> HIDE DEF s, cameras
  <2> QED
    BY <2>1 DEF Scenes!SceneSet, cameras
<1>2. CASE t = s
  <2>1. s.motion = m /\ IsScene(s)
    BY Zenon DEF IsScene
  <2> HIDE DEF t, s
  <2>2. IsScene(t) /\ t.motion = m
    BY <1>2, <2>1
  <2> QED
    BY <2>2 DEF t, s
<1>3. CASE t = [motion |-> changed, switches |-> sw2]
  <2>1. t.motion = changed
    BY <1>3
  <2>2. changed[c] # m[c] => c \in cameras
    OBVIOUS
  <2> HIDE DEF t, cameras, changed, sw2
  <2>3. IsScene(t)
    BY <1>3 DEF IsScene
  <2> QED
    BY <2>1, <2>2, <2>3 DEF cameras, t
<1> QED
  BY <1>1, <1>2, <1>3

LEMMA OneSceneConfigured ==
    ASSUME NEW s, IsScene(s), NEW v, NEW views, NEW c \in Cameras
    PROVE  LET t == Scenes!SceneConfigured(s, v, views) IN
           IsScene(t) /\ (t.motion[c] # s.motion[c] => c \in Scenes!CamerasOf(v, views))
<1>1. PICK m, sw : s = [motion |-> m, switches |-> sw]
  BY DEF IsScene
<1> DEFINE t == Scenes!SceneConfigured(s, v, views)
<1>2. \E a, st : t = Scenes!SceneSet([s EXCEPT !.switches = a], v, st, views)
  BY Zenon DEF Scenes!SceneConfigured
<1>3. PICK a, st : t = Scenes!SceneSet([s EXCEPT !.switches = a], v, st, views)
  BY <1>2
<1>4. [s EXCEPT !.switches = a] = [motion |-> m, switches |-> a]
  BY <1>1
<1>5. t = Scenes!SceneSet([motion |-> m, switches |-> a], v, st, views)
  BY <1>3, <1>4
<1>6. s.motion = m
  BY <1>1
<1> HIDE DEF t
<1>7. IsScene(t) /\ (t.motion[c] # m[c] => c \in Scenes!CamerasOf(v, views))
  BY <1>5, OneSceneSet
<1> QED
  BY <1>6, <1>7 DEF t

\* Configuring liveviews changes the detection of their cameras only.
LEMMA OnlyTheirCameras ==
    ASSUME NEW kept, NEW order, NEW views, Len(order) \in Nat, NEW c \in Cameras,
           Scenes!ScenesConfigured(kept, order, views).motion[c] # detecting[c]
    PROVE  \E k \in 1 .. Len(order) : c \in Scenes!CamerasOf(order[k], views)
<1>1. PICK scene :
          /\ scene = [n \in 0 .. Len(order) |->
                         IF n = 0 THEN [motion |-> detecting, switches |-> kept]
                         ELSE Scenes!SceneConfigured(scene[n - 1], order[n], views)]
          /\ Scenes!ScenesConfigured(kept, order, views) = scene[Len(order)]
  BY ScenesAreThere
<1> DEFINE Touched(n) == \E k \in 1 .. n : c \in Scenes!CamerasOf(order[k], views)
           Right(n) == IsScene(scene[n]) /\ (scene[n].motion[c] # detecting[c] => Touched(n))
           Good == {n \in Nat : n <= Len(order) => Right(n)}
<1>2. 0 \in Good
  <2>1. scene[0] = [motion |-> detecting, switches |-> kept]
    BY <1>1
  <2>2. IsScene(scene[0])
    BY <2>1, Zenon DEF IsScene
  <2>3. scene[0].motion = detecting
    BY <2>1
  <2> QED
    BY <2>2, <2>3
<1>3. ASSUME NEW n \in Nat, n \in Good
      PROVE  n + 1 \in Good
  <2> SUFFICES ASSUME n + 1 <= Len(order)
               PROVE  Right(n + 1)
    OBVIOUS
  <2>1. Right(n)
    BY <1>3
  <2>2. scene[n + 1] = Scenes!SceneConfigured(scene[n], order[n + 1], views)
    BY <1>1, <1>3
  <2>3. /\ IsScene(scene[n + 1])
        /\ scene[n + 1].motion[c] # scene[n].motion[c] =>
               c \in Scenes!CamerasOf(order[n + 1], views)
    BY <2>1, <2>2, OneSceneConfigured
  <2>4. Touched(n) => Touched(n + 1)
    OBVIOUS
  <2>5. c \in Scenes!CamerasOf(order[n + 1], views) => Touched(n + 1)
    OBVIOUS
  <2> HIDE DEF Touched
  <2> QED
    BY <2>1, <2>3, <2>4, <2>5
<1>4. Nat \subseteq Good
  <2> HIDE DEF Good
  <2> QED
    BY <1>2, <1>3, NatSetInduction
<1>5. Right(Len(order))
  BY <1>4
<1> HIDE DEF Good
<1> QED
  BY <1>1, <1>5

\* A bootstrap changes the detection of a camera only for a liveview whose switch it
\* configures, so that it leaves alone what HomeKit and the cameras' own switches have made,
\* for any liveviews in any order (configureSwitches, isConfigured).
THEOREM BootstrapsLeaveScenes == Scenes!Spec => BootstrapsKeepScenes
<1>1. ASSUME [Scenes!Next]_(Scenes!vars)
      PROVE  Scenes!BootstrapKeepsScenes
  <2> SUFFICES ASSUME Scenes!Bootstrap(liveviews'),
                      NEW c \in Cameras, detecting'[c] # detecting[c]
               PROVE  \E v \in isConfigured' :
                          /\ c \in Scenes!CamerasOf(v, liveviews')
                          /\ v \notin isConfigured \/ v \notin DOMAIN switches
    BY DEF Scenes!BootstrapKeepsScenes, Scenes!CamerasOf
  <2> DEFINE views == liveviews'
  <2>1. Scenes!Bootstrap(views)
    OBVIOUS
  <2> DEFINE gone == DOMAIN switches \ DOMAIN views
  <2>2. PICK passed \in SUBSET gone :
            LET kept == Scenes!Restrict(switches, DOMAIN switches \ (gone \ passed))
                others == isConfigured \ (gone \ passed)
                toConfigure == Scenes!ToConfigure(views, others)
            IN  \E order \in Scenes!SetToSeqs(toConfigure) :
                    /\ detecting' = Scenes!ScenesConfigured(kept, order, views).motion
                    /\ isConfigured' = others \cup toConfigure
    BY <2>1 DEF Scenes!Bootstrap
  <2> DEFINE kept == Scenes!Restrict(switches, DOMAIN switches \ (gone \ passed))
             others == isConfigured \ (gone \ passed)
             toConfigure == (DOMAIN views \cap SwitchViews) \ others
  <2>3. PICK order \in Scenes!SetToSeqs(toConfigure) :
            /\ detecting' = Scenes!ScenesConfigured(kept, order, views).motion
            /\ isConfigured' = others \cup toConfigure
    BY <2>2 DEF Scenes!ToConfigure
  <2>4. /\ DOMAIN order = 1 .. Len(order) /\ Len(order) \in Nat
        /\ \A k \in DOMAIN order : order[k] \in toConfigure
    <3>1. IsFiniteSet(toConfigure)
      BY ScenesAssumption, FS_Subset
    <3>2. Cardinality(toConfigure) \in Nat
      BY <3>1, FS_CardinalityType
    <3>3. order \in [1 .. Cardinality(toConfigure) -> toConfigure]
      BY DEF Scenes!SetToSeqs, Scenes!Cardinality, Cardinality
    <3> HIDE DEF toConfigure
    <3>4. Len(order) = Cardinality(toConfigure)
      BY <3>2, <3>3
    <3> QED
      BY <3>2, <3>3, <3>4
  <2>5. PICK k \in 1 .. Len(order) : c \in Scenes!CamerasOf(order[k], views)
    BY <2>3, <2>4, OnlyTheirCameras
  <2>6. order[k] \in toConfigure
    BY <2>4
  <2>7. order[k] \in isConfigured'
    BY <2>3, <2>6
  <2>8. order[k] \notin isConfigured
    BY <2>6
  <2> QED
    BY <2>5, <2>7, <2>8
<1> QED
  BY <1>1, PTL DEF Scenes!Spec, BootstrapsKeepScenes

-----------------------------------------------------------------------------
(* Settings.                                                               *)

\* One of several switches, or a light, is only ever asked to be on.
IsRequest(w, k) == k \in {"mode", "chime", "led"} => w.on

\* A message the plugin knows to be shown, and HomeKit does not show, is about to be replaced.
MessagesInv ==
    kind = "message" /\ excused = {} =>
        \A v \in messageStates : v \notin shown => \E i \in DOMAIN updates : updates[i] # v

\* The last update on its way has what the controller has.
ControlsInv ==
    /\ kind \in Controls!Kinds
    /\ writes \in Seq(Controls!Write)
    /\ \A n \in DOMAIN writes : IsRequest(writes[n], kind)
    /\ updates \in Seq(Controls!Settings)
    /\ updates # <<>> => updates[Len(updates)] = controller
    /\ refreshing => kind \in {"mode", "chime"}
    /\ Controls!CopyAgrees /\ Controls!ShownAgrees
    /\ Controls!MessagesAgree /\ MessagesInv

Agreements == /\ Controls!CopyAgrees /\ Controls!ShownAgrees
              /\ Controls!MessagesAgree /\ MessagesInv

\* Whatever leaves updates that are on their way is right until they arrive.
LEMMA AppendedIsLast ==
    ASSUME NEW S, NEW s \in Seq(S), NEW e \in S
    PROVE  LET t == Append(s, e) IN
           /\ t \in Seq(S) /\ t # <<>> /\ t[Len(t)] = e
           /\ \A i \in DOMAIN s : i \in DOMAIN t /\ t[i] = s[i]
OBVIOUS

LEMMA ReplacedIn ==
    ASSUME NEW S, NEW s \in Seq(S), NEW n \in DOMAIN s, NEW e \in S
    PROVE  LET t == [s EXCEPT ![n] = e] IN
           /\ t \in Seq(S) /\ DOMAIN t = DOMAIN s
           /\ \A m \in DOMAIN s : t[m] = IF m = n THEN e ELSE s[m]
OBVIOUS

LEMMA TailKeepsLast ==
    ASSUME NEW S, NEW s \in Seq(S), s # <<>>
    PROVE  /\ Tail(s) \in Seq(S)
           /\ Tail(s) # <<>> => Tail(s)[Len(Tail(s))] = s[Len(s)]
           /\ Tail(s) = <<>> => s[Len(s)] = Head(s)
           /\ \A i \in DOMAIN s : s[i] = Head(s) \/ \E k \in DOMAIN Tail(s) : Tail(s)[k] = s[i]
<1>1. /\ Len(s) \in Nat \ {0} /\ DOMAIN s = 1 .. Len(s)
      /\ Tail(s) \in Seq(S) /\ DOMAIN Tail(s) = 1 .. (Len(s) - 1)
      /\ \A k \in 1 .. (Len(s) - 1) : Tail(s)[k] = s[k + 1]
      /\ Head(s) = s[1]
  OBVIOUS
<1>2. ASSUME NEW i \in DOMAIN s
      PROVE  s[i] = Head(s) \/ \E k \in DOMAIN Tail(s) : Tail(s)[k] = s[i]
  <2>1. CASE i = 1
    BY <1>1, <2>1
  <2>2. CASE i # 1
    <3>1. i - 1 \in DOMAIN Tail(s) /\ Tail(s)[i - 1] = s[i]
      BY <1>1, <2>2
    <3> QED
      BY <3>1
  <2> QED
    BY <2>1, <2>2
<1> QED
  BY <1>1, <1>2

\* A request that is asked for joins the others.
LEMMA AskedIsRequest ==
    ASSUME ControlsInv, NEW v \in Values, NEW on \in BOOLEAN, Controls!Asks(v, on),
           kind \in {"mode", "chime", "led"} => on
    PROVE  ControlsInv'
<1> DEFINE w == [by |-> v, on |-> on, isTaken |-> FALSE]
<1>1. w \in Controls!Write /\ IsRequest(w, kind)
  BY DEF Controls!Write, IsRequest
<1>2. writes' = Append(writes, w)
  BY DEF Controls!Asks
<1> HIDE DEF w
<1>3. writes' \in Seq(Controls!Write) /\ \A n \in DOMAIN writes' : IsRequest(writes'[n], kind)
  BY <1>1, <1>2 DEF ControlsInv
<1>4. UNCHANGED <<kind, controller, ufp, shown, messageStates, updates, refreshing, excused>>
  BY DEF Controls!Asks
<1>5. Agreements'
  BY <1>4 DEF ControlsInv, Agreements, Controls!CopyAgrees, Controls!ShownAgrees,
              Controls!MessagesAgree, MessagesInv, Controls!On
<1> QED
  BY <1>3, <1>4, <1>5 DEF ControlsInv, IsRequest, Agreements

\* A request that is no longer under way leaves the others.
LEMMA OthersAreRequests ==
    ASSUME ControlsInv, NEW n \in DOMAIN writes, writes' = Controls!Without(writes, n),
           UNCHANGED kind
    PROVE  /\ writes' \in Seq(Controls!Write)
           /\ \A m \in DOMAIN writes' : IsRequest(writes'[m], kind')
<1>1. writes' \in Seq(Controls!Write) /\ \A m \in DOMAIN writes' : IsRequest(writes'[m], kind)
  BY DEF ControlsInv, Controls!Without
<1> QED
  BY <1>1 DEF IsRequest

\* The answer to a request is what it asked for: it is shown.
LEMMA AnswerIsShown ==
    ASSUME ControlsInv, NEW n, Controls!Answered(n)
    PROVE  ControlsInv'
<1> USE ControlsAssumption
<1> DEFINE w == writes[n]
<1>1. /\ n \in DOMAIN writes /\ writes' = Controls!Without(writes, n)
      /\ ufp' = Controls!Asked(w) /\ shown' = Controls!ShownAfter(w)
      /\ excused' = Controls!Overtaken(Controls!Asked(w)) \cup
                    (IF kind = "message" THEN excused
                     ELSE Controls!Excused(Controls!Asked(w), TRUE))
      /\ UNCHANGED <<kind, controller, messageStates, updates, refreshing>>
  BY DEF Controls!Answered
<1>2. w \in Controls!Write
  BY <1>1 DEF ControlsInv
<1>3. /\ writes' \in Seq(Controls!Write)
      /\ \A m \in DOMAIN writes' : IsRequest(writes'[m], kind')
  BY <1>1, OthersAreRequests
<1>4. w.by \in Values /\ w.on \in BOOLEAN
  BY <1>2 DEF Controls!Write
<1> HIDE DEF w
<1>5. CASE kind # "message"
  <2>1. shown' = Controls!On(ufp')
    BY <1>1, <1>5 DEF Controls!ShownAfter
  <2>2. excused' \cap Controls!Behind = {} => ufp' = controller
    BY <1>1 DEF Controls!Overtaken, Controls!Behind
  <2>3. Agreements'
    BY <1>1, <1>5, <2>1, <2>2
    DEF Agreements, Controls!CopyAgrees, Controls!ShownAgrees, Controls!MessagesAgree,
        MessagesInv, Controls!On
  <2> QED
    BY <1>1, <1>3, <2>3 DEF ControlsInv, Agreements
<1>6. CASE kind = "message"
  <2>1. excused' = {} => excused = {} /\ controller = (IF w.on THEN w.by ELSE None)
    BY <1>1, <1>6 DEF Controls!Overtaken, Controls!Asked
  <2>2. shown' = (IF w.on THEN shown \cup {w.by} ELSE shown \ {w.by})
    BY <1>1, <1>6 DEF Controls!ShownAfter, Controls!ShownBesides
  <2>3. Controls!MessagesAgree'
    BY <1>1, <1>4, <1>6, <2>1, <2>2 DEF ControlsInv, Controls!MessagesAgree, Controls!On
  <2>4. ASSUME excused' = {}, NEW v \in messageStates, v \notin shown'
        PROVE  \E i \in DOMAIN updates : updates[i] # v
    <3>1. CASE v \notin shown
      BY <1>6, <2>1, <2>4, <3>1 DEF ControlsInv, MessagesInv
    <3>2. CASE v \in shown
      <4>1. ~w.on /\ v = w.by /\ controller = None
        BY <2>1, <2>2, <2>4, <3>2
      <4>2. updates # <<>>
        BY <1>6, <2>1, <2>4, <4>1 DEF ControlsInv, Controls!MessagesAgree, Controls!On
      <4>3. Len(updates) \in DOMAIN updates /\ updates[Len(updates)] = None
        BY <4>1, <4>2 DEF ControlsInv
      <4> QED
        BY <1>4, <4>1, <4>3
    <3> QED
      BY <3>1, <3>2
  <2>5. MessagesInv'
    BY <1>1, <2>4 DEF MessagesInv
  <2>6. Agreements'
    BY <1>1, <1>6, <2>3, <2>5 DEF Agreements, Controls!CopyAgrees, Controls!ShownAgrees
  <2> QED
    BY <1>1, <1>3, <2>6 DEF ControlsInv, Agreements
<1> QED
  BY <1>5, <1>6

\* What the copy becomes is shown, or it is an excuse.
LEMMA CopyIsRight ==
    ASSUME ControlsInv, kind # "message", UNCHANGED <<kind, controller, messageStates, refreshing>>,
           NEW v, NEW isTold \in BOOLEAN, NEW more \in SUBSET Controls!Excuses,
           ufp' = v, excused' = Controls!Excused(v, isTold) \cup more,
           shown' = IF isTold THEN Controls!On(v) ELSE shown,
           updates' = <<>> => v = controller \/ more \cap Controls!Behind # {}
    PROVE  Agreements'
<1>1. Controls!CopyAgrees'
  BY DEF Controls!CopyAgrees, Controls!Behind
<1>2. ASSUME ~refreshing, "unpushed" \notin excused'
      PROVE  shown' = Controls!On(v)
  <2>1. CASE isTold
    BY <2>1
  <2>2. CASE ~isTold
    <3>1. v = ufp /\ "unpushed" \notin excused
      BY <1>2, <2>2 DEF Controls!Excused, Controls!Behind
    <3> QED
      BY <1>2, <2>2, <3>1 DEF ControlsInv, Controls!ShownAgrees
  <2> QED
    BY <2>1, <2>2
<1>3. Controls!ShownAgrees'
  BY <1>2 DEF Controls!ShownAgrees, Controls!On
<1> QED
  BY <1>1, <1>3 DEF Agreements, Controls!MessagesAgree, MessagesInv

\* An update leaves the one message it brings, or the copy it brings.
LEMMA UpdatesAgree ==
    ASSUME ControlsInv, Controls!UpdateArrives
    PROVE  ControlsInv'
<1> USE ControlsAssumption
<1> DEFINE u == Head(updates)
<1>1. /\ updates # <<>> /\ updates' = Tail(updates) /\ updates \in Seq(Controls!Settings)
      /\ UNCHANGED <<kind, controller, writes, refreshing>>
      /\ Controls!MessageUpdated(u) \/ Controls!DeviceUpdated(u)
  BY DEF Controls!UpdateArrives, ControlsInv
<1>2. /\ updates' \in Seq(Controls!Settings)
      /\ updates' # <<>> => updates'[Len(updates')] = controller
      /\ updates' = <<>> => u = controller
      /\ \A i \in DOMAIN updates :
             updates[i] = u \/ \E k \in DOMAIN updates' : updates'[k] = updates[i]
  BY <1>1, TailKeepsLast DEF ControlsInv
<1> HIDE DEF u
<1>3. CASE Controls!MessageUpdated(u)
  <2>1. /\ kind = "message" /\ messageStates' = Controls!On(u)
        /\ shown' = IF u \in messageStates THEN shown \cap Controls!On(u) ELSE Controls!On(u)
        /\ excused' = IF u = controller /\ u \notin messageStates THEN {} ELSE excused
    BY <1>3 DEF Controls!MessageUpdated, Controls!MessageTold
  <2>2. ASSUME excused' = {}, NEW v \in messageStates', v \notin shown'
        PROVE  \E k \in DOMAIN updates' : updates'[k] # v
    <3>1. v = u /\ u \in messageStates /\ u \notin shown /\ excused = {}
      BY <2>1, <2>2 DEF Controls!On
    <3>2. PICK i \in DOMAIN updates : updates[i] # v
      BY <2>1, <3>1 DEF ControlsInv, MessagesInv
    <3> QED
      BY <1>2, <3>1, <3>2
  <2>3. MessagesInv'
    BY <2>2 DEF MessagesInv
  <2>4. ASSUME updates' = <<>>, excused' = {}
        PROVE  shown' = Controls!On(controller) /\ messageStates' = Controls!On(controller)
    <3>1. u = controller /\ messageStates' = Controls!On(controller)
      BY <1>2, <2>1, <2>4
    <3>2. DOMAIN updates' = {}
      BY <2>4
    <3>3. \A v \in messageStates' : v \in shown'
      BY <2>2, <2>4, <3>2
    <3>4. shown' \subseteq Controls!On(u)
      BY <2>1
    <3> QED
      BY <3>1, <3>3, <3>4
  <2>5. Controls!MessagesAgree'
    BY <1>1, <2>4 DEF Controls!MessagesAgree, Controls!On
  <2>6. Agreements'
    BY <1>1, <2>1, <2>3, <2>5 DEF Agreements, Controls!CopyAgrees, Controls!ShownAgrees
  <2> QED
    BY <1>1, <1>2, <2>6 DEF ControlsInv, IsRequest, Agreements
<1>4. CASE Controls!DeviceUpdated(u)
  <2>1. /\ kind # "message" /\ ufp' = u /\ UNCHANGED messageStates
        /\ shown' = IF Controls!IsPushed(u) THEN Controls!On(u) ELSE shown
        /\ excused' = Controls!Excused(u, Controls!IsPushed(u))
    BY <1>4 DEF Controls!DeviceUpdated
  <2>2. Controls!IsPushed(u) \in BOOLEAN
    BY DEF Controls!IsPushed
  <2> DEFINE told == Controls!IsPushed(u)
  <2> HIDE DEF told
  <2>3. Agreements'
    <3>1. told \in BOOLEAN /\ shown' = (IF told THEN Controls!On(u) ELSE shown)
          /\ excused' = Controls!Excused(u, told) \cup {}
      BY <2>1, <2>2 DEF told
    <3>2. {} \in SUBSET Controls!Excuses
      OBVIOUS
    <3> QED
      BY <1>1, <1>2, <2>1, <3>1, <3>2, CopyIsRight
  <2> QED
    BY <1>1, <1>2, <2>3 DEF ControlsInv, IsRequest, Agreements
<1> QED
  BY <1>1, <1>3, <1>4

\* What only replaces the copy, and shows it or does not.
LEMMA CopiesAgree ==
    ASSUME ControlsInv, NEW v, Controls!MqttAnswered(v) \/ Controls!Bootstrap(v)
    PROVE  ControlsInv'
<1>1. /\ ufp' = v /\ UNCHANGED <<kind, controller, messageStates, writes, updates, refreshing>>
      /\ kind = "message" => UNCHANGED <<shown, excused>>
      /\ kind # "message" =>
            \E isTold \in BOOLEAN :
                /\ shown' = IF isTold THEN Controls!On(v) ELSE shown
                /\ excused' = Controls!Excused(v, isTold) \cup Controls!Overtaken(v)
  <2>1. CASE Controls!MqttAnswered(v)
    BY <2>1 DEF Controls!MqttAnswered
  <2>2. CASE Controls!Bootstrap(v)
    BY <2>2 DEF Controls!Bootstrap
  <2> QED
    BY <2>1, <2>2
<1>2. CASE kind = "message"
  BY <1>1, <1>2 DEF ControlsInv, IsRequest, Controls!CopyAgrees, Controls!ShownAgrees,
                    Controls!MessagesAgree, MessagesInv, Controls!On
<1>3. CASE kind # "message"
  <2>1. PICK isTold \in BOOLEAN :
            /\ shown' = IF isTold THEN Controls!On(v) ELSE shown
            /\ excused' = Controls!Excused(v, isTold) \cup Controls!Overtaken(v)
    BY <1>1, <1>3
  <2>2. /\ Controls!Overtaken(v) \in SUBSET Controls!Excuses
        /\ v = controller \/ Controls!Overtaken(v) \cap Controls!Behind # {}
    BY DEF Controls!Overtaken, Controls!Excuses, Controls!Behind
  <2>3. Agreements'
    BY <1>1, <1>3, <2>1, <2>2, CopyIsRight
  <2> QED
    BY <1>1, <2>3 DEF ControlsInv, IsRequest, Agreements
<1> QED
  BY <1>2, <1>3

\* Another update on its way takes nothing from the agreements.
LEMMA MoreIsOnItsWay ==
    ASSUME ControlsInv, NEW v \in Controls!Settings, updates' = Append(updates, v),
           controller' = v, UNCHANGED <<kind, ufp, shown, messageStates, refreshing, excused>>
    PROVE  /\ updates' \in Seq(Controls!Settings) /\ updates' # <<>>
           /\ updates'[Len(updates')] = controller'
           /\ Agreements'
<1>1. /\ updates' \in Seq(Controls!Settings) /\ updates' # <<>>
      /\ updates'[Len(updates')] = controller'
      /\ \A i \in DOMAIN updates : i \in DOMAIN updates' /\ updates'[i] = updates[i]
  BY AppendedIsLast DEF ControlsInv
<1>2. MessagesInv'
  BY <1>1 DEF ControlsInv, MessagesInv
<1>3. Controls!CopyAgrees' /\ Controls!ShownAgrees' /\ Controls!MessagesAgree'
  BY <1>1 DEF ControlsInv, Controls!CopyAgrees, Controls!ShownAgrees, Controls!MessagesAgree,
              Controls!On
<1> QED
  BY <1>1, <1>2, <1>3 DEF Agreements

LEMMA ControlsNext ==
    ASSUME ControlsInv, [Controls!Next]_(Controls!vars)
    PROVE  ControlsInv'
<1> USE ControlsAssumption
<1>1. ASSUME NEW v \in Values, NEW on \in BOOLEAN, Controls!ModeSet(v, on)
      PROVE  ControlsInv'
  <2>1. CASE on
    BY <1>1, <2>1, AskedIsRequest DEF Controls!ModeSet
  <2>2. CASE ~on
    BY <1>1, <2>2 DEF Controls!ModeSet, ControlsInv, IsRequest, Controls!CopyAgrees,
                      Controls!ShownAgrees, Controls!MessagesAgree, MessagesInv
  <2> QED
    BY <2>1, <2>2
<1>2. ASSUME NEW v \in Values, NEW on \in BOOLEAN, Controls!ViewerSet(v, on)
      PROVE  ControlsInv'
  BY <1>2, AskedIsRequest DEF Controls!ViewerSet
<1>3. ASSUME NEW v \in Values, NEW on \in BOOLEAN, Controls!MessageSet(v, on)
      PROVE  ControlsInv'
  <2>1. CASE v \in messageStates <=> on
    BY <1>3, <2>1 DEF Controls!MessageSet, ControlsInv, IsRequest, Controls!CopyAgrees,
                      Controls!ShownAgrees, Controls!MessagesAgree, MessagesInv, Controls!On
  <2>2. CASE ~(v \in messageStates <=> on)
    BY <1>3, <2>2, AskedIsRequest DEF Controls!MessageSet
  <2> QED
    BY <2>1, <2>2
<1>4. ASSUME NEW v \in Values, Controls!LedSet(v)
      PROVE  ControlsInv'
  BY <1>4, AskedIsRequest DEF Controls!LedSet
<1>5. CASE Controls!RefreshDetails \/ Controls!HomeKitReads
  <2>1. kind # "message" /\ Controls!ShowsCopy /\ (refreshing' => refreshing)
    BY <1>5 DEF Controls!RefreshDetails, Controls!HomeKitReads, ControlsInv
  <2> QED
    BY <2>1 DEF Controls!ShowsCopy, ControlsInv, IsRequest, Controls!CopyAgrees,
                Controls!ShownAgrees, Controls!MessagesAgree, MessagesInv, Controls!Behind,
                Controls!On
<1>6. ASSUME NEW n, Controls!ControllerTakes(n)
      PROVE  ControlsInv'
  <2> DEFINE w == writes[n]
  <2>1. n \in DOMAIN writes /\ w \in Controls!Write /\ IsRequest(w, kind)
    BY <1>6 DEF Controls!ControllerTakes, ControlsInv
  <2>2. /\ writes' = [writes EXCEPT ![n] = [w EXCEPT !.isTaken = TRUE]]
        /\ updates' = Append(updates, Controls!Asked(w)) /\ controller' = Controls!Asked(w)
        /\ UNCHANGED <<kind, ufp, shown, messageStates, refreshing, excused>>
    BY <1>6 DEF Controls!ControllerTakes
  <2>3. /\ [w EXCEPT !.isTaken = TRUE] \in Controls!Write
        /\ IsRequest([w EXCEPT !.isTaken = TRUE], kind)
    BY <2>1 DEF Controls!Write, IsRequest
  <2>4. writes' \in Seq(Controls!Write) /\ \A m \in DOMAIN writes' : IsRequest(writes'[m], kind)
    BY <2>1, <2>2, <2>3, ReplacedIn DEF ControlsInv
  <2>5. Controls!Asked(w) \in Controls!Settings
    BY <2>1 DEF Controls!Asked, Controls!Write, Controls!Settings
  <2>6. /\ updates' \in Seq(Controls!Settings) /\ updates' # <<>>
        /\ updates'[Len(updates')] = controller'
        /\ Agreements'
    BY <2>2, <2>5, MoreIsOnItsWay
  <2> QED
    BY <2>2, <2>4, <2>6 DEF ControlsInv, IsRequest, Agreements
<1>7. ASSUME NEW n, Controls!WriteFails(n)
      PROVE  ControlsInv'
  <2>1. /\ n \in DOMAIN writes /\ writes' = Controls!Without(writes, n)
        /\ UNCHANGED <<kind, controller, ufp, shown, messageStates, updates, refreshing, excused>>
    BY <1>7 DEF Controls!WriteFails
  <2>2. /\ writes' \in Seq(Controls!Write)
        /\ \A m \in DOMAIN writes' : IsRequest(writes'[m], kind')
    BY <2>1, OthersAreRequests
  <2>3. Agreements'
    BY <2>1 DEF ControlsInv, Agreements, Controls!CopyAgrees, Controls!ShownAgrees,
                Controls!MessagesAgree, MessagesInv, Controls!On
  <2> QED
    BY <2>1, <2>2, <2>3 DEF ControlsInv, Agreements
<1>8. ASSUME NEW n, Controls!Answered(n)
      PROVE  ControlsInv'
  BY <1>8, AnswerIsShown
<1>9. ASSUME NEW v \in Controls!Allowed, Controls!OtherClient(v)
      PROVE  ControlsInv'
  <2>1. v \in Controls!Settings
    BY DEF Controls!Allowed, Controls!Settings
  <2>2. /\ updates' \in Seq(Controls!Settings) /\ updates' # <<>>
        /\ updates'[Len(updates')] = controller'
        /\ Agreements'
    BY <1>9, <2>1, MoreIsOnItsWay DEF Controls!OtherClient
  <2> QED
    BY <1>9, <2>2 DEF Controls!OtherClient, ControlsInv, IsRequest, Agreements
<1>10. CASE Controls!UpdateArrives
  BY <1>10, UpdatesAgree
<1>11. CASE Controls!UpdateLost
  <2>1. /\ updates' \in Seq(Controls!Settings)
        /\ updates' # <<>> => updates'[Len(updates')] = controller
    BY <1>11, TailKeepsLast DEF ControlsInv, Controls!UpdateLost
  <2>2. "lost" \in excused' /\ UNCHANGED <<kind, controller, ufp, shown, messageStates, writes, refreshing>>
        /\ ("unpushed" \in excused => "unpushed" \in excused')
    BY <1>11 DEF Controls!UpdateLost
  <2>3. Agreements'
    BY <2>2 DEF ControlsInv, Agreements, Controls!CopyAgrees, Controls!ShownAgrees,
                Controls!MessagesAgree, MessagesInv, Controls!Behind, Controls!On
  <2> QED
    BY <2>1, <2>2, <2>3 DEF ControlsInv, IsRequest, Agreements
<1>12. ASSUME NEW v, Controls!MqttAnswered(v) \/ Controls!Bootstrap(v)
       PROVE  ControlsInv'
  BY <1>12, CopiesAgree
<1>13. CASE Controls!MessagesChange
  <2>1. /\ kind = "message" /\ messageStates' = Controls!On(ufp)
        /\ shown' = IF ufp \in messageStates THEN shown \cap Controls!On(ufp) ELSE Controls!On(ufp)
        /\ excused' = {} => ufp = controller /\ excused = {}
        /\ UNCHANGED <<kind, controller, ufp, writes, updates, refreshing>>
    BY <1>13 DEF Controls!MessagesChange, Controls!MessageTold
  <2>2. Controls!MessagesAgree' /\ MessagesInv'
    BY <2>1 DEF ControlsInv, Controls!MessagesAgree, MessagesInv, Controls!On
  <2> QED
    BY <2>1, <2>2 DEF ControlsInv, IsRequest, Controls!CopyAgrees, Controls!ShownAgrees
<1>14. CASE UNCHANGED Controls!vars
  BY <1>14 DEF Controls!vars, ControlsInv, IsRequest, Controls!CopyAgrees, Controls!ShownAgrees,
               Controls!MessagesAgree, MessagesInv, Controls!On
<1> QED
  BY <1>1, <1>2, <1>3, <1>4, <1>5, <1>6, <1>7, <1>8, <1>9, <1>10, <1>11, <1>12, <1>13, <1>14
  DEF Controls!Next

\* Once no update is on its way the plugin's copy is the controller's setting, and HomeKit
\* shows the copy, for any settings and any number of requests, updates and bootstraps in any
\* order, but for what is named as an excuse (writeDevice, updateDevice, eventHandler, onSet).
THEOREM ControlsStayInAgreement == Controls!Spec => []ControlsAgree
<1>1. ASSUME Controls!Init
      PROVE  ControlsInv
  <2>1. /\ kind \in Controls!Kinds /\ ufp = controller /\ shown = Controls!On(controller)
        /\ messageStates = (IF kind = "message" THEN shown ELSE {})
        /\ writes = <<>> /\ updates = <<>> /\ refreshing = FALSE /\ excused = {}
    BY <1>1 DEF Controls!Init
  <2>2. \A S : <<>> \in Seq(S)
    OBVIOUS
  <2>3. Agreements
    BY <2>1 DEF Agreements, Controls!CopyAgrees, Controls!ShownAgrees, Controls!MessagesAgree,
                MessagesInv
  <2> QED
    BY <2>1, <2>2, <2>3 DEF ControlsInv, Agreements
<1>2. ControlsInv /\ [Controls!Next]_(Controls!vars) => ControlsInv'
  BY ControlsNext
<1>3. ControlsInv => ControlsAgree
  BY DEF ControlsInv, ControlsAgree, Controls!ControlsAgree
<1> QED
  BY <1>1, <1>2, <1>3, PTL DEF Controls!Spec

-----------------------------------------------------------------------------
(* The boxes of an FFmpeg process.                                         *)

StreamOK == stream \in Boxes!Streams /\ moof \in 1 .. Len(stream) + 1

LEMMA StreamIs ==
    ASSUME StreamOK
    PROVE  /\ Len(stream) \in Nat \ {0} /\ DOMAIN stream = 1 .. Len(stream)
           /\ \A i \in 1 .. Len(stream) : stream[i] \in Nat \ {0}
           /\ moof \in Nat \ {0}
<1>1. PICK n \in 1 .. MaxBoxes : stream \in [1 .. n -> BoxSizes]
  BY DEF StreamOK, Boxes!Streams
<1>2. n \in Nat \ {0}
  BY BoxesAssumption
<1>3. Len(stream) = n
  BY <1>1, <1>2
<1>4. \A i \in 1 .. n : stream[i] \in BoxSizes
  BY <1>1
<1>5. \A i \in 1 .. n : stream[i] \in Nat \ {0}
  BY <1>4, BoxesAssumption
<1>6. moof \in 1 .. n + 1
  BY <1>3 DEF StreamOK
<1>7. moof \in Nat \ {0}
  BY <1>2, <1>6
<1> QED
  BY <1>1, <1>2, <1>3, <1>5, <1>7

\* Where the boxes of a stream begin.
LEMMA BeginsAre ==
    ASSUME StreamOK
    PROVE  /\ Boxes!Begin[1] = 0
           /\ \A i \in 1 .. Len(stream) : Boxes!Begin[i + 1] = Boxes!Begin[i] + stream[i]
<1> DEFINE N == Len(stream)
           After(f, i) == IF i = 1 THEN 0 ELSE f[i - 1] + stream[i - 1]
           Good == {m \in Nat : \E f : f = [i \in 1 .. m + 1 |-> After(f, i)]}
<1>1. 0 \in Good
  <2> DEFINE f == [i \in 1 .. 0 + 1 |-> 0]
  <2>1. \A i \in 1 .. 0 + 1 : f[i] = After(f, i)
    BY SMT
  <2> HIDE DEF After
  <2>2. f = [i \in 1 .. 0 + 1 |-> After(f, i)]
    BY <2>1
  <2> HIDE DEF f
  <2> QED
    BY <2>2
<1>2. ASSUME NEW m \in Nat, m \in Good
      PROVE  m + 1 \in Good
  <2>1. PICK f : f = [i \in 1 .. m + 1 |-> After(f, i)]
    BY <1>2
  <2> HIDE DEF After
  <2> DEFINE g == [i \in 1 .. m + 2 |-> IF i <= m + 1 THEN f[i] ELSE After(f, i)]
  <2>2. \A i \in 1 .. m + 2 : g[i] = After(g, i)
    <3> SUFFICES ASSUME NEW i \in 1 .. m + 2
                 PROVE  g[i] = After(g, i)
      OBVIOUS
    <3>1. g[i] = After(f, i)
      BY <2>1
    <3>2. i # 1 => g[i - 1] = f[i - 1]
      OBVIOUS
    <3> HIDE DEF g
    <3>3. After(f, i) = After(g, i)
      BY <3>2 DEF After
    <3> QED
      BY <3>1, <3>3
  <2>3. g = [i \in 1 .. m + 2 |-> After(g, i)]
    BY <2>2
  <2>4. m + 1 + 1 = m + 2
    OBVIOUS
  <2> HIDE DEF g
  <2> QED
    BY <2>3, <2>4
<1>3. Nat \subseteq Good
  <2> HIDE DEF Good
  <2> QED
    BY <1>1, <1>2, NatSetInduction
<1>4. N \in Nat
  BY StreamIs
<1>5. \E f : f = [i \in 1 .. N + 1 |-> After(f, i)]
  BY <1>3, <1>4
<1>6. Boxes!Begin = [i \in 1 .. N + 1 |-> After(Boxes!Begin, i)]
  BY <1>5 DEF Boxes!Begin
<1>7. \A i \in 1 .. N + 1 : Boxes!Begin[i] = After(Boxes!Begin, i)
  <2> HIDE DEF After
  <2> QED
    BY <1>6
<1> QED
  BY <1>4, <1>7

LEMMA BeginsAreNumbers ==
    ASSUME StreamOK
    PROVE  \A i \in 1 .. Len(stream) + 1 : Boxes!Begin[i] \in Nat
<1> DEFINE Good == {m \in Nat : m <= Len(stream) => Boxes!Begin[m + 1] \in Nat}
<1>1. 0 \in Good
  BY BeginsAre
<1>2. ASSUME NEW m \in Nat, m \in Good
      PROVE  m + 1 \in Good
  BY <1>2, BeginsAre, StreamIs
<1>3. Nat \subseteq Good
  <2> HIDE DEF Good
  <2> QED
    BY <1>1, <1>2, NatSetInduction
<1>4. ASSUME NEW i \in 1 .. Len(stream) + 1
      PROVE  Boxes!Begin[i] \in Nat
  <2>1. i - 1 \in Nat /\ i - 1 <= Len(stream) /\ (i - 1) + 1 = i
    BY StreamIs
  <2>2. i - 1 \in Good
    BY <1>3, <2>1
  <2> QED
    BY <2>1, <2>2
<1> QED
  BY <1>4

\* A box that is behind another begins where that ends or behind it.
LEMMA BeginsIncrease ==
    ASSUME StreamOK, NEW i \in 1 .. Len(stream) + 1, NEW j \in 1 .. Len(stream) + 1, i < j
    PROVE  Boxes!Begin[i] < Boxes!Begin[j] /\ Boxes!Begin[i + 1] <= Boxes!Begin[j]
<1> DEFINE Good == {m \in Nat : i + 1 + m <= Len(stream) + 1 =>
                        Boxes!Begin[i + 1] <= Boxes!Begin[i + 1 + m]}
<1>1. 0 \in Good
  BY BeginsAreNumbers, StreamIs
<1>2. ASSUME NEW m \in Nat, m \in Good
      PROVE  m + 1 \in Good
  <2> SUFFICES ASSUME i + 1 + (m + 1) <= Len(stream) + 1
               PROVE  Boxes!Begin[i + 1] <= Boxes!Begin[i + 1 + (m + 1)]
    OBVIOUS
  <2>1. Boxes!Begin[i + 1] <= Boxes!Begin[i + 1 + m]
    BY <1>2, StreamIs
  <2>2. i + 1 + m \in 1 .. Len(stream) /\ i + 1 + (m + 1) = (i + 1 + m) + 1
    BY StreamIs
  <2>3. Boxes!Begin[i + 1 + (m + 1)] = Boxes!Begin[i + 1 + m] + stream[i + 1 + m]
    BY <2>2, BeginsAre
  <2>4. /\ stream[i + 1 + m] \in Nat /\ Boxes!Begin[i + 1 + m] \in Nat
        /\ Boxes!Begin[i + 1] \in Nat
    BY <2>2, BeginsAreNumbers, StreamIs
  <2> QED
    BY <2>1, <2>3, <2>4
<1>3. Nat \subseteq Good
  <2> HIDE DEF Good
  <2> QED
    BY <1>1, <1>2, NatSetInduction
<1>4. Boxes!Begin[i + 1] <= Boxes!Begin[j]
  <2>1. j - (i + 1) \in Nat /\ i + 1 + (j - (i + 1)) = j /\ j <= Len(stream) + 1
    BY StreamIs
  <2>2. j - (i + 1) \in Good
    BY <1>3, <2>1
  <2> QED
    BY <2>1, <2>2
<1>5. Boxes!Begin[i + 1] = Boxes!Begin[i] + stream[i] /\ stream[i] \in Nat \ {0}
  BY BeginsAre, StreamIs
<1>6. Boxes!Begin[i] \in Nat /\ Boxes!Begin[j] \in Nat
  BY BeginsAreNumbers
<1> QED
  BY <1>4, <1>5, <1>6

\* A header that is read where a box begins is the box's, and the stream ends with the last
\* box unless that is invalid.
LEMMA SizesAre ==
    ASSUME StreamOK
    PROVE  /\ \A offset \in Nat : Boxes!SizeAt(offset) \in Nat
           /\ \A i \in 1 .. Len(stream) : Boxes!SizeAt(Boxes!Begin[i]) = stream[i]
<1>1. \A i, j \in 1 .. Len(stream) : Boxes!Begin[i] = Boxes!Begin[j] => i = j
  <2> SUFFICES ASSUME NEW i \in 1 .. Len(stream), NEW j \in 1 .. Len(stream), i # j
               PROVE  Boxes!Begin[i] # Boxes!Begin[j]
    OBVIOUS
  <2>1. i \in 1 .. Len(stream) + 1 /\ j \in 1 .. Len(stream) + 1
    BY StreamIs
  <2>2. Boxes!Begin[i] \in Nat /\ Boxes!Begin[j] \in Nat
    BY <2>1, BeginsAreNumbers
  <2>3. i < j => Boxes!Begin[i] < Boxes!Begin[j]
    BY <2>1, BeginsIncrease
  <2>4. j < i => Boxes!Begin[j] < Boxes!Begin[i]
    BY <2>1, BeginsIncrease
  <2>5. i < j \/ j < i
    BY StreamIs
  <2> QED
    BY <2>2, <2>3, <2>4, <2>5
<1> QED
  BY <1>1, StreamIs DEF Boxes!SizeAt

LEMMA LengthIs ==
    ASSUME StreamOK
    PROVE  LET n == Len(stream) IN
           /\ Boxes!Length \in Nat /\ Boxes!Begin[n] < Boxes!Length
           /\ stream[n] >= HeaderSize => Boxes!Length = Boxes!Begin[n + 1]
<1>1. Len(stream) \in 1 .. Len(stream) /\ Len(stream) \in 1 .. Len(stream) + 1
  BY StreamIs
<1>2. stream[Len(stream)] \in Nat \ {0} /\ Boxes!Begin[Len(stream)] \in Nat
  BY <1>1, BeginsAreNumbers, StreamIs
<1>3. Boxes!Begin[Len(stream) + 1] = Boxes!Begin[Len(stream)] + stream[Len(stream)]
  BY <1>1, BeginsAre
<1> QED
  BY <1>2, <1>3, BoxesAssumption DEF Boxes!Length

\* What parse does at an offset, when f is what it does at those behind.
ParseAt(f, offset, end) ==
    LET size == Boxes!SizeAt(offset)
        rest == f[offset + size]
    IN  IF offset = end THEN Boxes!Result(<<>>, 0, 0, TRUE)
        ELSE IF end - offset < HeaderSize THEN Boxes!Result(<<>>, end - offset, 0, TRUE)
        ELSE IF size < HeaderSize THEN Boxes!Result(<<>>, 0, 0, FALSE)
        ELSE IF end - offset < size THEN Boxes!Result(<<>>, end - offset, size, TRUE)
        ELSE [rest EXCEPT !.boxes = <<<<offset, size>>>> \o @]

LEMMA ParseLooksBehind ==
    ASSUME StreamOK, NEW f, NEW g, NEW end \in Nat, NEW offset \in 0 .. end,
           \A o \in offset + 1 .. end : f[o] = g[o]
    PROVE  ParseAt(f, offset, end) = ParseAt(g, offset, end)
<1> DEFINE size == Boxes!SizeAt(offset)
<1>1. size \in Nat
  BY SizesAre
<1> HIDE DEF size
<1>2. CASE offset # end /\ ~(end - offset < HeaderSize) /\ ~(size < HeaderSize)
           /\ ~(end - offset < size)
  <2>1. offset + size \in offset + 1 .. end
    BY <1>1, <1>2, BoxesAssumption
  <2>2. f[offset + size] = g[offset + size]
    BY <2>1
  <2> QED
    BY <2>2, Zenon DEF ParseAt, size
<1>3. CASE ~(offset # end /\ ~(end - offset < HeaderSize) /\ ~(size < HeaderSize)
             /\ ~(end - offset < size))
  BY <1>3, Zenon DEF ParseAt, size
<1> QED
  BY <1>2, <1>3

\* The loop of parse ends, as each box it passes has a size.
LEMMA ParseIsThere ==
    ASSUME StreamOK, NEW end \in Nat, NEW begin \in 0 .. end
    PROVE  \E parse : /\ \A o \in begin .. end : parse[o] = ParseAt(parse, o, end)
                      /\ Boxes!Parse(begin, end) = parse[begin]
<1> DEFINE Behind(d) == {o \in begin .. end : end - o <= d}
           Good == {d \in Nat : \E f : f = [o \in Behind(d) |-> ParseAt(f, o, end)]}
<1>1. 0 \in Good
  <2> DEFINE f == [o \in Behind(0) |-> ParseAt(<<>>, o, end)]
  <2>1. \A o \in Behind(0) : f[o] = ParseAt(f, o, end)
    <3> SUFFICES ASSUME NEW o \in Behind(0)
                 PROVE  ParseAt(<<>>, o, end) = ParseAt(f, o, end)
      OBVIOUS
    <3>1. o \in 0 .. end /\ o + 1 .. end = {}
      OBVIOUS
    <3> HIDE DEF f
    <3> QED
      BY <3>1, ParseLooksBehind
  <2> HIDE DEF Behind
  <2>2. f = [o \in Behind(0) |-> ParseAt(f, o, end)]
    BY <2>1
  <2> HIDE DEF f
  <2> QED
    BY <2>2
<1>2. ASSUME NEW d \in Nat, d \in Good
      PROVE  d + 1 \in Good
  <2>1. PICK f : f = [o \in Behind(d) |-> ParseAt(f, o, end)]
    BY <1>2
  <2> DEFINE g == [o \in Behind(d + 1) |-> IF o \in Behind(d) THEN f[o] ELSE ParseAt(f, o, end)]
  <2>2. ASSUME NEW o \in Behind(d + 1)
        PROVE  g[o] = ParseAt(g, o, end)
    <3>1. g[o] = ParseAt(f, o, end)
      <4> HIDE DEF Behind
      <4> QED
        BY <2>1
    <3>2. o \in 0 .. end /\ \A p \in o + 1 .. end : p \in Behind(d) /\ p \in Behind(d + 1)
      OBVIOUS
    <3> HIDE DEF Behind
    <3>3. \A p \in o + 1 .. end : f[p] = g[p]
      BY <3>2
    <3> HIDE DEF g
    <3>4. ParseAt(f, o, end) = ParseAt(g, o, end)
      BY <3>2, <3>3, ParseLooksBehind
    <3> QED
      BY <3>1, <3>4
  <2> HIDE DEF Behind
  <2>3. g = [o \in Behind(d + 1) |-> ParseAt(g, o, end)]
    BY <2>2
  <2> HIDE DEF g
  <2> QED
    BY <2>3
<1>3. Nat \subseteq Good
  <2> HIDE DEF Good
  <2> QED
    BY <1>1, <1>2, NatSetInduction
<1>4. \E f : f = [o \in begin .. end |-> ParseAt(f, o, end)]
  <2>1. Behind(end) = begin .. end
    OBVIOUS
  <2> HIDE DEF Behind
  <2>2. \E f : f = [o \in Behind(end) |-> ParseAt(f, o, end)]
    BY <1>3
  <2> QED
    BY <2>1, <2>2
<1> DEFINE parse == CHOOSE f : f = [o \in begin .. end |-> ParseAt(f, o, end)]
<1>5. parse = [o \in begin .. end |-> ParseAt(parse, o, end)]
  BY <1>4
<1>6. Boxes!Parse(begin, end) = parse[begin]
  BY DEF Boxes!Parse, ParseAt
<1> HIDE DEF parse
<1>7. \A o \in begin .. end : parse[o] = ParseAt(parse, o, end)
  BY <1>5
<1> QED
  BY <1>6, <1>7

\* So many boxes of the stream, from the one behind the first so many.
BoxRun(from, n) == [i \in 1 .. n |-> <<Boxes!Begin[from + i], stream[from + i]>>]

BoxAt(i) == <<Boxes!Begin[i], stream[i]>>

StreamBoxes == {BoxAt(i) : i \in Nat}

LEMMA RunIs ==
    ASSUME NEW from \in Nat, NEW n \in Nat
    PROVE  /\ BoxRun(from, n) \in Seq(StreamBoxes) /\ Len(BoxRun(from, n)) = n
           /\ \A i \in 1 .. n : /\ BoxRun(from, n)[i] = BoxAt(from + i)
                                /\ BoxRun(from, n)[i] \in StreamBoxes
<1> DEFINE s == BoxRun(from, n)
<1>1. s = [i \in 1 .. n |-> BoxAt(from + i)]
  BY DEF BoxRun, BoxAt
<1>2. \A i \in 1 .. n : BoxAt(from + i) \in StreamBoxes
  BY DEF StreamBoxes
<1> HIDE DEF s
<1>3. s \in [1 .. n -> StreamBoxes]
  BY <1>1, <1>2
<1>4. s \in Seq(StreamBoxes) /\ Len(s) = n
  BY <1>3
<1> QED
  BY <1>1, <1>2, <1>4 DEF s

LEMMA RunsJoin ==
    ASSUME NEW from \in Nat, NEW n \in Nat, NEW m \in Nat
    PROVE  BoxRun(from, n) \o BoxRun(from + n, m) = BoxRun(from, n + m)
<1> DEFINE s == BoxRun(from, n)
           t == BoxRun(from + n, m)
           u == BoxRun(from, n + m)
<1>1. /\ s \in Seq(StreamBoxes) /\ Len(s) = n
      /\ \A i \in 1 .. n : s[i] = BoxAt(from + i)
  BY RunIs
<1>2. /\ t \in Seq(StreamBoxes) /\ Len(t) = m
      /\ \A i \in 1 .. m : t[i] = BoxAt(from + n + i)
  <2>1. from + n \in Nat
    OBVIOUS
  <2> QED
    BY <2>1, RunIs
<1>3. /\ u \in Seq(StreamBoxes) /\ Len(u) = n + m
      /\ \A i \in 1 .. n + m : u[i] = BoxAt(from + i)
  <2>1. n + m \in Nat
    OBVIOUS
  <2> QED
    BY <2>1, RunIs
<1> HIDE DEF s, t, u
<1>4. /\ s \o t \in Seq(StreamBoxes) /\ Len(s \o t) = n + m
      /\ \A i \in 1 .. n + m : (s \o t)[i] = IF i <= n THEN s[i] ELSE t[i - n]
  BY <1>1, <1>2, ConcatProperties
<1>5. ASSUME NEW i \in 1 .. n + m
      PROVE  (s \o t)[i] = u[i]
  <2>1. CASE i <= n
    <3>1. i \in 1 .. n
      BY <2>1
    <3>2. (s \o t)[i] = s[i]
      BY <1>4, <2>1
    <3>3. s[i] = BoxAt(from + i) /\ u[i] = BoxAt(from + i)
      BY <1>1, <1>3, <3>1
    <3> QED
      BY <3>2, <3>3
  <2>2. CASE ~(i <= n)
    <3>1. i - n \in 1 .. m /\ from + n + (i - n) = from + i
      BY <2>2
    <3>2. t[i - n] = BoxAt(from + i)
      BY <1>2, <3>1
    <3> QED
      BY <1>3, <1>4, <2>2, <3>2
  <2> QED
    BY <2>1, <2>2
<1>6. s \o t = u
  BY <1>3, <1>4, <1>5, SeqEqual
<1> QED
  BY <1>6 DEF s, t, u

LEMMA RunsSplit ==
    ASSUME NEW from \in Nat, NEW m \in Nat, NEW n \in 0 .. m
    PROVE  LET s == BoxRun(from, m) IN
           /\ SubSeq(s, 1, n) = BoxRun(from, n)
           /\ SubSeq(s, n + 1, m) = BoxRun(from + n, m - n)
<1> DEFINE s == BoxRun(from, m)
           front == SubSeq(s, 1, n)
           back == SubSeq(s, n + 1, m)
<1>1. s \in Seq(StreamBoxes) /\ Len(s) = m /\ \A i \in 1 .. m : s[i] = BoxAt(from + i) /\ s[i] \in StreamBoxes
  BY RunIs
<1> HIDE DEF s
<1>2. /\ front \in Seq(StreamBoxes) /\ Len(front) = n
      /\ \A i \in 1 .. n : front[i] = s[i]
  BY <1>1, SubSeqProperties
<1>3. /\ back \in Seq(StreamBoxes) /\ Len(back) = m - n
      /\ \A i \in 1 .. m - n : back[i] = s[n + i]
  BY <1>1, SubSeqProperties
<1> HIDE DEF front, back
<1>4. front = BoxRun(from, n)
  <2>1. /\ BoxRun(from, n) \in Seq(StreamBoxes) /\ Len(BoxRun(from, n)) = n
        /\ \A i \in 1 .. n : BoxRun(from, n)[i] = BoxAt(from + i)
    BY RunIs
  <2>2. \A i \in 1 .. n : front[i] = BoxRun(from, n)[i]
    BY <1>1, <1>2, <2>1
  <2> QED
    BY <1>2, <2>1, <2>2, SeqEqual
<1>5. back = BoxRun(from + n, m - n)
  <2>1. m - n \in Nat /\ from + n \in Nat
    OBVIOUS
  <2>2. /\ BoxRun(from + n, m - n) \in Seq(StreamBoxes) /\ Len(BoxRun(from + n, m - n)) = m - n
        /\ \A i \in 1 .. m - n : BoxRun(from + n, m - n)[i] = BoxAt(from + n + i)
    BY <2>1, RunIs
  <2>3. ASSUME NEW i \in 1 .. m - n
        PROVE  back[i] = BoxRun(from + n, m - n)[i]
    <3>1. n + i \in 1 .. m /\ from + (n + i) = from + n + i
      OBVIOUS
    <3>2. s[n + i] = BoxAt(from + n + i)
      BY <1>1, <3>1
    <3> QED
      BY <1>3, <2>2, <3>2
  <2> QED
    BY <1>3, <2>2, <2>3, SeqEqual
<1> QED
  BY <1>4, <1>5 DEF s, front, back

\* What is left behind the first m boxes waits for more: nothing, a part of a header, or a
\* part of a box whose size is known.
Waits(m, left, size) ==
    \/ left = 0 /\ size = 0
    \/ m < Len(stream) /\ left \in 1 .. HeaderSize - 1 /\ size = 0
    \/ m < Len(stream) /\ left \in HeaderSize .. size - 1 /\ size = stream[m + 1]

AreValid(m) == \A i \in 1 .. m : stream[i] >= HeaderSize

\* What parse makes of what is behind the first k boxes: those that are complete, until
\* there is none, or one that is invalid.
Parsed(r, k, end) ==
    \E m, size, stash, isValid :
        /\ m \in k .. Len(stream)
        /\ r = Boxes!Result(BoxRun(k, m - k), stash, size, isValid)
        /\ AreValid(m) /\ Boxes!Begin[m + 1] <= end
        /\ \/ /\ isValid = TRUE /\ stash = end - Boxes!Begin[m + 1]
              /\ Waits(m, stash, size)
           \/ /\ isValid = FALSE
              /\ m < Len(stream) /\ stream[m + 1] < HeaderSize

LEMMA ParseIsRight ==
    ASSUME StreamOK, NEW end \in 0 .. Boxes!Length, NEW first \in 0 .. Len(stream),
           Boxes!Begin[first + 1] <= end, AreValid(first)
    PROVE  Parsed(Boxes!Parse(Boxes!Begin[first + 1], end), first, end)
<1> DEFINE N == Len(stream)
           begin == Boxes!Begin[first + 1]
<1>1. N \in Nat \ {0} /\ Boxes!Length \in Nat /\ end \in Nat /\ begin \in 0 .. end
  BY StreamIs, LengthIs, BeginsAreNumbers
<1>2. PICK parse : /\ \A o \in begin .. end : parse[o] = ParseAt(parse, o, end)
                   /\ Boxes!Parse(begin, end) = parse[begin]
  BY <1>1, ParseIsThere
<1> DEFINE Reached(k) == Boxes!Begin[k + 1] \in begin .. end /\ AreValid(k)
           Good == {d \in Nat : d <= N /\ Reached(N - d) =>
                                    Parsed(parse[Boxes!Begin[N - d + 1]], N - d, end)}
<1>3. ASSUME NEW k \in 0 .. N, Reached(k), end = Boxes!Begin[k + 1]
      PROVE  Parsed(parse[Boxes!Begin[k + 1]], k, end)
  <2>1. parse[end] = Boxes!Result(<<>>, 0, 0, TRUE)
    BY <1>1, <1>2, <1>3 DEF ParseAt
  <2>2. BoxRun(k, k - k) = <<>>
    BY <1>1 DEF BoxRun
  <2>3. Waits(k, 0, 0) /\ end - Boxes!Begin[k + 1] = 0 /\ Boxes!Begin[k + 1] <= end
        /\ k \in k .. N
    BY <1>1, <1>3 DEF Waits
  <2> QED
    BY <1>3, <2>1, <2>2, <2>3 DEF Parsed
<1>4. 0 \in Good
  <2> SUFFICES ASSUME Reached(N)
               PROVE  Parsed(parse[Boxes!Begin[N + 1]], N, end)
    BY <1>1
  <2>1. stream[N] >= HeaderSize /\ Boxes!Begin[N + 1] <= end
    BY <1>1 DEF AreValid
  <2>2. end = Boxes!Begin[N + 1]
    BY <1>1, <2>1, LengthIs, BeginsAreNumbers
  <2> QED
    BY <1>1, <1>3, <2>2
<1>5. ASSUME NEW d \in Nat, d \in Good
      PROVE  d + 1 \in Good
  <2> DEFINE k == N - (d + 1)
             o == Boxes!Begin[k + 1]
             size == stream[k + 1]
  <2> SUFFICES ASSUME d + 1 <= N, Reached(k)
               PROVE  Parsed(parse[o], k, end)
    BY <1>1
  <2>1. k \in 0 .. N - 1 /\ k + 1 \in 1 .. N /\ N - d = k + 1 /\ N - d + 1 = k + 1 + 1
    BY <1>1
  <2>2. /\ size \in Nat \ {0} /\ o \in begin .. end /\ o \in Nat
        /\ Boxes!SizeAt(o) = size /\ Boxes!Begin[k + 1 + 1] = o + size
    <3>1. size \in Nat \ {0} /\ Boxes!SizeAt(o) = size /\ Boxes!Begin[k + 1 + 1] = o + size
      BY <2>1, StreamIs, SizesAre, BeginsAre
    <3>2. o \in begin .. end
      OBVIOUS
    <3> QED
      BY <1>1, <3>1, <3>2
  <2>3. parse[o] = ParseAt(parse, o, end)
    BY <1>2, <2>2
  <2>4. Boxes!Begin[k + 1] = o /\ AreValid(k)
    OBVIOUS
  <2>5. k \in Nat /\ k < N /\ k \in k .. N /\ BoxRun(k, k - k) = <<>>
    BY <2>1 DEF BoxRun
  <2> HIDE DEF k, o, size
  <2>6. CASE end = o
    BY <1>3, <2>1, <2>2, <2>4, <2>6
  <2>7. CASE end # o /\ end - o < HeaderSize
    <3>1. parse[o] = Boxes!Result(<<>>, end - o, 0, TRUE)
      BY <2>3, <2>7 DEF ParseAt
    <3>2. Waits(k, end - o, 0)
      BY <1>1, <2>2, <2>5, <2>7, BoxesAssumption DEF Waits
    <3>3. o <= end
      BY <2>2, <1>1
    <3> QED
      BY <2>4, <2>5, <3>1, <3>2, <3>3 DEF Parsed
  <2>8. CASE end # o /\ ~(end - o < HeaderSize) /\ size < HeaderSize
    <3>1. parse[o] = Boxes!Result(<<>>, 0, 0, FALSE)
      BY <2>2, <2>3, <2>8 DEF ParseAt
    <3>2. o <= end
      BY <2>2, <1>1
    <3> QED
      BY <2>4, <2>5, <2>8, <3>1, <3>2 DEF Parsed, size
  <2>9. CASE end # o /\ ~(end - o < HeaderSize) /\ ~(size < HeaderSize) /\ end - o < size
    <3>1. parse[o] = Boxes!Result(<<>>, end - o, size, TRUE)
      BY <2>2, <2>3, <2>9 DEF ParseAt
    <3>2. Waits(k, end - o, size)
      <4>1. end - o \in HeaderSize .. size - 1
        BY <1>1, <2>2, <2>9, BoxesAssumption
      <4> QED
        BY <2>5, <4>1 DEF Waits, size
    <3>3. o <= end
      BY <2>2, <1>1
    <3> QED
      BY <2>4, <2>5, <3>1, <3>2, <3>3 DEF Parsed
  <2>10. CASE end # o /\ ~(end - o < HeaderSize) /\ ~(size < HeaderSize) /\ ~(end - o < size)
    <3> DEFINE rest == parse[o + size]
    <3>1. parse[o] = [rest EXCEPT !.boxes = <<<<o, size>>>> \o @]
      BY <2>2, <2>3, <2>10 DEF ParseAt
    <3>2. o + size \in begin .. end
      BY <1>1, <2>2, <2>10
    <3>3. AreValid(k + 1)
      BY <2>1, <2>2, <2>4, <2>10, BoxesAssumption DEF AreValid, size
    <3>4. Parsed(rest, k + 1, end)
      BY <1>5, <2>1, <2>2, <3>2, <3>3
    <3>5. PICK m, left, stash, isValid :
              /\ m \in k + 1 .. N
              /\ rest = Boxes!Result(BoxRun(k + 1, m - (k + 1)), stash, left, isValid)
              /\ AreValid(m) /\ Boxes!Begin[m + 1] <= end
              /\ \/ /\ isValid = TRUE /\ stash = end - Boxes!Begin[m + 1]
                    /\ Waits(m, stash, left)
                 \/ /\ isValid = FALSE
                    /\ m < N /\ stream[m + 1] < HeaderSize
      BY <3>4 DEF Parsed
    <3>6. <<<<o, size>>>> \o BoxRun(k + 1, m - (k + 1)) = BoxRun(k, m - k)
      <4>1. <<<<o, size>>>> = BoxRun(k, 1)
        BY <2>1, <2>4 DEF BoxRun, size
      <4>2. m - (k + 1) \in Nat /\ 1 + (m - (k + 1)) = m - k
        BY <1>1, <2>5, <3>5
      <4> QED
        <5>1. 1 \in Nat
          OBVIOUS
        <5>2. BoxRun(k, 1) \o BoxRun(k + 1, m - (k + 1)) = BoxRun(k, 1 + (m - (k + 1)))
          BY <2>5, <4>2, <5>1, RunsJoin
        <5> QED
          BY <4>1, <4>2, <5>2
    <3> HIDE DEF rest
    <3>7. parse[o] = Boxes!Result(BoxRun(k, m - k), stash, left, isValid)
      BY <3>1, <3>5, <3>6 DEF Boxes!Result
    <3>8. m \in k .. N
      BY <1>1, <2>5, <3>5
    <3> QED
      BY <3>5, <3>7, <3>8 DEF Parsed
  <2> QED
    BY <2>6, <2>7, <2>8, <2>9, <2>10
<1>6. Nat \subseteq Good
  <2> HIDE DEF Good
  <2> QED
    BY <1>4, <1>5, NatSetInduction
<1>7. N - first \in Good /\ N - (N - first) = first /\ begin \in begin .. end
  BY <1>1, <1>6
<1> QED
  BY <1>1, <1>2, <1>7

\* k boxes were handed on, as far as the first moof box to the initialization segment, and
\* what is left waits for more, unless the stream is corrupt.
Read(k) ==
    /\ handed = BoxRun(0, k) /\ AreValid(k)
    /\ Boxes!Begin[k + 1] <= received
    /\ isListening => /\ pendingLength = received - Boxes!Begin[k + 1]
                      /\ Waits(k, pendingLength, boxSize)
    /\ ~isListening => k < Len(stream) /\ stream[k + 1] < HeaderSize
    /\ hasInitSegment = (moof <= k)
    /\ k < moof => initSegmentParts = BoxRun(0, k) /\ segments = <<>>
    /\ moof <= k => /\ initSegmentParts = BoxRun(0, moof - 1)
                    /\ segments = BoxRun(moof - 1, k - (moof - 1))

BoxesInv ==
    /\ StreamOK
    /\ received \in 0 .. Boxes!Length /\ isListening \in BOOLEAN
    /\ \E k \in 0 .. Len(stream) : Read(k)

Fresh ==
    /\ StreamOK
    /\ received = 0 /\ pendingLength = 0 /\ boxSize = 0 /\ isListening = TRUE
    /\ handed = <<>> /\ initSegmentParts = <<>> /\ hasInitSegment = FALSE /\ segments = <<>>

LEMMA FreshIsSound == Fresh => BoxesInv
<1> SUFFICES ASSUME Fresh PROVE BoxesInv
  OBVIOUS
<1> USE DEF Fresh
<1>1. BoxRun(0, 0) = <<>>
  BY DEF BoxRun
<1>2. Boxes!Begin[0 + 1] = 0
  BY BeginsAre
<1>3. moof \in Nat \ {0} /\ Len(stream) \in Nat \ {0} /\ Boxes!Length \in Nat
  BY StreamIs, LengthIs
<1>4. Read(0)
  <2>1. AreValid(0) /\ Waits(0, 0, 0)
    BY DEF AreValid, Waits
  <2>2. 0 <= received /\ pendingLength = received - 0
    OBVIOUS
  <2>3. hasInitSegment = (moof <= 0)
    <3>1. (moof <= 0) = FALSE
      BY <1>3
    <3> QED
      BY <3>1
  <2> QED
    BY <1>1, <1>2, <2>1, <2>2, <2>3 DEF Read
<1> QED
  BY <1>3, <1>4 DEF BoxesInv

\* The boxes of a chunk that are media are those from the first moof box on.
LEMMA BoxesAreHandled ==
    ASSUME BoxesInv, NEW k \in 0 .. Len(stream), Read(k), NEW m \in k .. Len(stream),
           Boxes!Handles(BoxRun(k, m - k))
    PROVE  /\ handed' = BoxRun(0, m)
           /\ hasInitSegment' = (moof <= m)
           /\ m < moof => initSegmentParts' = BoxRun(0, m) /\ segments' = <<>>
           /\ moof <= m => /\ initSegmentParts' = BoxRun(0, moof - 1)
                           /\ segments' = BoxRun(moof - 1, m - (moof - 1))
<1> DEFINE N == Len(stream)
           boxes == BoxRun(k, m - k)
           first == IF moof \in DOMAIN stream THEN Boxes!Begin[moof] ELSE Boxes!Length
           isMedia(box) == hasInitSegment \/ box[1] >= first
<1>1. /\ N \in Nat \ {0} /\ DOMAIN stream = 1 .. N
      /\ moof \in 1 .. N + 1 /\ k \in Nat /\ m \in Nat /\ m - k \in Nat /\ StreamOK
  BY StreamIs DEF BoxesInv, StreamOK
<1>2. /\ boxes \in Seq(StreamBoxes) /\ Len(boxes) = m - k /\ DOMAIN boxes = 1 .. m - k
      /\ \A i \in 1 .. m - k : boxes[i] = BoxAt(k + i)
  <2>1. /\ BoxRun(k, m - k) \in Seq(StreamBoxes) /\ Len(BoxRun(k, m - k)) = m - k
        /\ \A i \in 1 .. m - k : BoxRun(k, m - k)[i] = BoxAt(k + i)
    BY <1>1, RunIs
  <2> QED
    BY <2>1
<1>3. PICK n \in 0 .. Len(boxes) :
          /\ \A i \in DOMAIN boxes : isMedia(boxes[i]) <=> i > n
          /\ initSegmentParts' = initSegmentParts \o SubSeq(boxes, 1, n)
          /\ segments' = segments \o SubSeq(boxes, n + 1, Len(boxes))
  BY DEF Boxes!Handles
<1>4. /\ handed' = handed \o boxes
      /\ hasInitSegment' = (hasInitSegment \/ \E i \in DOMAIN boxes : isMedia(boxes[i]))
  BY DEF Boxes!Handles
<1>5. hasInitSegment = (moof <= k) /\ handed = BoxRun(0, k)
  BY DEF Read
<1>6. ASSUME NEW j \in 1 .. N
      PROVE  Boxes!Begin[j] >= first <=> j >= moof
  <2>1. Boxes!Begin[j] \in Nat /\ j \in 1 .. N + 1 /\ j \in Nat
    BY <1>1, BeginsAreNumbers
  <2>2. CASE moof \in 1 .. N
    <3>1. first = Boxes!Begin[moof] /\ first \in Nat
      BY <1>1, <2>2, BeginsAreNumbers
    <3>2. j < moof => Boxes!Begin[j] < first
      BY <1>1, <2>1, <3>1, BeginsIncrease
    <3>3. j > moof => Boxes!Begin[j] > first
      BY <1>1, <2>1, <3>1, BeginsIncrease
    <3> QED
      BY <1>1, <2>1, <2>2, <3>1, <3>2, <3>3
  <2>3. CASE moof = N + 1
    <3>1. first = Boxes!Length /\ first \in Nat /\ Boxes!Begin[N] < first
      BY <1>1, <2>3, LengthIs
    <3>2. j < N => Boxes!Begin[j] < Boxes!Begin[N]
      BY <1>1, <2>1, BeginsIncrease
    <3>3. Boxes!Begin[N] \in Nat
      BY <1>1, BeginsAreNumbers
    <3>4. Boxes!Begin[j] < first
      BY <1>1, <2>1, <3>1, <3>2, <3>3
    <3> QED
      BY <1>1, <2>1, <2>3, <3>1, <3>4
  <2> QED
    BY <1>1, <2>2, <2>3
<1>7. ASSUME NEW i \in 1 .. m - k
      PROVE  isMedia(boxes[i]) <=> k + i >= moof
  <2>1. k + i \in 1 .. N /\ boxes[i][1] = Boxes!Begin[k + i]
    BY <1>1, <1>2 DEF BoxAt
  <2>2. Boxes!Begin[k + i] >= first <=> k + i >= moof
    BY <1>6, <2>1
  <2> HIDE DEF boxes, first
  <2>3. isMedia(boxes[i]) <=> moof <= k \/ k + i >= moof
    BY <1>5, <2>1, <2>2
  <2> QED
    BY <1>1, <2>3
<1> HIDE DEF isMedia, first
\* The boxes of the chunk that belong to the initialization segment.
<1>8. /\ moof <= k => n = 0
      /\ k < moof /\ m < moof => n = m - k
      /\ k < moof /\ moof <= m => n = moof - 1 - k
  <2>1. \A i \in 1 .. m - k : k + i >= moof <=> i > n
    BY <1>2, <1>3, <1>7
  <2>2. n \in 0 .. m - k
    BY <1>2, <1>3
  <2>3. CASE moof <= k
    <3>1. n # 0 => n \in 1 .. m - k /\ k + n >= moof
      BY <1>1, <2>2, <2>3
    <3> QED
      BY <1>1, <2>1, <2>2, <2>3, <3>1
  <2>4. CASE k < moof /\ m < moof
    <3>1. n # m - k => n + 1 \in 1 .. m - k /\ ~(k + (n + 1) >= moof)
      BY <1>1, <2>2, <2>4
    <3>2. n # m - k => n + 1 > n
      BY <2>2
    <3> QED
      BY <1>1, <2>1, <2>4, <3>1, <3>2
  <2>5. CASE k < moof /\ moof <= m
    <3>1. moof - k \in 1 .. m - k /\ k + (moof - k) >= moof
      BY <1>1, <2>5
    <3>2. moof - k > n
      BY <2>1, <3>1
    <3>3. n < moof - 1 - k => n + 1 \in 1 .. m - k /\ ~(k + (n + 1) >= moof) /\ n + 1 > n
      BY <1>1, <2>2, <2>5
    <3>4. ~(n < moof - 1 - k)
      BY <2>1, <3>3
    <3> QED
      BY <1>1, <2>2, <2>5, <3>2, <3>4
  <2> QED
    BY <1>1, <2>3, <2>4, <2>5
<1>9. handed' = BoxRun(0, m)
  <2>1. BoxRun(0, k) \o BoxRun(0 + k, m - k) = BoxRun(0, k + (m - k))
    BY <1>1, RunsJoin
  <2>2. 0 + k = k /\ k + (m - k) = m
    BY <1>1
  <2> QED
    BY <1>4, <1>5, <2>1, <2>2
<1>10. hasInitSegment' = (moof <= m)
  <2>1. (\E i \in DOMAIN boxes : isMedia(boxes[i])) <=> \E i \in 1 .. m - k : k + i >= moof
    BY <1>2, <1>7
  <2>2. (\E i \in 1 .. m - k : k + i >= moof) <=> k < m /\ moof <= m
    <3>1. ASSUME NEW i \in 1 .. m - k, k + i >= moof
          PROVE  k < m /\ moof <= m
      BY <1>1, <3>1
    <3>2. k < m => m - k \in 1 .. m - k /\ k + (m - k) = m
      BY <1>1
    <3>3. m >= moof <=> moof <= m
      BY <1>1
    <3> QED
      BY <3>1, <3>2, <3>3
  <2>3. hasInitSegment' = (moof <= k \/ (k < m /\ moof <= m))
    BY <1>4, <1>5, <2>1, <2>2
  <2> QED
    BY <1>1, <2>3
<1>11. /\ SubSeq(boxes, 1, n) = BoxRun(k, n)
       /\ SubSeq(boxes, n + 1, Len(boxes)) = BoxRun(k + n, m - k - n)
  <2>1. n \in 0 .. m - k
    BY <1>2, <1>3
  <2>2. /\ SubSeq(BoxRun(k, m - k), 1, n) = BoxRun(k, n)
        /\ SubSeq(BoxRun(k, m - k), n + 1, m - k) = BoxRun(k + n, (m - k) - n)
    BY <1>1, <2>1, RunsSplit
  <2> QED
    BY <1>2, <2>2
<1> HIDE DEF boxes
<1>12. \A i \in Nat : BoxRun(i, 0) = <<>>
  BY DEF BoxRun
<1>13. /\ \A a, b \in Nat : BoxRun(a, b) \o <<>> = BoxRun(a, b)
       /\ \A a, b \in Nat : <<>> \o BoxRun(a, b) = BoxRun(a, b)
  BY RunIs, ConcatEmptySeq
<1>14. CASE m < moof
  <2>1. k < moof /\ n = m - k /\ n \in Nat /\ k + n = m /\ m - k - n = 0
    BY <1>1, <1>8, <1>14
  <2>2. initSegmentParts = BoxRun(0, k) /\ segments = <<>>
    BY <2>1 DEF Read
  <2>3. initSegmentParts' = BoxRun(0, k) \o BoxRun(k, n) /\ segments' = <<>> \o BoxRun(m, 0)
    BY <1>3, <1>11, <2>1, <2>2
  <2>4. BoxRun(0, k) \o BoxRun(0 + k, n) = BoxRun(0, k + n)
    <3>1. 0 \in Nat /\ k \in Nat /\ n \in Nat
      BY <1>1, <2>1
    <3> QED
      BY <3>1, RunsJoin
  <2>5. 0 + k = k
    BY <1>1
  <2> QED
    BY <1>1, <1>9, <1>10, <1>12, <1>13, <1>14, <2>1, <2>3, <2>4, <2>5
<1>15. CASE moof <= m /\ k < moof
  <2>1. n = moof - 1 - k /\ n \in Nat /\ k + n = moof - 1 /\ m - k - n = m - (moof - 1)
    BY <1>1, <1>8, <1>15
  <2>2. initSegmentParts = BoxRun(0, k) /\ segments = <<>>
    BY <1>15 DEF Read
  <2>3. /\ initSegmentParts' = BoxRun(0, k) \o BoxRun(k, n)
        /\ segments' = <<>> \o BoxRun(moof - 1, m - (moof - 1))
    BY <1>3, <1>11, <2>1, <2>2
  <2>4. BoxRun(0, k) \o BoxRun(0 + k, n) = BoxRun(0, k + n)
    <3>1. 0 \in Nat /\ k \in Nat /\ n \in Nat
      BY <1>1, <2>1
    <3> QED
      BY <3>1, RunsJoin
  <2>5. 0 + k = k /\ moof - 1 \in Nat /\ m - (moof - 1) \in Nat
    BY <1>1, <1>15
  <2>6. initSegmentParts' = BoxRun(0, moof - 1)
    BY <2>1, <2>3, <2>4, <2>5
  <2>7. segments' = BoxRun(moof - 1, m - (moof - 1))
    BY <1>13, <2>3, <2>5
  <2> QED
    BY <1>1, <1>9, <1>10, <1>15, <2>6, <2>7
<1>16. CASE moof <= k
  <2>1. n = 0 /\ k + n = k /\ m - k - n = m - k /\ moof <= m
    BY <1>1, <1>8, <1>16
  <2>2. initSegmentParts = BoxRun(0, moof - 1) /\ segments = BoxRun(moof - 1, k - (moof - 1))
    BY <1>16 DEF Read
  <2>3. /\ initSegmentParts' = BoxRun(0, moof - 1) \o <<>>
        /\ segments' = BoxRun(moof - 1, k - (moof - 1)) \o BoxRun(k, m - k)
    BY <1>1, <1>3, <1>11, <1>12, <2>1, <2>2
  <2>4. /\ moof - 1 \in Nat /\ k - (moof - 1) \in Nat /\ (moof - 1) + (k - (moof - 1)) = k
        /\ (k - (moof - 1)) + (m - k) = m - (moof - 1)
    BY <1>1, <1>16, SMTT(60)
  <2>5. BoxRun(moof - 1, k - (moof - 1)) \o BoxRun((moof - 1) + (k - (moof - 1)), m - k)
            = BoxRun(moof - 1, (k - (moof - 1)) + (m - k))
    <3>1. m - k \in Nat
      BY <1>1
    <3> QED
      BY <2>4, <3>1, RunsJoin, Zenon
  <2>6. initSegmentParts' = BoxRun(0, moof - 1)
    BY <1>13, <2>3, <2>4
  <2>7. segments' = BoxRun(moof - 1, m - (moof - 1))
    BY <2>3, <2>4, <2>5
  <2> QED
    BY <1>1, <1>9, <1>10, <2>1, <2>6, <2>7
<1> QED
  BY <1>1, <1>14, <1>15, <1>16


LEMMA StreamStays ==
    ASSUME stream' = stream, moof' = moof
    PROVE  /\ StreamOK' = StreamOK
           /\ Boxes!Begin' = Boxes!Begin /\ Boxes!Length' = Boxes!Length
           /\ \A from, n : BoxRun(from, n)' = BoxRun(from, n)
           /\ \A n : AreValid(n)' = AreValid(n)
<1>1. Boxes!Begin' = Boxes!Begin
  BY DEF Boxes!Begin
<1>2. Boxes!Length' = Boxes!Length
  BY <1>1 DEF Boxes!Length
<1>3. StreamOK' = StreamOK
  BY DEF StreamOK
<1>4. \A from, n : BoxRun(from, n)' = BoxRun(from, n)
  BY <1>1 DEF BoxRun
<1>5. \A n : AreValid(n)' = AreValid(n)
  BY DEF AreValid
<1> QED
  BY <1>1, <1>2, <1>3, <1>4, <1>5

LEMMA BoxesStep ==
    ASSUME BoxesInv, Boxes!Chunk
    PROVE  BoxesInv'
<1>1. PICK k \in 0 .. Len(stream) : Read(k)
  BY DEF BoxesInv
<1>2. PICK n \in 1 .. Boxes!Length - received :
          LET end == received + n
              length == pendingLength + n
              parsed == Boxes!Parse(received - pendingLength, end)
          IN  /\ received' = end
              /\ IF pendingLength # 0 /\ Boxes!IsCollecting(length)
                 THEN /\ pendingLength' = length
                      /\ UNCHANGED <<boxSize, isListening, handed, initSegmentParts,
                                     hasInitSegment, segments>>
                 ELSE /\ pendingLength' = parsed.stash
                      /\ boxSize' = parsed.size
                      /\ isListening' = parsed.isValid
                      /\ Boxes!Handles(parsed.boxes)
  BY DEF Boxes!Chunk
<1>3. /\ StreamOK /\ received \in 0 .. Boxes!Length /\ isListening = TRUE
      /\ stream' = stream /\ moof' = moof
  BY DEF BoxesInv, Boxes!Chunk
<1>4. /\ Len(stream) \in Nat \ {0} /\ Boxes!Length \in Nat /\ k \in Nat
      /\ Boxes!Begin[k + 1] \in Nat /\ received \in Nat
      /\ \A i \in 1 .. Len(stream) : stream[i] \in Nat \ {0}
  <2>1. k + 1 \in 1 .. Len(stream) + 1
    BY <1>3, StreamIs
  <2> QED
    BY <1>3, <2>1, StreamIs, LengthIs, BeginsAreNumbers
<1>5. /\ received + n \in 0 .. Boxes!Length /\ received <= received + n
      /\ received' = received + n
  BY <1>2, <1>3, <1>4
<1>6. /\ StreamOK' = StreamOK
      /\ Boxes!Begin' = Boxes!Begin /\ Boxes!Length' = Boxes!Length
      /\ \A from, o : BoxRun(from, o)' = BoxRun(from, o)
      /\ \A o : AreValid(o)' = AreValid(o)
  BY <1>3, StreamStays
<1>7. pendingLength = received - Boxes!Begin[k + 1] /\ Waits(k, pendingLength, boxSize)
  BY <1>1, <1>3 DEF Read
<1>8. Boxes!Begin[k + 1] <= received + n
  BY <1>1, <1>4, <1>5 DEF Read
<1>9. CASE pendingLength # 0 /\ Boxes!IsCollecting(pendingLength + n)
  <2>1. /\ pendingLength' = pendingLength + n
        /\ UNCHANGED <<boxSize, isListening, handed, initSegmentParts, hasInitSegment, segments>>
    BY <1>2, <1>9
  <2>2. pendingLength' = received' - Boxes!Begin[k + 1]
    BY <1>4, <1>5, <1>7, <2>1
  <2>3. /\ k < Len(stream) /\ pendingLength \in HeaderSize .. boxSize - 1
        /\ boxSize = stream[k + 1] /\ pendingLength + n < boxSize
    BY <1>7, <1>9, BoxesAssumption DEF Waits, Boxes!IsCollecting
  <2>4. boxSize \in Nat
    BY <1>4, <2>3
  <2>5. pendingLength + n \in HeaderSize .. boxSize - 1
    BY <2>3, <2>4, BoxesAssumption
  <2>6. Waits(k, pendingLength, boxSize)'
    BY <1>3, <2>1, <2>3, <2>5 DEF Waits
  <2>7. Boxes!Begin[k + 1] <= received'
    BY <1>5, <1>8
  <2>8. Read(k)'
    BY <1>1, <1>3, <1>6, <2>1, <2>2, <2>6, <2>7 DEF Read
  <2> QED
    BY <1>3, <1>5, <1>6, <2>1, <2>8 DEF BoxesInv
<1>10. CASE ~(pendingLength # 0 /\ Boxes!IsCollecting(pendingLength + n))
  <2> DEFINE parsed == Boxes!Parse(Boxes!Begin[k + 1], received + n)
  <2>1. received - pendingLength = Boxes!Begin[k + 1]
    BY <1>4, <1>7
  <2>2. /\ pendingLength' = parsed.stash /\ boxSize' = parsed.size
        /\ isListening' = parsed.isValid /\ Boxes!Handles(parsed.boxes)
    BY <1>2, <1>10, <2>1
  <2>3. Parsed(parsed, k, received + n)
    BY <1>1, <1>3, <1>5, <1>8, ParseIsRight DEF Read
  <2> DEFINE end == received + n
  <2> HIDE DEF parsed, end
  <2>4. PICK m, size, stash, isValid :
            /\ m \in k .. Len(stream)
            /\ parsed = Boxes!Result(BoxRun(k, m - k), stash, size, isValid)
            /\ AreValid(m) /\ Boxes!Begin[m + 1] <= end
            /\ \/ /\ isValid = TRUE /\ stash = end - Boxes!Begin[m + 1]
                  /\ Waits(m, stash, size)
               \/ /\ isValid = FALSE
                  /\ m < Len(stream) /\ stream[m + 1] < HeaderSize
    <3>1. Parsed(parsed, k, end)
      BY <2>3 DEF end
    <3> QED
      BY <3>1 DEF Parsed
  <2>5. /\ pendingLength' = stash /\ boxSize' = size /\ isListening' = isValid
        /\ Boxes!Handles(BoxRun(k, m - k))
    BY <2>2, <2>4 DEF Boxes!Result
  <2>6. /\ handed' = BoxRun(0, m)
        /\ hasInitSegment' = (moof <= m)
        /\ m < moof => initSegmentParts' = BoxRun(0, m) /\ segments' = <<>>
        /\ moof <= m => /\ initSegmentParts' = BoxRun(0, moof - 1)
                        /\ segments' = BoxRun(moof - 1, m - (moof - 1))
    BY <1>1, <2>4, <2>5, BoxesAreHandled
  <2>7. isListening' => /\ pendingLength' = received' - Boxes!Begin[m + 1]
                        /\ Waits(m, pendingLength, boxSize)'
    <3> SUFFICES ASSUME isListening'
                 PROVE  /\ pendingLength' = received' - Boxes!Begin[m + 1]
                        /\ Waits(m, pendingLength, boxSize)'
      OBVIOUS
    <3>1. isValid # FALSE
      BY <2>5, Zenon
    <3>2. stash = end - Boxes!Begin[m + 1] /\ Waits(m, stash, size)
      BY <2>4, <3>1
    <3> QED
      BY <1>3, <1>5, <2>5, <3>2 DEF Waits, end
  <2>8. ~isListening' => m < Len(stream) /\ stream[m + 1] < HeaderSize
    BY <2>4, <2>5
  <2>9. Boxes!Begin[m + 1] <= received'
    BY <1>5, <2>4 DEF end
  <2>10. Read(m)'
    BY <1>3, <1>6, <2>4, <2>6, <2>7, <2>8, <2>9 DEF Read
  <2>11. m \in 0 .. Len(stream)
    BY <1>4, <2>4
  <2>12. isListening' \in BOOLEAN
    BY <2>4, <2>5, Zenon
  <2> QED
    BY <1>3, <1>5, <1>6, <2>10, <2>11, <2>12 DEF BoxesInv
<1> QED
  BY <1>9, <1>10

LEMMA BoxesNext ==
    ASSUME BoxesInv, [Boxes!Next]_(Boxes!vars)
    PROVE  BoxesInv' \/ Fresh'
<1>1. CASE Boxes!Chunk
  BY <1>1, BoxesStep
<1>2. CASE Boxes!NextChild
  BY <1>2 DEF Boxes!NextChild, Boxes!Starts, Fresh, StreamOK
<1>3. CASE UNCHANGED Boxes!vars
  <2>1. PICK k \in 0 .. Len(stream) : Read(k)
    BY DEF BoxesInv
  <2>2. /\ StreamOK' = StreamOK
        /\ Boxes!Begin' = Boxes!Begin /\ Boxes!Length' = Boxes!Length
        /\ \A from, o : BoxRun(from, o)' = BoxRun(from, o)
        /\ \A o : AreValid(o)' = AreValid(o)
    BY <1>3, StreamStays DEF Boxes!vars, Boxes!readerVars
  <2>3. /\ UNCHANGED <<stream, moof, received, pendingLength, boxSize, isListening, handed,
                       initSegmentParts, hasInitSegment, segments>>
    BY <1>3 DEF Boxes!vars, Boxes!readerVars
  <2>4. Waits(k, pendingLength, boxSize)' = Waits(k, pendingLength, boxSize)
    BY <2>3 DEF Waits
  <2>5. Read(k)'
    BY <2>1, <2>2, <2>3, <2>4 DEF Read
  <2> QED
    BY <2>2, <2>3, <2>5 DEF BoxesInv
<1> QED
  BY <1>1, <1>2, <1>3 DEF Boxes!Next

LEMMA BoxesComplete ==
    ASSUME BoxesInv, NEW k \in 0 .. Len(stream), Read(k)
    PROVE  Boxes!Complete(received) = 1 .. k
<1> DEFINE N == Len(stream)
<1>1. /\ StreamOK /\ N \in Nat \ {0} /\ DOMAIN stream = 1 .. N /\ received \in Nat
      /\ isListening \in BOOLEAN /\ k \in Nat
      /\ \A i \in 1 .. N : stream[i] \in Nat \ {0}
      /\ \A i \in 1 .. N + 1 : Boxes!Begin[i] \in Nat
      /\ \A i \in 1 .. N : Boxes!Begin[i + 1] = Boxes!Begin[i] + stream[i]
  BY StreamIs, LengthIs, BeginsAre, BeginsAreNumbers DEF BoxesInv
<1>2. ASSUME NEW i \in 1 .. k
      PROVE  i \in Boxes!Complete(received)
  <2>1. i \in 1 .. N /\ \A j \in 1 .. i : stream[j] >= HeaderSize
    BY <1>1 DEF Read, AreValid
  <2>2. i + 1 \in 1 .. N + 1 /\ k + 1 \in 1 .. N + 1
    BY <1>1
  <2>3. i < k => Boxes!Begin[i + 1] < Boxes!Begin[k + 1]
    <3>1. i < k => i + 1 < k + 1
      BY <1>1
    <3> QED
      BY <1>1, <2>2, <3>1, BeginsIncrease
  <2>4. Boxes!Begin[k + 1] <= received
    BY DEF Read
  <2>5. i < k \/ i = k
    BY <1>1
  <2>6. Boxes!Begin[i + 1] \in Nat /\ Boxes!Begin[k + 1] \in Nat
    BY <1>1, <2>2
  <2>7. Boxes!Begin[i + 1] <= received
    BY <1>1, <2>3, <2>4, <2>5, <2>6
  <2>8. Boxes!Begin[i] + stream[i] <= received
    BY <1>1, <2>1, <2>7
  <2> QED
    BY <1>1, <2>1, <2>8 DEF Boxes!Complete
<1>3. ASSUME NEW i \in Boxes!Complete(received), i \notin 1 .. k
      PROVE  FALSE
  <2>1. /\ i \in 1 .. N /\ \A j \in 1 .. i : stream[j] >= HeaderSize
        /\ Boxes!Begin[i] + stream[i] <= received
    BY <1>1 DEF Boxes!Complete
  <2>2. k + 1 \in 1 .. i /\ k + 1 \in 1 .. N /\ i + 1 \in 1 .. N + 1 /\ k < N /\ k + 1 + 1 \in 1 .. N + 1
    BY <1>1, <1>3, <2>1
  <2>3. stream[k + 1] >= HeaderSize /\ stream[k + 1] \in Nat
    BY <1>1, <2>1, <2>2
  <2>4. isListening
    BY <1>1, <2>3, BoxesAssumption DEF Read
  <2>5. pendingLength = received - Boxes!Begin[k + 1] /\ Waits(k, pendingLength, boxSize)
    BY <2>4 DEF Read
  <2>6. pendingLength < stream[k + 1]
    BY <2>3, <2>5, BoxesAssumption DEF Waits
  <2>7. received < Boxes!Begin[k + 1 + 1]
    <3>1. Boxes!Begin[k + 1 + 1] = Boxes!Begin[k + 1] + stream[k + 1] /\ Boxes!Begin[k + 1] \in Nat
      BY <1>1, <2>2
    <3> QED
      BY <1>1, <2>3, <2>5, <2>6, <3>1
  <2>8. k + 1 + 1 = i + 1 \/ Boxes!Begin[k + 1 + 1] < Boxes!Begin[i + 1]
    <3>1. k + 1 + 1 = i + 1 \/ k + 1 + 1 < i + 1
      BY <1>1, <2>1, <2>2
    <3> QED
      BY <1>1, <2>2, <3>1, BeginsIncrease
  <2>9. Boxes!Begin[i + 1] = Boxes!Begin[i] + stream[i] /\ Boxes!Begin[i + 1] \in Nat
        /\ Boxes!Begin[k + 1 + 1] \in Nat
    BY <1>1, <2>1, <2>2
  <2> QED
    BY <1>1, <2>1, <2>7, <2>8, <2>9
<1>4. Boxes!Complete(received) \subseteq 1 .. k
  BY <1>3
<1> QED
  BY <1>2, <1>4

LEMMA BoxesInvImplies == BoxesInv => Boxes!BoxesAreWhole
<1> SUFFICES ASSUME BoxesInv
             PROVE  Boxes!BoxesAreWhole
  OBVIOUS
<1>1. PICK k \in 0 .. Len(stream) : Read(k)
  BY DEF BoxesInv
<1>2. k \in Nat /\ moof \in Nat \ {0} /\ handed = BoxRun(0, k) /\ 0 \in Nat
  BY <1>1, StreamIs DEF BoxesInv, Read
<1>3. Len(handed) = k /\ DOMAIN handed = 1 .. k /\ \A i \in 1 .. k : handed[i] = BoxAt(0 + i)
  <2>1. /\ BoxRun(0, k) \in Seq(StreamBoxes) /\ Len(BoxRun(0, k)) = k
        /\ \A i \in 1 .. k : BoxRun(0, k)[i] = BoxAt(0 + i)
    BY <1>2, RunIs
  <2> QED
    BY <1>2, <2>1
<1>4. Len(handed) = Boxes!Cardinality(Boxes!Complete(received))
  <2>1. Boxes!Complete(received) = 1 .. k
    BY <1>1, BoxesComplete
  <2>2. Cardinality(1 .. k) = k
    BY <1>2, FS_Interval
  <2> QED
    BY <1>3, <2>1, <2>2 DEF Boxes!Cardinality, Cardinality
<1>5. \A i \in DOMAIN handed : handed[i] = <<Boxes!Begin[i], stream[i]>>
  BY <1>3 DEF BoxAt
<1>6. CASE k < moof
  <2>1. initSegmentParts = BoxRun(0, k) /\ segments = <<>>
    BY <1>1, <1>6 DEF Read
  <2>2. BoxRun(0, k) \o <<>> = BoxRun(0, k)
    BY <1>2, RunIs, ConcatEmptySeq
  <2>3. Len(initSegmentParts) = k
    BY <1>2, <1>3, <2>1
  <2> QED
    BY <1>2, <1>4, <1>5, <1>6, <2>1, <2>2, <2>3 DEF Boxes!BoxesAreWhole
<1>7. CASE moof <= k
  <2>1. initSegmentParts = BoxRun(0, moof - 1) /\ segments = BoxRun(moof - 1, k - (moof - 1))
    BY <1>1, <1>7 DEF Read
  <2>2. moof - 1 \in Nat /\ k - (moof - 1) \in Nat /\ (moof - 1) + (k - (moof - 1)) = k
        /\ 0 + (moof - 1) = moof - 1 /\ moof - 1 < moof
    BY <1>2, <1>7
  <2>3. BoxRun(0, moof - 1) \o BoxRun(0 + (moof - 1), k - (moof - 1))
            = BoxRun(0, (moof - 1) + (k - (moof - 1)))
    BY <1>2, <2>2, RunsJoin
  <2>4. handed = initSegmentParts \o segments
    BY <1>2, <2>1, <2>2, <2>3
  <2>5. Len(initSegmentParts) = moof - 1
    BY <1>2, <2>1, <2>2, RunIs
  <2> QED
    BY <1>4, <1>5, <2>2, <2>4, <2>5 DEF Boxes!BoxesAreWhole
<1> QED
  BY <1>2, <1>6, <1>7

\* Whatever the chunks FFmpeg's output comes in, every complete box is handed on whole, once
\* and in order (push, parse, handleParsedBox), for streams and boxes of every length.
THEOREM BoxesStayWhole == Boxes!Spec => []BoxesAreWhole
<1>1. Boxes!Init => Fresh
  BY DEF Boxes!Init, Fresh, StreamOK
<1>2. BoxesInv /\ [Boxes!Next]_(Boxes!vars) => BoxesInv' \/ Fresh'
  BY BoxesNext
<1>3. BoxesInv => BoxesAreWhole
  BY BoxesInvImplies DEF BoxesAreWhole
<1> QED
  BY <1>1, <1>2, <1>3, FreshIsSound, PTL DEF Boxes!Spec

-----------------------------------------------------------------------------
(* The server of the configuration interface.                              *)

IsRecorded(r) == validation[r] \in {"answered", "shown"}

KeptMessages == [id : Validations, text : Validations \cup {None}]

ServerTypes ==
    /\ validation \in [Validations -> Ui!Phases]
    /\ errorInfo \in [Validations -> Validations \cup {None}]
    /\ message \in [Validations -> Validations \cup {None}]
    /\ keptErrors \in Seq(KeptMessages)
    /\ recorded \in Seq(Validations)
    /\ Len(keptErrors) <= MaxStored

ErrorsAreOwn ==
    \A r \in Validations : errorInfo[r] \in {None, r} /\ message[r] \in {None, r}

\* A validation recorded its message once, if it was answered.
RecordedOnce ==
    /\ \A r \in Validations : IsRecorded(r) <=> \E j \in DOMAIN recorded : recorded[j] = r
    /\ \A j, k \in DOMAIN recorded : recorded[j] = recorded[k] => j = k

\* A message that is kept is that of a validation that was answered, and was not fetched.
KeptOnce ==
    /\ \A i, j \in DOMAIN keptErrors : keptErrors[i].id = keptErrors[j].id => i = j
    /\ \A i \in DOMAIN keptErrors :
           LET r == keptErrors[i].id
           IN  validation[r] = "answered" /\ keptErrors[i].text = errorInfo[r]

\* What is kept behind a message was recorded after it; and behind one that was neither
\* kept nor fetched, MaxStored others were recorded.
LastAreKept ==
    \A j \in DOMAIN recorded :
        /\ \A i \in Ui!At(recorded[j]) : j + Len(keptErrors) <= Len(recorded) + i
        /\ validation[recorded[j]] = "answered" /\ Ui!At(recorded[j]) = {} =>
               j + MaxStored <= Len(recorded)

ServerInv == ServerTypes /\ ErrorsAreOwn /\ RecordedOnce /\ KeptOnce /\ LastAreKept

LEMMA TailIsRest ==
    ASSUME NEW S, NEW s \in Seq(S), s # <<>>
    PROVE  /\ Tail(s) \in Seq(S) /\ Len(Tail(s)) = Len(s) - 1
           /\ \A i \in 1 .. Len(s) - 1 : Tail(s)[i] = s[i + 1]
OBVIOUS

\* A validation that is answered records its message behind the others, the first of which
\* may go.
LEMMA AnswersAreKept ==
    ASSUME ServerInv, NEW r \in Validations, NEW d, NEW t \in {None, r},
           validation[r] \in {"vetting", "connecting"},
           Ui!Answers(r, d, t), message' = message
    PROVE  ServerInv'
<1> DEFINE new == [id |-> r, text |-> t]
           kept == Append(keptErrors, new)
<1>1. Ui!At(r) = {} /\ ~IsRecorded(r)
  BY DEF ServerInv, KeptOnce, Ui!At, IsRecorded
<1>2. /\ validation' = [validation EXCEPT ![r] = "answered"]
      /\ errorInfo' = [errorInfo EXCEPT ![r] = t]
      /\ recorded' = Append(recorded, r)
      /\ keptErrors' = IF Len(kept) > MaxStored THEN Tail(kept) ELSE kept
  BY <1>1 DEF Ui!Answers, Ui!RecordError, Ui!Others
<1>3. /\ DOMAIN recorded = 1 .. Len(recorded) /\ Len(recorded) \in Nat
      /\ DOMAIN keptErrors = 1 .. Len(keptErrors) /\ Len(keptErrors) \in Nat
      /\ new \in KeptMessages
      /\ \A i \in DOMAIN keptErrors : keptErrors[i].id \in Validations
  <2>1. new \in KeptMessages /\ \A m \in KeptMessages : m.id \in Validations
    BY DEF KeptMessages
  <2> QED
    BY <2>1 DEF ServerInv, ServerTypes
<1>4. /\ recorded' \in Seq(Validations)
      /\ Len(recorded') = Len(recorded) + 1
      /\ DOMAIN recorded' = 1 .. Len(recorded) + 1
      /\ \A j \in DOMAIN recorded : recorded'[j] = recorded[j]
      /\ recorded'[Len(recorded) + 1] = r
  BY <1>2, <1>3 DEF ServerInv, ServerTypes
<1>5. /\ kept \in Seq(KeptMessages)
      /\ Len(kept) = Len(keptErrors) + 1
      /\ DOMAIN kept = 1 .. Len(keptErrors) + 1
      /\ \A i \in DOMAIN keptErrors : kept[i] = keptErrors[i]
      /\ kept[Len(keptErrors) + 1] = new
  BY <1>3 DEF ServerInv, ServerTypes
<1> HIDE DEF kept
\* How many of the first messages go.
<1> DEFINE gone == IF Len(kept) > MaxStored THEN 1 ELSE 0
<1>6. /\ keptErrors' \in Seq(KeptMessages)
      /\ Len(keptErrors') = Len(kept) - gone
      /\ DOMAIN keptErrors' = 1 .. Len(kept) - gone
      /\ \A i \in 1 .. Len(kept) - gone : keptErrors'[i] = kept[i + gone]
      /\ Len(keptErrors') <= MaxStored
      /\ gone = 1 => Len(keptErrors) = MaxStored
  <2>1. kept # <<>> /\ Len(keptErrors) <= MaxStored
    BY <1>5 DEF ServerInv, ServerTypes
  <2>2. /\ Tail(kept) \in Seq(KeptMessages)
        /\ Len(Tail(kept)) = Len(kept) - 1
        /\ \A i \in 1 .. Len(kept) - 1 : Tail(kept)[i] = kept[i + 1]
    BY <1>5, <2>1, TailIsRest
  <2>3. CASE Len(kept) > MaxStored
    <3>1. keptErrors' = Tail(kept) /\ gone = 1
      BY <1>2, <2>3
    <3>2. Len(keptErrors) = MaxStored
      <4>1. Len(kept) = Len(keptErrors) + 1 /\ Len(keptErrors) \in Nat /\ MaxStored \in Nat
        BY <1>3, <1>5, ServerAssumption
      <4> QED
        BY <2>1, <2>3, <4>1
    <3> HIDE DEF gone
    <3>3. DOMAIN keptErrors' = 1 .. Len(kept) - gone
      BY <2>2, <3>1
    <3> QED
      BY <1>3, <1>5, <2>2, <3>1, <3>2, <3>3, ServerAssumption
  <2>4. CASE ~(Len(kept) > MaxStored)
    BY <1>2, <1>3, <1>5, <2>1, <2>4, ServerAssumption
  <2> QED
    BY <2>3, <2>4
<1>7. gone \in {0, 1}
  OBVIOUS
<1> HIDE DEF gone
<1>8. ServerTypes'
  BY <1>2, <1>4, <1>6 DEF ServerInv, ServerTypes, Ui!Phases
<1>9. ErrorsAreOwn'
  BY <1>2 DEF ServerInv, ServerTypes, ErrorsAreOwn
<1>10. RecordedOnce'
  <2>1. \A s \in Validations : IsRecorded(s)' <=> IsRecorded(s) \/ s = r
    BY <1>2 DEF ServerInv, ServerTypes, IsRecorded
  <2>2. \A j \in DOMAIN recorded : recorded[j] # r
    BY <1>1 DEF ServerInv, RecordedOnce
  <2>3. \A j \in DOMAIN recorded' : j \in DOMAIN recorded \/ j = Len(recorded) + 1
    BY <1>3, <1>4
  <2>4. \A s \in Validations : IsRecorded(s)' <=> \E j \in DOMAIN recorded' : recorded'[j] = s
    BY <1>3, <1>4, <2>1, <2>3 DEF ServerInv, RecordedOnce
  <2>5. \A j, k \in DOMAIN recorded' : recorded'[j] = recorded'[k] => j = k
    BY <1>4, <2>2, <2>3 DEF ServerInv, RecordedOnce
  <2> QED
    BY <2>4, <2>5 DEF RecordedOnce
<1>11. \A i \in DOMAIN kept : \/ i \in DOMAIN keptErrors /\ kept[i] = keptErrors[i]
                              \/ i = Len(kept) /\ kept[i] = new
  <2> SUFFICES ASSUME NEW i \in DOMAIN kept
               PROVE  i \in DOMAIN keptErrors \/ i = Len(kept)
    BY <1>5
  <2> QED
    BY <1>3, <1>5
<1>12. /\ \A i, j \in DOMAIN kept : kept[i].id = kept[j].id => i = j
       /\ \A i \in DOMAIN kept : LET s == kept[i].id IN
             /\ s \in Validations
             /\ validation'[s] = "answered" /\ kept[i].text = errorInfo'[s]
  <2>1. \A i \in DOMAIN keptErrors : keptErrors[i].id \in Validations /\ keptErrors[i].id # r
    BY <1>1, <1>3 DEF Ui!At
  <2> QED
    BY <1>2, <1>5, <1>11, <2>1 DEF ServerInv, ServerTypes, KeptOnce
<1>13. \A i \in DOMAIN keptErrors' : i + gone \in DOMAIN kept /\ keptErrors'[i] = kept[i + gone]
  BY <1>3, <1>5, <1>6, <1>7
<1>14. KeptOnce'
  <2>1. ASSUME NEW i \in DOMAIN keptErrors', NEW j \in DOMAIN keptErrors',
               keptErrors'[i].id = keptErrors'[j].id
        PROVE  i = j
    <3>1. i + gone = j + gone
      BY <1>12, <1>13, <2>1
    <3> QED
      BY <1>3, <1>5, <1>6, <1>7, <3>1
  <2>2. \A i \in DOMAIN keptErrors' :
            LET s == keptErrors'[i].id
            IN  validation'[s] = "answered" /\ keptErrors'[i].text = errorInfo'[s]
    BY <1>12, <1>13
  <2> QED
    BY <2>1, <2>2 DEF KeptOnce
<1>15. LastAreKept'
  <2> SUFFICES ASSUME NEW j \in DOMAIN recorded'
               PROVE  /\ \A i \in Ui!At(recorded[j])' :
                             j + Len(keptErrors') <= Len(recorded') + i
                      /\ validation'[recorded'[j]] = "answered" /\ Ui!At(recorded[j])' = {} =>
                             j + MaxStored <= Len(recorded')
    BY DEF LastAreKept
  <2>1. CASE j = Len(recorded) + 1
    <3>1. recorded'[j] = r
      BY <1>4, <2>1
    <3>2. \A i \in Ui!At(recorded[j])' : i + gone = Len(kept)
      BY <1>1, <1>11, <1>13, <3>1 DEF Ui!At
    <3>3. \A i \in Ui!At(recorded[j])' : j + Len(keptErrors') <= Len(recorded') + i
      <4> SUFFICES ASSUME NEW i \in Ui!At(recorded[j])'
                   PROVE  j + Len(keptErrors') <= Len(recorded') + i
        OBVIOUS
      <4>1. i \in 1 .. Len(kept) - gone
        BY <1>6 DEF Ui!At
      <4> QED
        BY <1>3, <1>4, <1>5, <1>6, <1>7, <2>1, <3>2, <4>1
    <3>4. CASE MaxStored = 0
      BY <1>3, <1>4, <2>1, <3>3, <3>4
    <3>5. CASE MaxStored # 0
      <4>1. Len(kept) - gone \in DOMAIN keptErrors'
        <5>1. gone = 1 => Len(keptErrors) > 0
          BY <1>3, <1>6, <3>5, ServerAssumption
        <5> QED
          BY <1>3, <1>5, <1>6, <1>7, <5>1
      <4>2. keptErrors'[Len(kept) - gone] = new
        BY <1>3, <1>5, <1>6, <1>7, <4>1
      <4>3. Ui!At(recorded[j])' # {}
        BY <3>1, <4>1, <4>2 DEF Ui!At
      <4> QED
        BY <3>3, <4>3
    <3> QED
      BY <3>4, <3>5
  <2>2. CASE j \in DOMAIN recorded
    <3> DEFINE s == recorded[j]
    <3>1. recorded'[j] = s /\ s \in Validations
      BY <1>4, <2>2 DEF ServerInv, ServerTypes
    <3>2. s # r
      BY <1>1, <2>2 DEF ServerInv, RecordedOnce
    <3>3. validation'[s] = validation[s]
      BY <1>2, <3>1, <3>2 DEF ServerInv, ServerTypes
    <3>4. ASSUME NEW i \in Ui!At(recorded[j])'
          PROVE  j + Len(keptErrors') <= Len(recorded') + i
      <4>1. i \in DOMAIN keptErrors' /\ kept[i + gone].id = s /\ i + gone \in DOMAIN kept
        BY <1>13, <3>1, <3>4 DEF Ui!At
      <4>2. i + gone \in Ui!At(s)
        BY <1>11, <3>2, <4>1 DEF Ui!At
      <4>3. j + Len(keptErrors) <= Len(recorded) + i + gone
        BY <1>3, <1>6, <1>7, <2>2, <4>1, <4>2 DEF ServerInv, LastAreKept
      <4> QED
        BY <1>3, <1>4, <1>5, <1>6, <1>7, <2>2, <4>1, <4>3
    <3>5. ASSUME validation'[s] = "answered", Ui!At(recorded[j])' = {}
          PROVE  j + MaxStored <= Len(recorded')
      <4>1. CASE Ui!At(s) = {}
        <5>1. j + MaxStored <= Len(recorded)
          BY <2>2, <3>3, <3>5, <4>1 DEF ServerInv, LastAreKept
        <5> QED
          BY <1>3, <1>4, <2>2, <5>1, ServerAssumption
      <4>2. ASSUME NEW i \in Ui!At(s)
            PROVE  j + MaxStored <= Len(recorded')
        <5>1. i \in 1 .. Len(keptErrors) /\ keptErrors[i].id = s
          BY <1>3, <4>2 DEF Ui!At
        <5>2. i = 1 /\ gone = 1
          <6> SUFFICES ASSUME ~(i = 1 /\ gone = 1) PROVE FALSE
            OBVIOUS
          <6>1. i - gone \in DOMAIN keptErrors' /\ keptErrors'[i - gone] = kept[i]
            <7>1. i \in 1 .. Len(kept) /\ Len(kept) \in Nat
              BY <1>3, <1>5, <5>1
            <7>2. i - gone \in 1 .. Len(kept) - gone /\ (i - gone) + gone = i
              <8>1. CASE gone = 0
                BY <7>1, <8>1
              <8>2. CASE gone = 1
                BY <7>1, <8>2
              <8> QED
                BY <1>7, <8>1, <8>2
            <7> QED
              BY <1>6, <7>2
          <6>2. kept[i].id = s
            BY <1>3, <1>5, <5>1
          <6> QED
            BY <3>1, <3>5, <6>1, <6>2 DEF Ui!At
        <5>3. j + Len(keptErrors) <= Len(recorded) + i
          BY <2>2, <4>2 DEF ServerInv, LastAreKept
        <5> QED
          BY <1>3, <1>4, <1>6, <2>2, <5>2, <5>3
      <4> QED
        BY <4>1, <4>2
    <3> QED
      BY <3>1, <3>4, <3>5
  <2> QED
    BY <1>3, <1>4, <2>1, <2>2
<1> QED
  BY <1>8, <1>9, <1>10, <1>14, <1>15 DEF ServerInv

LEMMA RemovedAt ==
    ASSUME NEW S, NEW s \in Seq(S), NEW k \in DOMAIN s
    PROVE  LET t == Ui!RemoveAt(s, k) IN
           /\ t \in Seq(S) /\ Len(t) = Len(s) - 1
           /\ \A i \in 1 .. Len(s) - 1 : t[i] = IF i < k THEN s[i] ELSE s[i + 1]
<1> DEFINE t == Ui!RemoveAt(s, k)
           before == SubSeq(s, 1, k - 1)
           behind == SubSeq(s, k + 1, Len(s))
<1>1. k \in 1 .. Len(s) /\ Len(s) \in Nat
  OBVIOUS
<1>2. /\ before \in Seq(S) /\ Len(before) = k - 1
      /\ \A i \in 1 .. k - 1 : before[i] = s[i]
  BY <1>1, SubSeqProperties
<1>3. /\ behind \in Seq(S) /\ Len(behind) = Len(s) - k
      /\ \A i \in 1 .. Len(s) - k : behind[i] = s[k + i]
  BY <1>1, SubSeqProperties
<1>4. t = before \o behind
  BY DEF Ui!RemoveAt
<1> HIDE DEF t, before, behind
<1>5. /\ t \in Seq(S) /\ Len(t) = Len(s) - 1
      /\ \A i \in 1 .. Len(s) - 1 :
             t[i] = IF i <= k - 1 THEN before[i] ELSE behind[i - (k - 1)]
  <2>1. /\ t \in Seq(S) /\ Len(t) = Len(before) + Len(behind)
        /\ \A i \in 1 .. Len(before) + Len(behind) :
               t[i] = IF i <= Len(before) THEN before[i] ELSE behind[i - Len(before)]
    BY <1>2, <1>3, <1>4, ConcatProperties
  <2>2. Len(before) = k - 1 /\ Len(before) + Len(behind) = Len(s) - 1
    BY <1>1, <1>2, <1>3
  <2> QED
    BY <2>1, <2>2
<1>6. ASSUME NEW i \in 1 .. Len(s) - 1
      PROVE  t[i] = IF i < k THEN s[i] ELSE s[i + 1]
  <2>1. CASE i < k
    BY <1>1, <1>2, <1>5, <2>1
  <2>2. CASE ~(i < k)
    <3>1. i - (k - 1) \in 1 .. Len(s) - k /\ k + (i - (k - 1)) = i + 1
      BY <1>1, <2>2
    <3>2. behind[i - (k - 1)] = s[i + 1]
      BY <1>3, <3>1, Zenon
    <3>3. t[i] = behind[i - (k - 1)]
      BY <1>1, <1>5, <2>2
    <3> QED
      BY <2>2, <3>2, <3>3
  <2> QED
    BY <2>1, <2>2
<1> USE DEF t
<1> QED
  BY <1>5, <1>6

\* A message that is fetched goes, and the others close up.
LEMMA FetchedIsGone ==
    ASSUME ServerInv, NEW r \in Validations, Ui!GetErrorMessage(r)
    PROVE  ServerInv'
<1>1. /\ validation[r] = "answered"
      /\ validation' = [validation EXCEPT ![r] = "shown"]
      /\ message' = [message EXCEPT ![r] = Ui!Message(r)]
      /\ keptErrors' = Ui!Others(r)
      /\ UNCHANGED <<errorInfo, recorded>>
  BY DEF Ui!GetErrorMessage
<1>2. /\ DOMAIN recorded = 1 .. Len(recorded) /\ Len(recorded) \in Nat
      /\ DOMAIN keptErrors = 1 .. Len(keptErrors) /\ Len(keptErrors) \in Nat
      /\ \A j \in DOMAIN recorded : recorded[j] \in Validations
      /\ \A i \in DOMAIN keptErrors : keptErrors[i].id \in Validations
  <2>1. \A m \in KeptMessages : m.id \in Validations
    BY DEF KeptMessages
  <2> QED
    BY <2>1 DEF ServerInv, ServerTypes
<1>3. Ui!Message(r) \in {None, r}
  BY <1>1 DEF ServerInv, KeptOnce, ErrorsAreOwn, Ui!Message, Ui!At
<1>4. ErrorsAreOwn' /\ message' \in [Validations -> Validations \cup {None}]
  BY <1>1, <1>3 DEF ServerInv, ServerTypes, ErrorsAreOwn
<1>5. /\ validation' \in [Validations -> Ui!Phases]
      /\ \A s \in Validations : IsRecorded(s)' <=> IsRecorded(s)
      /\ \A s \in Validations \ {r} : validation'[s] = validation[s]
      /\ validation'[r] = "shown"
  BY <1>1 DEF ServerInv, ServerTypes, IsRecorded, Ui!Phases
<1>6. RecordedOnce'
  BY <1>1, <1>5 DEF ServerInv, RecordedOnce
<1>7. CASE Ui!At(r) = {}
  <2>1. keptErrors' = keptErrors
    BY <1>1, <1>7 DEF Ui!Others
  <2>2. ServerTypes'
    BY <1>1, <1>4, <1>5, <2>1 DEF ServerInv, ServerTypes
  <2>3. KeptOnce'
    BY <1>1, <1>2, <1>5, <1>7, <2>1 DEF ServerInv, KeptOnce, Ui!At
  <2>4. LastAreKept'
    BY <1>1, <1>2, <1>5, <2>1 DEF ServerInv, LastAreKept, Ui!At
  <2> QED
    BY <1>4, <1>6, <2>2, <2>3, <2>4 DEF ServerInv
<1>8. ASSUME Ui!At(r) # {}
      PROVE  ServerInv'
  <2>1. PICK k \in Ui!At(r) : keptErrors' = Ui!RemoveAt(keptErrors, k)
    BY <1>1, <1>8 DEF Ui!Others
  <2>2. k \in 1 .. Len(keptErrors) /\ keptErrors[k].id = r
    BY <1>2 DEF Ui!At
  <2>3. /\ keptErrors' \in Seq(KeptMessages)
        /\ Len(keptErrors') = Len(keptErrors) - 1
        /\ DOMAIN keptErrors' = 1 .. Len(keptErrors) - 1
        /\ \A i \in 1 .. Len(keptErrors) - 1 :
               keptErrors'[i] = IF i < k THEN keptErrors[i] ELSE keptErrors[i + 1]
    <3>1. keptErrors \in Seq(KeptMessages)
      BY DEF ServerInv, ServerTypes
    <3>2. /\ keptErrors' \in Seq(KeptMessages)
          /\ Len(keptErrors') = Len(keptErrors) - 1
          /\ \A i \in 1 .. Len(keptErrors) - 1 :
                 keptErrors'[i] = IF i < k THEN keptErrors[i] ELSE keptErrors[i + 1]
      BY <1>2, <2>1, <2>2, <3>1, RemovedAt
    <3> QED
      BY <3>2
  \* Where a message was before.
  <2> DEFINE was(i) == IF i < k THEN i ELSE i + 1
  <2>4. ASSUME NEW i \in DOMAIN keptErrors'
        PROVE  /\ was(i) \in DOMAIN keptErrors \ {k} /\ keptErrors'[i] = keptErrors[was(i)]
               /\ was(i) <= i + 1 /\ was(i) \in Nat /\ i \in Nat
    BY <1>2, <2>2, <2>3
  <2>5. ASSUME NEW i \in DOMAIN keptErrors', NEW j \in DOMAIN keptErrors', was(i) = was(j)
        PROVE  i = j
    BY <1>2, <2>2, <2>3, <2>5
  <2>6. ASSUME NEW i \in DOMAIN keptErrors \ {k}
        PROVE  \E j \in DOMAIN keptErrors' : was(j) = i
    <3>1. CASE i < k
      BY <1>2, <2>2, <2>3, <3>1
    <3>2. CASE i > k
      <4>1. i - 1 \in DOMAIN keptErrors' /\ was(i - 1) = i
        BY <1>2, <2>2, <2>3, <3>2
      <4> QED
        BY <4>1
    <3> QED
      BY <1>2, <2>2, <3>1, <3>2
  <2> HIDE DEF was
  <2>7. \A i \in DOMAIN keptErrors \ {k} : keptErrors[i].id \in Validations \ {r}
    BY <1>2, <2>2 DEF ServerInv, KeptOnce
  <2>8. ServerTypes'
    <3>1. Len(keptErrors') <= MaxStored
      BY <1>2, <2>3, ServerAssumption DEF ServerInv, ServerTypes
    <3> QED
      BY <1>1, <1>4, <1>5, <2>3, <3>1 DEF ServerInv, ServerTypes
  <2>9. KeptOnce'
    <3>1. \A i, j \in DOMAIN keptErrors' : keptErrors'[i].id = keptErrors'[j].id => i = j
      BY <2>4, <2>5 DEF ServerInv, KeptOnce
    <3>2. \A i \in DOMAIN keptErrors' :
              LET s == keptErrors'[i].id
              IN  validation'[s] = "answered" /\ keptErrors'[i].text = errorInfo'[s]
      BY <1>1, <1>5, <2>4, <2>7 DEF ServerInv, KeptOnce
    <3> QED
      BY <3>1, <3>2 DEF KeptOnce
  <2>10. LastAreKept'
    <3> SUFFICES ASSUME NEW j \in DOMAIN recorded
                 PROVE  /\ \A i \in Ui!At(recorded[j])' :
                               j + Len(keptErrors') <= Len(recorded) + i
                        /\ validation'[recorded[j]] = "answered" /\ Ui!At(recorded[j])' = {} =>
                               j + MaxStored <= Len(recorded)
      BY <1>1 DEF LastAreKept
    <3>1. ASSUME NEW i \in Ui!At(recorded[j])'
          PROVE  j + Len(keptErrors') <= Len(recorded) + i
      <4>1. i \in DOMAIN keptErrors' /\ keptErrors'[i].id = recorded[j]
        BY <1>1, <3>1 DEF Ui!At
      <4>2. was(i) \in Ui!At(recorded[j])
        BY <2>4, <4>1 DEF Ui!At
      <4>3. j + Len(keptErrors) <= Len(recorded) + was(i)
        BY <4>2 DEF ServerInv, LastAreKept
      <4> QED
        BY <1>2, <2>3, <2>4, <4>1, <4>3
    <3>2. ASSUME validation'[recorded[j]] = "answered", Ui!At(recorded[j])' = {}
          PROVE  j + MaxStored <= Len(recorded)
      <4>1. recorded[j] # r /\ validation[recorded[j]] = "answered"
        BY <1>2, <1>5, <3>2
      <4>2. Ui!At(recorded[j]) = {}
        <5> SUFFICES ASSUME NEW i \in Ui!At(recorded[j]) PROVE FALSE
          OBVIOUS
        <5>1. i \in DOMAIN keptErrors \ {k} /\ keptErrors[i].id = recorded[j]
          BY <2>2, <4>1 DEF Ui!At
        <5>2. PICK n \in DOMAIN keptErrors' : was(n) = i
          BY <2>6, <5>1
        <5>3. n \in Ui!At(recorded[j])'
          BY <1>1, <2>4, <5>1, <5>2 DEF Ui!At
        <5> QED
          BY <3>2, <5>3
      <4> QED
        BY <4>1, <4>2 DEF ServerInv, LastAreKept
    <3> QED
      BY <3>1, <3>2
  <2> QED
    BY <1>4, <1>6, <2>8, <2>9, <2>10 DEF ServerInv
<1> QED
  BY <1>7, <1>8

\* What answers nothing and fetches nothing leaves what was recorded as it was.
LEMMA RecordedStays ==
    ASSUME ServerInv, ServerTypes', ErrorsAreOwn', UNCHANGED <<keptErrors, recorded>>,
           \A s \in Validations :
               /\ IsRecorded(s)' <=> IsRecorded(s)
               /\ validation'[s] = "answered" <=> validation[s] = "answered"
               /\ validation[s] = "answered" => errorInfo'[s] = errorInfo[s]
    PROVE  ServerInv'
<1>1. /\ \A j \in DOMAIN recorded : recorded[j] \in Validations
      /\ \A i \in DOMAIN keptErrors : keptErrors[i].id \in Validations
  <2>1. \A m \in KeptMessages : m.id \in Validations
    BY DEF KeptMessages
  <2> QED
    BY <2>1 DEF ServerInv, ServerTypes
<1>2. RecordedOnce'
  BY DEF ServerInv, RecordedOnce
<1>3. KeptOnce'
  BY <1>1 DEF ServerInv, KeptOnce
<1>4. LastAreKept'
  BY <1>1 DEF ServerInv, LastAreKept, Ui!At
<1> QED
  BY <1>2, <1>3, <1>4 DEF ServerInv

LEMMA ServerNext ==
    ASSUME ServerInv, [Ui!Next]_(Ui!vars)
    PROVE  ServerInv'
<1> DEFINE Same == UNCHANGED <<validation, errorInfo, message, keptErrors, recorded>>
<1>1. CASE Same
  <2>1. ServerTypes' /\ ErrorsAreOwn'
    BY <1>1 DEF ServerInv, ServerTypes, ErrorsAreOwn
  <2> QED
    BY <1>1, <2>1, RecordedStays DEF IsRecorded
<1>2. ASSUME NEW r \in Validations, Ui!GetDevices(r) \/ Ui!Vetted(r) \/ Ui!LogsError(r)
      PROVE  ServerInv'
  <2>1. \/ validation[r] = "new" /\ validation' = [validation EXCEPT ![r] = "vetting"]
        \/ validation[r] = "vetting" /\ validation' = [validation EXCEPT ![r] = "connecting"]
        \/ validation[r] = "connecting" /\ validation' = validation
    BY <1>2 DEF Ui!GetDevices, Ui!Vetted, Ui!LogsError
  <2>2. errorInfo' \in {errorInfo, [errorInfo EXCEPT ![r] = r]}
    BY <1>2 DEF Ui!GetDevices, Ui!Vetted, Ui!LogsError
  <2>3. UNCHANGED <<message, keptErrors, recorded>>
    BY <1>2 DEF Ui!GetDevices, Ui!Vetted, Ui!LogsError
  <2>4. ServerTypes' /\ ErrorsAreOwn'
    BY <2>1, <2>2, <2>3 DEF ServerInv, ServerTypes, ErrorsAreOwn, Ui!Phases
  <2>5. \A s \in Validations :
            /\ IsRecorded(s)' <=> IsRecorded(s)
            /\ validation'[s] = "answered" <=> validation[s] = "answered"
            /\ validation[s] = "answered" => errorInfo'[s] = errorInfo[s]
    BY <2>1, <2>2 DEF ServerInv, ServerTypes, IsRecorded
  <2> QED
    BY <2>3, <2>4, <2>5, RecordedStays
<1>3. ASSUME NEW r \in Validations, Ui!Refused(r) \/ Ui!Settles(r) \/ Ui!TimesOut(r)
      PROVE  ServerInv'
  <2>1. validation[r] \in {"vetting", "connecting"} /\ message' = message
    BY <1>3 DEF Ui!Refused, Ui!Settles, Ui!TimesOut
  <2>2. \E d \in BOOLEAN, t \in {None, r} : Ui!Answers(r, d, t)
    <3>1. errorInfo[r] \in {None, r}
      BY DEF ServerInv, ErrorsAreOwn
    <3> QED
      BY <1>3, <3>1 DEF Ui!Refused, Ui!Settles, Ui!TimesOut
  <2> QED
    BY <2>1, <2>2, AnswersAreKept
<1>4. ASSUME NEW r \in Validations, Ui!LogsIn(r)
      PROVE  Same
  BY <1>4 DEF Ui!LogsIn
<1>5. CASE Ui!Discover \/ Ui!Probes \/ Ui!Hears \/ Ui!SocketFails \/ Ui!DiscoveryEnds
  <2>1. Same
    BY <1>5 DEF Ui!Discover, Ui!Probes, Ui!Hears, Ui!SocketFails, Ui!DiscoveryEnds, Ui!Discovers
  <2> QED
    BY <1>1, <2>1
<1>6. CASE UNCHANGED Ui!vars
  <2>1. Same
    BY <1>6 DEF Ui!vars
  <2> QED
    BY <1>1, <2>1
<1>7. ASSUME NEW r \in Validations, Ui!GetErrorMessage(r)
      PROVE  ServerInv'
  BY <1>7, FetchedIsGone
<1> QED
  BY <1>1, <1>2, <1>3, <1>4, <1>5, <1>6, <1>7 DEF Ui!Next

\* Where a validation recorded its message says how many did so after it.
LEMMA RecordedBehind ==
    ASSUME ServerInv, NEW p \in DOMAIN recorded
    PROVE  Ui!RecordedAfter(recorded[p]) = Len(recorded) - p
<1> DEFINE after == {j \in DOMAIN recorded :
                        \E i \in 1 .. j - 1 : recorded[i] = recorded[p] /\ recorded[j] # recorded[p]}
<1>1. DOMAIN recorded = 1 .. Len(recorded) /\ Len(recorded) \in Nat
  BY DEF ServerInv, ServerTypes
<1>2. after = p + 1 .. Len(recorded)
  BY <1>1 DEF ServerInv, RecordedOnce
<1>3. Cardinality(p + 1 .. Len(recorded)) = Len(recorded) - p
  BY <1>1, FS_Interval
<1> QED
  BY <1>2, <1>3 DEF Ui!RecordedAfter, Ui!Cardinality, Cardinality

\* What a page is shown is its own error or nothing, and nothing is lost that is not one of
\* so many others, however many validations overlap and in whichever order they end, are
\* given up and ask (#recordError, /getErrorMessage).
THEOREM ErrorsStayOwn == Ui!Spec => []OwnErrors
<1>1. Ui!Init => ServerInv
  BY ServerAssumption
  DEF Ui!Init, ServerInv, ServerTypes, ErrorsAreOwn, RecordedOnce, KeptOnce, LastAreKept,
      IsRecorded, Ui!Phases
<1>2. ServerInv /\ [Ui!Next]_(Ui!vars) => ServerInv'
  BY ServerNext
<1>3. ServerInv => OwnErrors
  <2> SUFFICES ASSUME ServerInv, NEW r \in Validations,
                      validation[r] = "answered", errorInfo[r] = r,
                      Ui!RecordedAfter(r) < MaxStored
               PROVE  Ui!Message(r) = r
    BY DEF ServerInv, ServerTypes, ErrorsAreOwn, OwnErrors, Ui!OwnErrors
  <2>1. PICK p \in DOMAIN recorded : recorded[p] = r
    BY DEF ServerInv, RecordedOnce, IsRecorded
  <2>2. Ui!RecordedAfter(r) = Len(recorded) - p /\ p \in Nat /\ Len(recorded) \in Nat
    BY <2>1, RecordedBehind DEF ServerInv, ServerTypes
  <2>3. Ui!At(r) # {}
    BY <2>1, <2>2, ServerAssumption DEF ServerInv, LastAreKept
  <2> QED
    BY <2>3 DEF Ui!Message, Ui!At, ServerInv, KeptOnce
<1> QED
  BY <1>1, <1>2, <1>3, PTL DEF Ui!Spec

-----------------------------------------------------------------------------
(* Feature options.                                                        *)

\* Whom an entry may be for, and what follows the name of an option in it: any entry names
\* at most one of them, and only one that enables names a value.
OptionIds == Cameras \cup {Options!Nvr, Options!Address}
SettingTails == {<<>>} \cup {<<x>> : x \in OptionIds}
OptionTails ==
    SettingTails
        \cup {<<n>> : n \in Options!Numbers}
        \cup {<<x, n>> : x \in OptionIds \cup Options!Numbers, n \in Options!Numbers}
        \cup {<<x, m, n>> : x \in OptionIds, m \in Options!Numbers, n \in Options!Numbers}

OptionEntries ==
    {e \in [isEnable : BOOLEAN, tail : OptionTails] : ~e.isEnable => e.tail \in SettingTails}

OptionsInv ==
    /\ isValue \in BOOLEAN /\ default \in BOOLEAN
    /\ options \in Seq(OptionEntries)
    /\ ~isValue => \A i \in DOMAIN options : options[i].tail \in SettingTails

LEMMA OptionWords ==
    /\ \A x \in OptionIds : x \notin Options!Numbers
    /\ \A d \in Cameras : d \in OptionIds /\ d # Options!Nvr /\ d # Options!Address
    /\ Options!Nvr \in OptionIds /\ Options!Address \in OptionIds
    /\ Options!Nvr # Options!Address
BY OptionsAssumption
DEF OptionIds, Options!Nvr, Options!Address, Options!Numbers, Options!DefaultValue

LEMMA ShortTails ==
    /\ \A x : Len(<<x>>) = 1 /\ <<x>>[1] = x /\ <<x>> # <<>> /\ Tail(<<x>>) = <<>>
    /\ \A x, y : Len(<<x, y>>) = 2 /\ <<x, y>>[1] = x /\ <<x, y>>[2] = y /\ <<x, y>> # <<>>
                 /\ Tail(<<x, y>>) = <<y>>
    /\ \A x, y, z : Len(<<x, y, z>>) = 3 /\ <<x, y, z>>[1] = x /\ <<x, y, z>>[2] = y
                 /\ <<x, y, z>>[3] = z /\ <<x, y, z>> # <<>> /\ Tail(<<x, y, z>>) = <<y, z>>
OBVIOUS

LEMMA JoinedTails ==
    /\ \A x : <<>> \o <<x>> = <<x>> /\ <<x>> \o <<>> = <<x>>
    /\ \A x, y : <<>> \o <<x, y>> = <<x, y>> /\ <<x>> \o <<y>> = <<x, y>>
    /\ \A x, y, z : <<x>> \o <<y, z>> = <<x, y, z>>
    /\ <<>> \o <<>> = <<>>
<1>1. ASSUME NEW S, NEW s \in Seq(S)
      PROVE  <<>> \o s = s /\ s \o <<>> = s
  BY <1>1, ConcatEmptySeq
<1>2. ASSUME NEW x, NEW y
      PROVE  <<x>> \o <<y>> = <<x, y>>
  <2>1. <<x>> \in Seq({x, y}) /\ <<y>> \in Seq({x, y}) /\ <<x, y>> \in Seq({x, y})
    OBVIOUS
  <2> DEFINE s == <<x>>
             t == <<y>>
             whole == <<x, y>>
  <2>2. Len(s) = 1 /\ s[1] = x /\ Len(t) = 1 /\ t[1] = y /\ Len(whole) = 2 /\ whole[1] = x /\ whole[2] = y
    OBVIOUS
  <2> HIDE DEF s, t, whole
  <2>3. s \o t \in Seq({x, y}) /\ Len(s \o t) = 2
    BY <2>1, <2>2, ConcatProperties DEF s, t
  <2>4. \A i \in 1 .. 2 : (s \o t)[i] = whole[i]
    <3>1. \A i \in 1 .. 2 : (s \o t)[i] = IF i <= 1 THEN s[i] ELSE t[i - 1]
      BY <2>1, <2>2, ConcatProperties DEF s, t
    <3> QED
      BY <2>2, <3>1
  <2> QED
    BY <2>1, <2>2, <2>3, <2>4, SeqEqual DEF whole, s, t
<1>3. ASSUME NEW x, NEW y, NEW z
      PROVE  <<x>> \o <<y, z>> = <<x, y, z>>
  <2>1. <<x>> \in Seq({x, y, z}) /\ <<y, z>> \in Seq({x, y, z}) /\ <<x, y, z>> \in Seq({x, y, z})
    OBVIOUS
  <2> DEFINE s == <<x>>
             t == <<y, z>>
             whole == <<x, y, z>>
  <2>2. /\ Len(s) = 1 /\ s[1] = x /\ Len(t) = 2 /\ t[1] = y /\ t[2] = z
        /\ Len(whole) = 3 /\ whole[1] = x /\ whole[2] = y /\ whole[3] = z
    OBVIOUS
  <2> HIDE DEF s, t, whole
  <2>3. s \o t \in Seq({x, y, z}) /\ Len(s \o t) = 3
    BY <2>1, <2>2, ConcatProperties DEF s, t
  <2>4. \A i \in 1 .. 3 : (s \o t)[i] = whole[i]
    <3>1. \A i \in 1 .. 3 : (s \o t)[i] = IF i <= 1 THEN s[i] ELSE t[i - 1]
      BY <2>1, <2>2, ConcatProperties DEF s, t
    <3>2. (s \o t)[1] = x /\ (s \o t)[2] = y /\ (s \o t)[3] = z
      <4> DEFINE st == s \o t
      <4> HIDE DEF st
      <4>1. st[1] = s[1] /\ st[2] = t[2 - 1] /\ st[3] = t[3 - 1]
        <5>1. \A i \in 1 .. 3 : st[i] = IF i <= 1 THEN s[i] ELSE t[i - 1]
          BY <3>1 DEF st
        <5> QED
          BY <5>1
      <4>2. 2 - 1 = 1 /\ 3 - 1 = 2
        OBVIOUS
      <4> QED
        BY <2>2, <4>1, <4>2 DEF st
    <3>3. \A i \in 1 .. 3 : i = 1 \/ i = 2 \/ i = 3
      OBVIOUS
    <3> QED
      BY <2>2, <3>2, <3>3
  <2> QED
    BY <2>1, <2>2, <2>3, <2>4, SeqEqual DEF whole, s, t
<1>4. \A x, y : <<x>> \in Seq({x, y}) /\ <<x, y>> \in Seq({x, y}) /\ <<>> \in Seq({x, y})
  OBVIOUS
<1> QED
  BY <1>1, <1>2, <1>3, <1>4

\* Any tail has one of these forms.
LEMMA TailForms ==
    ASSUME NEW t \in OptionTails
    PROVE  \/ t = <<>>
           \/ \E x \in OptionIds : t = <<x>>
           \/ \E n \in Options!Numbers : t = <<n>>
           \/ \E x \in OptionIds, n \in Options!Numbers : t = <<x, n>>
           \/ \E m \in Options!Numbers, n \in Options!Numbers : t = <<m, n>>
           \/ \E x \in OptionIds, m \in Options!Numbers, n \in Options!Numbers : t = <<x, m, n>>
BY DEF OptionTails, SettingTails

\* What is set for somebody begins with who it is, and what is set for all with no one.
LEMMA SetForSomeone ==
    ASSUME NEW t \in OptionTails, NEW x \in OptionIds
    PROVE  (\E v \in Options!NumberTails : t = <<x>> \o v) <=> t # <<>> /\ t[1] = x
<1>1. ASSUME NEW v \in Options!NumberTails, t = <<x>> \o v
      PROVE  t # <<>> /\ t[1] = x
  BY <1>1, JoinedTails, ShortTails DEF Options!NumberTails, Options!NoValue
<1>2. ASSUME t # <<>>, t[1] = x
      PROVE  \E v \in Options!NumberTails : t = <<x>> \o v
  <2>1. x \notin Options!Numbers
    BY OptionWords
  <2>2. CASE t = <<x>>
    BY <2>2, JoinedTails DEF Options!NumberTails, Options!NoValue
  <2>3. CASE \E n \in Options!Numbers : t = <<x, n>>
    <3>1. PICK n \in Options!Numbers : t = <<x, n>>
      BY <2>3
    <3>2. t = <<x>> \o <<n>> /\ <<n>> \in Options!NumberTails
      BY <3>1, JoinedTails DEF Options!NumberTails
    <3> QED
      BY <3>2
  <2>4. CASE \E m \in Options!Numbers, n \in Options!Numbers : t = <<x, m, n>>
    <3>1. PICK m \in Options!Numbers, n \in Options!Numbers : t = <<x, m, n>>
      BY <2>4
    <3>2. t = <<x>> \o <<m, n>> /\ <<m, n>> \in Options!NumberTails
      BY <3>1, JoinedTails DEF Options!NumberTails
    <3> QED
      BY <3>2
  <2>5. \/ t = <<x>> \/ \E n \in Options!Numbers : t = <<x, n>>
        \/ \E m \in Options!Numbers, n \in Options!Numbers : t = <<x, m, n>>
    BY <1>2, <2>1, TailForms, ShortTails
  <2> QED
    BY <2>2, <2>3, <2>4, <2>5
<1> QED
  BY <1>1, <1>2

LEMMA SetForAll ==
    ASSUME NEW t \in OptionTails
    PROVE  (\E v \in Options!NumberTails : t = <<>> \o v) <=> t = <<>> \/ t[1] \in Options!Numbers
<1>1. ASSUME NEW v \in Options!NumberTails
      PROVE  <<>> \o v = v
  BY JoinedTails DEF Options!NumberTails, Options!NoValue
<1>2. t \in Options!NumberTails <=> t = <<>> \/ t[1] \in Options!Numbers
  BY TailForms, ShortTails, OptionWords DEF Options!NumberTails, Options!NoValue
<1> QED
  BY <1>1, <1>2

\* What an entry registers: its value for whom it is for.
LEMMA RegistersForSomeone ==
    ASSUME NEW e \in OptionEntries, ~isValue => e.tail \in SettingTails, NEW x \in OptionIds
    PROVE  /\ Options!Registers(e, <<x>>) <=> e.tail # <<>> /\ e.tail[1] = x
           /\ Options!Registers(e, <<x>>) =>
                  e.tail = <<x>> \o Options!KeyOf(e, <<x>>).value
<1> DEFINE t == e.tail
<1>1. /\ t \in OptionTails
      /\ (isValue /\ e.isEnable) \/ t = <<>> \/ \E y \in OptionIds : t = <<y>>
  BY DEF OptionEntries, SettingTails
<1> USE DEF Options!Registers, Options!NamesValue, Options!ValueScope, Options!IsOneValue,
            Options!IsDecimal
<1>5. Options!Registers(e, <<x>>) =>
          Options!KeyOf(e, <<x>>).value = IF t = <<x>> THEN <<>> ELSE Tail(t)
  BY ShortTails DEF Options!KeyOf, Options!Key, Options!NoValue
<1>2. CASE t = <<>> \/ \E y \in OptionIds : t = <<y>>
  <2>1. CASE t = <<>>
    BY <2>1, ShortTails
  <2>2. CASE \E y \in OptionIds : t = <<y>>
    <3>1. PICK y \in OptionIds : t = <<y>>
      BY <2>2
    <3>2. Options!Registers(e, <<x>>) <=> t = <<x>>
      BY <3>1, ShortTails
    <3> QED
      BY <1>5, <3>1, <3>2, ShortTails, JoinedTails
  <2> QED
    BY <1>2, <2>1, <2>2
<1>3. CASE isValue /\ e.isEnable
  <2>1. CASE \E n \in Options!Numbers : t = <<n>>
    <3>1. PICK n \in Options!Numbers : t = <<n>>
      BY <2>1
    <3>2. n # x
      BY OptionWords
    <3> QED
      BY <3>1, <3>2, ShortTails
  <2>2. CASE \E y \in OptionIds, n \in Options!Numbers : t = <<y, n>>
    <3>1. PICK y \in OptionIds, n \in Options!Numbers : t = <<y, n>>
      BY <2>2
    <3>2. y \notin Options!Numbers
      BY OptionWords
    <3>3. Options!Registers(e, <<x>>) <=> y = x
      BY <1>3, <3>1, <3>2, ShortTails
    <3>4. t # <<x>> /\ Tail(t) = <<n>> /\ t # <<>> /\ t[1] = y
      BY <3>1, ShortTails
    <3>5. y = x => t = <<x>> \o Tail(t)
      BY <3>1, <3>4, JoinedTails
    <3> QED
      BY <1>5, <3>3, <3>4, <3>5
  <2>3. CASE \E m \in Options!Numbers, n \in Options!Numbers : t = <<m, n>>
    <3>1. PICK m \in Options!Numbers, n \in Options!Numbers : t = <<m, n>>
      BY <2>3
    <3>2. m # x
      BY OptionWords
    <3> QED
      BY <3>1, <3>2, ShortTails
  <2>4. CASE \E y \in OptionIds, m \in Options!Numbers, n \in Options!Numbers : t = <<y, m, n>>
    <3>1. PICK y \in OptionIds, m \in Options!Numbers, n \in Options!Numbers : t = <<y, m, n>>
      BY <2>4
    <3>2. y \notin Options!Numbers
      BY OptionWords
    <3>3. Options!Registers(e, <<x>>) <=> y = x
      BY <1>3, <3>1, <3>2, ShortTails
    <3>4. t # <<x>> /\ Tail(t) = <<m, n>> /\ t # <<>> /\ t[1] = y
      BY <3>1, ShortTails
    <3>5. y = x => t = <<x>> \o Tail(t)
      BY <3>1, <3>4, JoinedTails
    <3> QED
      BY <1>5, <3>3, <3>4, <3>5
  <2> QED
    BY <1>1, <1>2, <2>1, <2>2, <2>3, <2>4, TailForms
<1> QED
  BY <1>1, <1>2, <1>3

LEMMA RegistersForAll ==
    ASSUME NEW e \in OptionEntries, ~isValue => e.tail \in SettingTails
    PROVE  /\ Options!Registers(e, <<>>) <=>
                  \/ e.tail = <<>> \/ e.tail[1] \in Options!Numbers
                  \/ isValue /\ e.isEnable /\ Len(e.tail) = 1
           /\ Options!Registers(e, <<>>) => e.tail = <<>> \o Options!KeyOf(e, <<>>).value
<1> DEFINE t == e.tail
<1>1. /\ t \in OptionTails
      /\ (isValue /\ e.isEnable) \/ t = <<>> \/ \E y \in OptionIds : t = <<y>>
  BY DEF OptionEntries, SettingTails
<1> USE DEF Options!Registers, Options!NamesValue, Options!ValueScope, Options!IsOneValue,
            Options!IsDecimal, Options!KeyOf, Options!Key, Options!NoValue
<1>2. CASE t = <<>>
  BY <1>2, JoinedTails
<1>3. CASE \E y \in OptionIds : t = <<y>>
  BY <1>3, ShortTails, JoinedTails, OptionWords
<1>4. CASE isValue /\ e.isEnable
  <2>1. CASE \E n \in Options!Numbers : t = <<n>>
    BY <1>4, <2>1, ShortTails, JoinedTails
  <2>2. CASE \E y \in OptionIds, n \in Options!Numbers : t = <<y, n>>
    BY <1>4, <2>2, ShortTails, JoinedTails, OptionWords
  <2>3. CASE \E m \in Options!Numbers, n \in Options!Numbers : t = <<m, n>>
    BY <1>4, <2>3, ShortTails, JoinedTails
  <2>4. CASE \E y \in OptionIds, m \in Options!Numbers, n \in Options!Numbers : t = <<y, m, n>>
    BY <1>4, <2>4, ShortTails, JoinedTails, OptionWords
  <2> QED
    BY <1>1, <1>2, <1>3, <2>1, <2>2, <2>3, <2>4, TailForms
<1> QED
  BY <1>1, <1>2, <1>3, <1>4

\* What the interface takes to be of a device or of all, where nothing but that is set.
LEMMA ShownAsMeant ==
    ASSUME NEW e \in OptionEntries, Options!IsPlain(e.tail), NEW d \in Cameras
    PROVE  /\ e.tail # <<>> => e.tail[1] \notin {Options!Nvr, Options!Address}
           /\ ~Options!IsOfScope(e, <<Options!Address>>)
           /\ Options!IsOfScope(e, <<d>>) <=> e.tail # <<>> /\ e.tail[1] = d
           /\ Options!IsOfScope(e, <<>>) <=> e.tail = <<>> \/ e.tail[1] \in Options!Numbers
           /\ \A s \in {<<>>, <<d>>} : Options!IsOfScope(e, s) =>
                  Options!KeyOf(e, s).value = IF e.tail = s THEN <<>> ELSE <<e.tail[Len(e.tail)]>>
<1> DEFINE t == e.tail
<1>1. t \in OptionTails
  BY DEF OptionEntries
<1>2. /\ \A x, n : Append(<<x>>, n) = <<x, n>>
      /\ \A n : Append(<<>>, n) = <<n>>
  <2>1. ASSUME NEW x, NEW n
        PROVE  Append(<<x>>, n) = <<x>> \o <<n>>
    <3>1. <<x>> \in Seq({x, n}) /\ n \in {x, n}
      OBVIOUS
    <3> QED
      BY <3>1, AppendIsConcat
  <2>2. ASSUME NEW n
        PROVE  Append(<<>>, n) = <<>> \o <<n>>
    <3>1. <<>> \in Seq({n}) /\ n \in {n}
      OBVIOUS
    <3> QED
      BY <3>1, AppendIsConcat
  <2> QED
    BY <2>1, <2>2, JoinedTails
<1>3. Options!IsPlain(t)
  OBVIOUS
<1>10. \A s \in {<<>>, <<d>>} : Options!KeyOf(e, s).value =
           IF t = s THEN <<>> ELSE IF s = <<>> THEN t ELSE Tail(t)
  BY DEF Options!KeyOf, Options!Key, Options!NoValue
<1> USE DEF Options!IsPlain, Options!IsOfScope
<1>4. CASE t = <<>>
  <2>1. ~Options!IsOfScope(e, <<d>>) /\ ~Options!IsOfScope(e, <<Options!Address>>)
    BY <1>2, <1>4, ShortTails
  <2> QED
    BY <1>4, <1>10, <2>1
<1>5. CASE \E x \in OptionIds : t = <<x>>
  <2>1. PICK x \in OptionIds : t = <<x>>
    BY <1>5
  <2>2. x \notin Options!Numbers /\ x # Options!Nvr /\ x # Options!Address
    BY <1>3, <2>1, OptionWords, ShortTails
  <2>3. Options!IsOfScope(e, <<d>>) <=> x = d
    BY <1>2, <2>1, ShortTails
  <2>4. ~Options!IsOfScope(e, <<Options!Address>>) /\ ~Options!IsOfScope(e, <<>>)
    BY <1>2, <2>1, <2>2, ShortTails
  <2>5. t # <<>> /\ t[1] = x /\ (x = d => t = <<d>>)
    BY <2>1, ShortTails
  <2> QED
    BY <1>10, <2>2, <2>3, <2>4, <2>5
<1>6. CASE \E n \in Options!Numbers : t = <<n>>
  <2>1. PICK n \in Options!Numbers : t = <<n>>
    BY <1>6
  <2>2. n # d /\ n # Options!Nvr /\ n # Options!Address
    BY OptionWords
  <2>3. ~Options!IsOfScope(e, <<Options!Address>>) /\ ~Options!IsOfScope(e, <<d>>)
    BY <1>2, <2>1, <2>2, ShortTails
  <2>4. Options!IsOfScope(e, <<>>) /\ t # <<>>
    BY <1>2, <2>1, ShortTails
  <2>5. t[1] = n /\ Len(t) = 1
    BY <2>1, ShortTails
  <2> QED
    BY <1>10, <2>1, <2>2, <2>3, <2>4, <2>5
<1>7. CASE \E x \in OptionIds, n \in Options!Numbers : t = <<x, n>>
  <2>1. PICK x \in OptionIds, n \in Options!Numbers : t = <<x, n>>
    BY <1>7
  <2>2. x \notin Options!Numbers /\ x # Options!Nvr /\ x # Options!Address
    BY <1>3, <2>1, OptionWords, ShortTails
  <2>3. Options!IsOfScope(e, <<d>>) <=> x = d
    BY <1>2, <2>1, ShortTails
  <2>4. ~Options!IsOfScope(e, <<Options!Address>>) /\ ~Options!IsOfScope(e, <<>>)
    BY <1>2, <2>1, <2>2, ShortTails
  <2>5. /\ t[Len(t)] = n /\ t # <<d>> /\ t # <<>> /\ t[1] = x
        /\ Tail(t) = <<n>> /\ <<d>> # <<>>
    BY <2>1, ShortTails
  <2> QED
    BY <1>10, <2>2, <2>3, <2>4, <2>5
<1>8. CASE \E m \in Options!Numbers, n \in Options!Numbers : t = <<m, n>>
  BY <1>3, <1>8, ShortTails
<1>9. CASE \E x \in OptionIds, m \in Options!Numbers, n \in Options!Numbers : t = <<x, m, n>>
  BY <1>3, <1>9, ShortTails
<1> QED
  BY <1>1, <1>4, <1>5, <1>6, <1>7, <1>8, <1>9, TailForms

\* The earliest of some indices.
LEMMA EarliestIs ==
    ASSUME NEW S, S \subseteq Nat, S # {}
    PROVE  /\ Options!Earliest(S) \in S
           /\ \A i \in S : Options!Earliest(S) <= i
           /\ \A i \in S : (\A j \in S : i <= j) => i = Options!Earliest(S)
<1>1. \E i \in S : \A j \in S : i <= j
  BY LeastNatural
<1>2. Options!Earliest(S) \in S /\ \A i \in S : Options!Earliest(S) <= i
  BY <1>1 DEF Options!Earliest
<1>3. ASSUME NEW i \in S, \A j \in S : i <= j
      PROVE  i = Options!Earliest(S)
  <2>1. i <= Options!Earliest(S) /\ Options!Earliest(S) <= i
    BY <1>2, <1>3
  <2>2. i \in Nat /\ Options!Earliest(S) \in Nat
    BY <1>2
  <2> QED
    BY <2>1, <2>2
<1> QED
  BY <1>2, <1>3

\* What is registered for somebody is what is set for it, and without an ambiguous entry the
\* first that is registered for all is the first that is set for all.
LEMMA RegisteredAsSet ==
    ASSUME OptionsInv, ~Options!IsAmbiguous
    PROVE  /\ \A x \in OptionIds : Options!Registering(<<x>>) = Options!SetFor(<<x>>)
           /\ Options!Registering(<<>>) = {} <=> Options!SetFor(<<>>) = {}
           /\ Options!SetFor(<<>>) # {} => Options!Lookup(<<>>) = Options!Earliest(Options!SetFor(<<>>))
           /\ \A x \in OptionIds : Options!SetFor(<<x>>) \subseteq DOMAIN options
           /\ Options!SetFor(<<>>) \subseteq DOMAIN options
<1> DEFINE R == Options!Registering(<<>>)
           S == Options!SetFor(<<>>)
<1>1. ASSUME NEW i \in DOMAIN options
      PROVE  /\ options[i] \in OptionEntries /\ options[i].tail \in OptionTails
             /\ ~isValue => options[i].tail \in SettingTails
  BY DEF OptionsInv, OptionEntries
<1>2. ASSUME NEW x \in OptionIds, NEW i \in DOMAIN options
      PROVE  i \in Options!Registering(<<x>>) <=> i \in Options!SetFor(<<x>>)
  BY <1>1, RegistersForSomeone, SetForSomeone DEF Options!Registering, Options!SetFor
<1>3. ASSUME NEW i \in DOMAIN options
      PROVE  /\ i \in S <=> options[i].tail = <<>> \/ options[i].tail[1] \in Options!Numbers
             /\ i \in R <=> \/ options[i].tail = <<>> \/ options[i].tail[1] \in Options!Numbers
                            \/ isValue /\ options[i].isEnable /\ Len(options[i].tail) = 1
  BY <1>1, RegistersForAll, SetForAll DEF Options!Registering, Options!SetFor
<1>4. R \subseteq DOMAIN options /\ S \subseteq R
  BY <1>3 DEF Options!Registering, Options!SetFor
<1>5. DOMAIN options = 1 .. Len(options) /\ Len(options) \in Nat
  BY DEF OptionsInv
<1>6. ASSUME NEW i \in R, \A j \in R : i <= j
      PROVE  i \in S
  <2>1. i \in DOMAIN options
    BY <1>4
  <2>2. \A j \in 1 .. i - 1 : ~Options!Registers(options[j], <<>>)
    <3> SUFFICES ASSUME NEW j \in 1 .. i - 1, Options!Registers(options[j], <<>>) PROVE FALSE
      OBVIOUS
    <3>1. j \in DOMAIN options /\ ~(i <= j)
      BY <1>5, <2>1
    <3> QED
      BY <1>6, <3>1 DEF Options!Registering
  <2>3. ~(isValue /\ options[i].isEnable /\ Len(options[i].tail) = 1
          /\ options[i].tail[1] \notin Options!Numbers)
    BY <2>1, <2>2 DEF Options!IsAmbiguous
  <2> QED
    BY <1>3, <2>1, <2>3
<1>7. R \subseteq Nat /\ S \subseteq Nat
  BY <1>4, <1>5
<1>8. ASSUME R # {}
      PROVE  S # {} /\ Options!Earliest(R) = Options!Earliest(S)
  <2>1. Options!Earliest(R) \in S /\ \A j \in S : Options!Earliest(R) <= j
    BY <1>4, <1>6, <1>7, <1>8, EarliestIs
  <2> QED
    BY <1>7, <2>1, EarliestIs
<1>9. R = {} <=> S = {}
  BY <1>4, <1>8
<1>10. \A x \in OptionIds : /\ Options!Registering(<<x>>) \subseteq DOMAIN options
                           /\ Options!SetFor(<<x>>) \subseteq DOMAIN options
  BY DEF Options!Registering, Options!SetFor
<1>11. \A x \in OptionIds : Options!Registering(<<x>>) = Options!SetFor(<<x>>)
  BY <1>2, <1>10
<1> QED
  BY <1>4, <1>8, <1>9, <1>10, <1>11 DEF Options!Lookup

\* The entry that decides for a device, and the key it is registered under.
LEMMA ResolvedAsSet ==
    ASSUME OptionsInv, ~Options!IsAmbiguous, NEW d \in Cameras,
           NEW scope, scope = Options!DecidingScope(d),
           NEW deciding, deciding = options[Options!Earliest(Options!SetFor(scope))],
           NEW key, key = Options!ResolveScope(d)
    PROVE  /\ scope \in {<<d>>, <<Options!Nvr>>, <<>>}
           /\ Options!SetFor(scope) = {} =>
                  key = Options!Key(Options!Nowhere, default, <<>>)
           /\ Options!SetFor(scope) # {} =>
                  /\ Options!Earliest(Options!SetFor(scope)) \in DOMAIN options
                  /\ key = Options!KeyOf(deciding, scope)
                  /\ deciding.tail = scope \o key.value
                  /\ Options!Registers(deciding, scope)
<1>1. d \in OptionIds /\ Options!Nvr \in OptionIds
  BY OptionWords
<1>2. /\ Options!Registering(<<d>>) = Options!SetFor(<<d>>)
      /\ Options!Registering(<<Options!Nvr>>) = Options!SetFor(<<Options!Nvr>>)
      /\ Options!Registering(<<>>) = {} <=> Options!SetFor(<<>>) = {}
  BY <1>1, RegisteredAsSet
<1>3. scope \in {<<d>>, <<Options!Nvr>>, <<>>}
  BY DEF Options!DecidingScope
<1>4. key = IF Options!Registering(scope) = {} THEN Options!Key(Options!Nowhere, default, <<>>)
            ELSE Options!KeyOf(options[Options!Lookup(scope)], scope)
  BY <1>2 DEF Options!ResolveScope, Options!DecidingScope, Options!NoValue
<1>5. Options!Registering(scope) = {} <=> Options!SetFor(scope) = {}
  BY <1>2, <1>3
<1>6. ASSUME Options!SetFor(scope) # {}
      PROVE  /\ Options!Lookup(scope) = Options!Earliest(Options!SetFor(scope))
             /\ Options!Lookup(scope) \in Options!Registering(scope)
             /\ Options!Lookup(scope) \in DOMAIN options
  <2>1. Options!Registering(scope) \subseteq DOMAIN options /\ DOMAIN options \subseteq Nat
    BY DEF Options!Registering, OptionsInv
  <2>2. Options!Lookup(scope) \in Options!Registering(scope)
    BY <1>5, <1>6, <2>1, EarliestIs DEF Options!Lookup
  <2>3. Options!Lookup(scope) = Options!Earliest(Options!SetFor(scope))
    <3>1. CASE scope = <<>>
      BY <1>6, <3>1, RegisteredAsSet
    <3>2. CASE scope # <<>>
      BY <1>2, <1>3, <3>2 DEF Options!Lookup
    <3> QED
      BY <3>1, <3>2
  <2> QED
    BY <2>1, <2>2, <2>3
<1>7. ASSUME Options!SetFor(scope) # {}
      PROVE  deciding.tail = scope \o key.value /\ Options!Registers(deciding, scope)
  <2>1. /\ deciding \in OptionEntries /\ Options!Registers(deciding, scope)
        /\ ~isValue => deciding.tail \in SettingTails
        /\ key = Options!KeyOf(deciding, scope)
    BY <1>4, <1>5, <1>6, <1>7 DEF OptionsInv, Options!Registering
  <2>2. CASE scope = <<>>
    BY <2>1, <2>2, RegistersForAll
  <2>3. CASE scope \in {<<d>>, <<Options!Nvr>>}
    <3>1. PICK x \in OptionIds : scope = <<x>>
      BY <1>1, <2>3
    <3>2. Options!Registers(deciding, <<x>>) =>
              deciding.tail = <<x>> \o Options!KeyOf(deciding, <<x>>).value
      BY <2>1, RegistersForSomeone
    <3> QED
      BY <2>1, <3>1, <3>2
  <2> QED
    BY <1>3, <2>1, <2>2, <2>3
<1> QED
  BY <1>3, <1>4, <1>5, <1>6, <1>7

\* Where both know what is set, the interface takes for a device what the plugin takes.
LEMMA ShownAsResolved ==
    ASSUME OptionsInv, ~Options!IsAmbiguous, NEW d \in Cameras,
           \A i \in DOMAIN options : Options!IsPlain(options[i].tail),
           NEW scope, scope = Options!DecidingScope(d),
           NEW deciding, deciding = options[Options!Earliest(Options!SetFor(scope))]
    PROVE  Options!Shown(options, <<d>>) =
               IF Options!SetFor(scope) = {} THEN [enabled |-> default, value |-> <<>>]
               ELSE [enabled |-> deciding.isEnable,
                     value |-> IF deciding.tail = scope THEN <<>>
                               ELSE <<deciding.tail[Len(deciding.tail)]>>]
<1>1. ASSUME NEW i \in DOMAIN options
      PROVE  options[i] \in OptionEntries /\ options[i].tail \in OptionTails
  BY DEF OptionsInv, OptionEntries
<1>2. d \in OptionIds /\ Options!Nvr \in OptionIds
  BY OptionWords
<1>3. Options!OfScope(options, <<d>>) = Options!SetFor(<<d>>)
  <2>1. ASSUME NEW i \in DOMAIN options
        PROVE  Options!IsOfScope(options[i], <<d>>)
                   <=> \E v \in Options!NumberTails : options[i].tail = <<d>> \o v
    <3>1. /\ Options!IsOfScope(options[i], <<d>>)
                 <=> options[i].tail # <<>> /\ options[i].tail[1] = d
      BY <1>1, ShownAsMeant
    <3>2. (\E v \in Options!NumberTails : options[i].tail = <<d>> \o v)
              <=> options[i].tail # <<>> /\ options[i].tail[1] = d
      BY <1>1, <1>2, SetForSomeone
    <3> QED
      BY <3>1, <3>2
  <2> QED
    BY <2>1 DEF Options!OfScope, Options!SetFor
<1>4. Options!OfScope(options, <<>>) = Options!SetFor(<<>>)
  <2>1. \A i \in DOMAIN options :
            Options!IsOfScope(options[i], <<>>)
                <=> \E v \in Options!NumberTails : options[i].tail = <<>> \o v
    BY <1>1, ShownAsMeant, SetForAll
  <2> QED
    BY <2>1 DEF Options!OfScope, Options!SetFor
<1>5. Options!OfScope(options, <<Options!Address>>) = {}
  BY <1>1, ShownAsMeant DEF Options!OfScope
<1>6. Options!SetFor(<<Options!Nvr>>) = {}
  <2>1. ASSUME NEW i \in DOMAIN options
        PROVE  ~\E v \in Options!NumberTails : options[i].tail = <<Options!Nvr>> \o v
    <3>1. options[i].tail # <<>> => options[i].tail[1] # Options!Nvr
      BY <1>1, ShownAsMeant
    <3>2. (\E v \in Options!NumberTails : options[i].tail = <<Options!Nvr>> \o v)
              <=> options[i].tail # <<>> /\ options[i].tail[1] = Options!Nvr
      BY <1>1, <1>2, SetForSomeone
    <3> QED
      BY <3>1, <3>2
  <2> QED
    BY <2>1 DEF Options!SetFor
<1>7. scope = IF Options!OfScope(options, <<d>>) # {} THEN <<d>> ELSE <<>>
  BY <1>3, <1>6 DEF Options!DecidingScope
<1>8. Options!OfScope(options, scope) = Options!SetFor(scope)
  BY <1>3, <1>4, <1>7
<1> QED
  BY <1>5, <1>7, <1>8 DEF Options!Shown, Options!NoValue

LEMMA OptionsAreRight ==
    ASSUME OptionsInv
    PROVE  Options!OptionsAgree
<1> SUFFICES ASSUME ~Options!IsAmbiguous, NEW d \in Cameras
    PROVE  LET scope == Options!DecidingScope(d)
               deciding == options[Options!Earliest(Options!SetFor(scope))]
               used == Options!Resolved(d)
               display == Options!Shown(options, <<d>>)
           IN  /\ Options!SetFor(scope) = {} => used.enabled = default
               /\ Options!SetFor(scope) # {} =>
                      /\ used.enabled = deciding.isEnable
                      /\ isValue /\ used.enabled => deciding.tail = scope \o used.value
               /\ (\A i \in DOMAIN options : Options!IsPlain(options[i].tail)) =>
                      /\ display.enabled = used.enabled
                      /\ used.enabled /\ used.scope # Options!Nowhere => display.value = used.value
  BY DEF Options!OptionsAgree
<1> DEFINE scope == Options!DecidingScope(d)
           deciding == options[Options!Earliest(Options!SetFor(scope))]
           key == Options!ResolveScope(d)
           used == Options!Resolved(d)
           display == Options!Shown(options, <<d>>)
<1>1. /\ scope = Options!DecidingScope(d) /\ key = Options!ResolveScope(d)
      /\ deciding = options[Options!Earliest(Options!SetFor(scope))]
      /\ used = Options!Resolved(d) /\ display = Options!Shown(options, <<d>>)
  OBVIOUS
<1>2. used = [key EXCEPT !.value =
                  IF ~isValue \/ ~key.enabled THEN <<>>
                  ELSE IF key.scope = Options!Nowhere THEN <<Options!DefaultValue>> ELSE key.value]
  BY DEF Options!Resolved, Options!NoValue
<1> HIDE DEF scope, deciding, key, used, display
<1>3. /\ scope \in {<<d>>, <<Options!Nvr>>, <<>>}
      /\ Options!SetFor(scope) = {} => key = Options!Key(Options!Nowhere, default, <<>>)
      /\ Options!SetFor(scope) # {} =>
             /\ Options!Earliest(Options!SetFor(scope)) \in DOMAIN options
             /\ key = Options!KeyOf(deciding, scope)
             /\ deciding.tail = scope \o key.value
             /\ Options!Registers(deciding, scope)
  BY <1>1, ResolvedAsSet
<1>4. key = [scope |-> key.scope, enabled |-> key.enabled, value |-> key.value]
  BY <1>3 DEF Options!Key, Options!KeyOf
<1>5. /\ used.enabled = key.enabled /\ used.scope = key.scope
      /\ used.value = IF ~isValue \/ ~key.enabled THEN <<>>
                      ELSE IF key.scope = Options!Nowhere THEN <<Options!DefaultValue>> ELSE key.value
  BY <1>2, <1>4
<1>6. Options!SetFor(scope) = {} => used.enabled = default /\ used.scope = Options!Nowhere
  BY <1>3, <1>5 DEF Options!Key
<1>7. ASSUME Options!SetFor(scope) # {}
      PROVE  /\ used.enabled = deciding.isEnable
             /\ key.scope = scope /\ scope # Options!Nowhere
             /\ isValue /\ used.enabled => used.value = key.value
  <2>1. used.enabled = deciding.isEnable /\ key.scope = scope
    BY <1>3, <1>5, <1>7 DEF Options!Key, Options!KeyOf
  <2>2. scope # Options!Nowhere
    <3>1. Options!Nowhere # <<>> /\ \A x : <<x>> # Options!Nowhere
      BY ShortTails DEF Options!Nowhere
    <3> QED
      BY <1>3, <3>1
  <2> QED
    BY <1>5, <2>1, <2>2
<1>8. ASSUME \A i \in DOMAIN options : Options!IsPlain(options[i].tail)
      PROVE  /\ display.enabled = used.enabled
             /\ used.enabled /\ used.scope # Options!Nowhere => display.value = used.value
  <2>1. display = IF Options!SetFor(scope) = {} THEN [enabled |-> default, value |-> <<>>]
                ELSE [enabled |-> deciding.isEnable,
                      value |-> IF deciding.tail = scope THEN <<>>
                                ELSE <<deciding.tail[Len(deciding.tail)]>>]
    BY <1>1, <1>8, ShownAsResolved
  <2>2. CASE Options!SetFor(scope) = {}
    BY <1>6, <2>1, <2>2
  <2>3. CASE Options!SetFor(scope) # {}
    <3>1. /\ deciding \in OptionEntries /\ deciding.tail \in OptionTails
          /\ Options!IsPlain(deciding.tail)
          /\ ~isValue => deciding.tail \in SettingTails
      BY <1>1, <1>3, <1>8, <2>3 DEF OptionsInv, OptionEntries
    <3>2. Options!IsOfScope(deciding, scope) /\ scope \in {<<>>, <<d>>}
      <4>1. CASE scope = <<>>
        <5>1. deciding.tail = <<>> \/ deciding.tail[1] \in Options!Numbers
          <6>1. Options!SetFor(scope) \subseteq Nat
            BY DEF Options!SetFor, OptionsInv
          <6>2. Options!Earliest(Options!SetFor(scope)) \in Options!SetFor(scope)
            BY <2>3, <6>1, EarliestIs
          <6>3. \E v \in Options!NumberTails : deciding.tail = <<>> \o v
            BY <1>1, <4>1, <6>2 DEF Options!SetFor
          <6> QED
            BY <3>1, <6>3, SetForAll
        <5> QED
          BY <3>1, <4>1, <5>1, ShownAsMeant
      <4>2. ASSUME NEW x \in {d, Options!Nvr}, scope = <<x>>
            PROVE  x = d /\ Options!IsOfScope(deciding, scope)
        <5>1. deciding.tail # <<>> /\ deciding.tail[1] = x
          BY <1>3, <2>3, <3>1, <4>2, RegistersForSomeone, OptionWords
        <5> QED
          BY <3>1, <4>2, <5>1, ShownAsMeant
      <4> QED
        BY <1>3, <4>1, <4>2
    <3>3. key.value = IF deciding.tail = scope THEN <<>> ELSE <<deciding.tail[Len(deciding.tail)]>>
      BY <1>3, <2>3, <3>1, <3>2, ShownAsMeant
    <3>4. ASSUME ~isValue
          PROVE  deciding.tail = scope
      <4>1. deciding.tail = <<>> \/ \E y \in OptionIds : deciding.tail = <<y>>
        BY <3>1, <3>4 DEF SettingTails
      <4>2. CASE deciding.tail = <<>>
        BY <3>2, <4>2, <3>1, ShownAsMeant
      <4>3. ASSUME NEW y \in OptionIds, deciding.tail = <<y>>
            PROVE  deciding.tail = scope
        <5>1. deciding.tail # <<>> /\ deciding.tail[1] = y /\ y \notin Options!Numbers
          BY <4>3, ShortTails, OptionWords
        <5> QED
          BY <3>1, <3>2, <4>3, <5>1, ShownAsMeant
      <4> QED
        BY <4>1, <4>2, <4>3
    <3> QED
      BY <1>5, <1>7, <2>1, <2>3, <3>3, <3>4
  <2> QED
    BY <2>2, <2>3
<1> QED
  BY <1>1, <1>3, <1>6, <1>7, <1>8


\* What is kept of the first entries, of what is kept of fewer.
KeptAt(f, scope, n) ==
    IF n = 0 THEN <<>>
    ELSE IF Options!IsOfScope(options[n], scope) THEN f[n - 1]
    ELSE Append(f[n - 1], options[n])

\* Entries are only taken out.
LEMMA WithoutKeeps ==
    ASSUME OptionsInv, NEW scope, NEW E, \A i \in DOMAIN options : options[i] \in E
    PROVE  Options!Without(scope) \in Seq(E)
<1> DEFINE len == Len(options)
           Good == {n \in Nat : n <= len =>
                        \E f \in [0 .. n -> Seq(E)] : \A k \in 0 .. n : f[k] = KeptAt(f, scope, k)}
<1>1. len \in Nat /\ DOMAIN options = 1 .. len
  BY DEF OptionsInv
<1>2. 0 \in Good
  <2> DEFINE f == [k \in 0 .. 0 |-> <<>>]
  <2>1. \A k \in 0 .. 0 : f[k] = KeptAt(f, scope, k)
    BY DEF KeptAt
  <2>2. f \in [0 .. 0 -> Seq(E)]
    OBVIOUS
  <2> QED
    BY <2>1, <2>2
<1>3. ASSUME NEW n \in Nat, n \in Good
      PROVE  n + 1 \in Good
  <2> SUFFICES ASSUME n + 1 <= len
               PROVE  \E f \in [0 .. n + 1 -> Seq(E)] :
                          \A k \in 0 .. n + 1 : f[k] = KeptAt(f, scope, k)
    OBVIOUS
  <2>1. PICK g \in [0 .. n -> Seq(E)] : \A k \in 0 .. n : g[k] = KeptAt(g, scope, k)
    BY <1>1, <1>3
  <2> DEFINE last == IF Options!IsOfScope(options[n + 1], scope) THEN g[n]
                     ELSE Append(g[n], options[n + 1])
             f == [k \in 0 .. n + 1 |-> IF k = n + 1 THEN last ELSE g[k]]
  <2>2. last \in Seq(E)
    <3>1. options[n + 1] \in E /\ g[n] \in Seq(E)
      BY <1>1
    <3> QED
      BY <3>1
  <2> HIDE DEF last
  <2>3. f \in [0 .. n + 1 -> Seq(E)]
    BY <2>2
  <2>4. /\ f[n + 1] = last /\ f[n] = g[n]
        /\ \A k \in 0 .. n : f[k] = g[k]
    OBVIOUS
  <2> HIDE DEF f
  <2>5. ASSUME NEW k \in 0 .. n + 1
        PROVE  f[k] = KeptAt(f, scope, k)
    <3>1. CASE k = n + 1
      <4>1. n + 1 # 0 /\ (n + 1) - 1 = n
        OBVIOUS
      <4> QED
        BY <2>4, <3>1, <4>1 DEF KeptAt, last
    <3>2. CASE k \in 0 .. n
      <4>1. k # 0 => k - 1 \in 0 .. n
        BY <3>2
      <4>2. k # 0 => f[k - 1] = g[k - 1]
        BY <2>4, <4>1
      <4> QED
        BY <2>1, <2>4, <3>2, <4>2 DEF KeptAt
    <3> QED
      BY <3>1, <3>2
  <2> QED
    BY <2>3, <2>5
<1>4. Nat \subseteq Good
  <2> HIDE DEF Good
  <2> QED
    BY <1>2, <1>3, NatSetInduction
<1>5. PICK h \in [0 .. len -> Seq(E)] : \A k \in 0 .. len : h[k] = KeptAt(h, scope, k)
  <2>1. len \in Good /\ len <= len
    <3> HIDE DEF Good
    <3>1. len \in Good
      BY <1>1, <1>4
    <3>2. len <= len
      BY <1>1
    <3> QED
      BY <3>1, <3>2
  <2> QED
    BY <2>1
<1> DEFINE kept == CHOOSE f : f = [n \in 0 .. len |-> KeptAt(f, scope, n)]
<1>6. Options!Without(scope) = kept[len]
  BY DEF Options!Without, KeptAt
<1>7. kept = [n \in 0 .. len |-> KeptAt(kept, scope, n)]
  <2>1. h = [n \in 0 .. len |-> KeptAt(h, scope, n)]
    BY <1>5
  <2> QED
    BY <2>1
<1> HIDE DEF kept
<1> DEFINE Typed == {n \in Nat : n <= len => kept[n] \in Seq(E)}
<1>8. 0 \in Typed
  BY <1>1, <1>7 DEF KeptAt
<1>9. ASSUME NEW n \in Nat, n \in Typed
      PROVE  n + 1 \in Typed
  <2> SUFFICES ASSUME n + 1 <= len PROVE kept[n + 1] \in Seq(E)
    OBVIOUS
  <2>1. options[n + 1] \in E /\ kept[n] \in Seq(E)
    BY <1>1, <1>9
  <2>2. kept[n + 1] = IF Options!IsOfScope(options[n + 1], scope) THEN kept[n]
                      ELSE Append(kept[n], options[n + 1])
    <3>1. n + 1 \in 0 .. len /\ n + 1 # 0 /\ (n + 1) - 1 = n
      BY <1>1
    <3> QED
      BY <1>7, <3>1 DEF KeptAt
  <2> QED
    BY <2>1, <2>2
<1>10. Nat \subseteq Typed
  <2> HIDE DEF Typed
  <2> QED
    BY <1>8, <1>9, NatSetInduction
<1> QED
  BY <1>1, <1>6, <1>10

LEMMA WithoutIsInv ==
    ASSUME OptionsInv, NEW scope
    PROVE  /\ Options!Without(scope) \in Seq(OptionEntries)
           /\ ~isValue => \A i \in DOMAIN Options!Without(scope) :
                              Options!Without(scope)[i].tail \in SettingTails
<1> DEFINE Settings == {e \in OptionEntries : e.tail \in SettingTails}
<1>1. \A i \in DOMAIN options : options[i] \in OptionEntries
  BY DEF OptionsInv
<1>2. Options!Without(scope) \in Seq(OptionEntries)
  BY <1>1, WithoutKeeps
<1>3. ASSUME ~isValue
      PROVE  Options!Without(scope) \in Seq(Settings)
  <2>1. \A i \in DOMAIN options : options[i] \in Settings
    BY <1>1, <1>3 DEF OptionsInv
  <2> HIDE DEF Settings
  <2> QED
    BY <2>1, WithoutKeeps
<1> QED
  BY <1>2, <1>3

LEMMA OptionsInitInv ==
    ASSUME Options!Init
    PROVE  OptionsInv
<1>1. PICK n \in 0 .. MaxWritten : options \in [1 .. n -> Options!WrittenEntries]
  BY DEF Options!Init
<1>2. Options!WrittenEntries \subseteq OptionEntries
  <2>1. Options!Tails \subseteq OptionTails
    <3>1. "7" \in Options!Numbers
      BY DEF Options!Numbers
    <3> QED
      BY <3>1 DEF Options!Tails, OptionTails, SettingTails, OptionIds
  <2>2. {<<>>} \cup {<<x>> : x \in Cameras \cup {Options!Nvr}} \subseteq SettingTails
    BY DEF SettingTails, OptionIds
  <2>3. SettingTails \subseteq OptionTails
    BY DEF OptionTails
  <2>4. ASSUME NEW e \in Options!WrittenEntries
        PROVE  /\ e \in [isEnable : BOOLEAN, tail : OptionTails]
               /\ ~e.isEnable => e.tail \in SettingTails
    <3>1. CASE \E t \in Options!Tails : e = [isEnable |-> TRUE, tail |-> t]
      BY <2>1, <3>1
    <3>2. CASE \E t \in {<<>>} \cup {<<x>> : x \in Cameras \cup {Options!Nvr}} :
                   e = [isEnable |-> FALSE, tail |-> t]
      <4>1. \E t \in SettingTails : e = [isEnable |-> FALSE, tail |-> t]
        BY <2>2, <3>2
      <4> QED
        BY <2>3, <4>1
    <3> QED
      BY <3>1, <3>2 DEF Options!WrittenEntries, Options!Entry
  <2> QED
    BY <2>4 DEF OptionEntries
<1>3. n \in Nat
  BY <1>1, OptionsAssumption
<1>4. options \in Seq(OptionEntries) /\ DOMAIN options = 1 .. n
  <2>1. options \in [1 .. n -> OptionEntries]
    BY <1>1, <1>2
  <2> QED
    BY <1>3, <2>1
<1>5. ASSUME ~isValue, NEW i \in DOMAIN options
      PROVE  options[i].tail \in SettingTails
  <2>1. options[i].tail \in {<<>>} \cup {<<x>> : x \in Cameras \cup {Options!Nvr}}
    BY <1>5 DEF Options!Init
  <2> QED
    BY <2>1 DEF SettingTails, OptionIds
<1> QED
  BY <1>4, <1>5 DEF OptionsInv, Options!Init

LEMMA SetOptionInv ==
    ASSUME OptionsInv, NEW scope \in Options!Scopes, NEW isEnabled \in BOOLEAN,
           NEW value \in {<<>>} \cup {<<n>> : n \in Options!Numbers},
           value # <<>> => isValue,
           Options!SetOption(scope, isEnabled, value)
    PROVE  OptionsInv'
<1> DEFINE kept == Options!Without(scope)
           tail == scope \o IF isEnabled /\ value # <<>> /\ value # <<Options!DefaultValue>>
                            THEN value ELSE <<>>
           entry == Options!Entry(isEnabled, tail)
<1>1. kept \in Seq(OptionEntries) /\ (~isValue => \A i \in DOMAIN kept : kept[i].tail \in SettingTails)
  BY WithoutIsInv
<1>2. /\ options' \in {kept, Append(kept, entry)}
      /\ isValue' = isValue /\ default' = default
  BY DEF Options!SetOption, Options!NoValue
<1>3. scope = <<>> \/ \E x \in OptionIds : scope = <<x>>
  BY DEF Options!Scopes, OptionIds
<1>4. tail = scope \/ (isEnabled /\ isValue /\ \E n \in Options!Numbers : tail = scope \o <<n>>)
  <2>1. scope \o <<>> = scope
    BY <1>3, JoinedTails
  <2> QED
    BY <2>1
<1> HIDE DEF tail
<1>5. tail \in SettingTails \/ (isEnabled /\ isValue /\ tail \in OptionTails)
  <2>1. scope \in SettingTails
    BY <1>3 DEF SettingTails
  <2>2. ASSUME NEW n \in Options!Numbers, tail = scope \o <<n>>
        PROVE  tail \in OptionTails
    <3>1. CASE scope = <<>>
      BY <2>2, <3>1, JoinedTails DEF OptionTails
    <3>2. ASSUME NEW x \in OptionIds, scope = <<x>>
          PROVE  tail \in OptionTails
      <4>1. tail = <<x, n>>
        BY <2>2, <3>2, JoinedTails
      <4> QED
        BY <4>1 DEF OptionTails
    <3> QED
      BY <1>3, <3>1, <3>2
  <2> QED
    BY <1>4, <2>1, <2>2
<1>6. /\ entry \in OptionEntries
      /\ ~isValue => entry.tail \in SettingTails
  BY <1>5 DEF OptionEntries, Options!Entry, OptionTails
<1> HIDE DEF entry, kept
<1>7. /\ options' \in Seq(OptionEntries)
      /\ ~isValue => \A i \in DOMAIN options' : options'[i].tail \in SettingTails
  <2>1. Append(kept, entry) \in Seq(OptionEntries)
    BY <1>1, <1>6
  <2>2. /\ DOMAIN Append(kept, entry) = 1 .. Len(kept) + 1 /\ Len(kept) \in Nat
        /\ DOMAIN kept = 1 .. Len(kept)
        /\ Append(kept, entry)[Len(kept) + 1] = entry
        /\ \A i \in 1 .. Len(kept) : Append(kept, entry)[i] = kept[i]
    BY <1>1, <1>6
  <2>3. ASSUME ~isValue, NEW i \in DOMAIN Append(kept, entry)
        PROVE  Append(kept, entry)[i].tail \in SettingTails
    <3>1. i = Len(kept) + 1 \/ i \in 1 .. Len(kept)
      BY <2>2
    <3> QED
      BY <1>1, <1>6, <2>2, <2>3, <3>1
  <2> QED
    BY <1>1, <1>2, <2>1, <2>3
<1> QED
  BY <1>2, <1>7 DEF OptionsInv

LEMMA OptionsStepInv ==
    ASSUME OptionsInv, [Options!Next]_optionsVars
    PROVE  OptionsInv'
<1>1. CASE UNCHANGED optionsVars
  BY <1>1 DEF OptionsInv, optionsVars
<1>2. ASSUME NEW scope \in Options!Scopes,
             Options!SetOption(scope, ~Options!Shown(options, scope).enabled, Options!NoValue)
      PROVE  OptionsInv'
  BY <1>2, SetOptionInv DEF Options!NoValue
<1>3. ASSUME NEW scope \in Options!Scopes, isValue, NEW n \in Options!Numbers,
             Options!SetOption(scope, TRUE, <<n>>)
      PROVE  OptionsInv'
  BY <1>3, SetOptionInv
<1>4. ASSUME NEW scope \in Options!Scopes, Options!RemoveOption(scope)
      PROVE  OptionsInv'
  BY <1>4, WithoutIsInv DEF Options!RemoveOption, OptionsInv
<1> QED
  BY <1>1, <1>2, <1>3, <1>4 DEF Options!Next

\* After any edits in the interface, and whatever was written before, the entries decide as a
\* user reads them, to the plugin and, where it knows of them, in the interface
\* (resolveScope, getOptionState, setOption).
THEOREM OptionsStayInAgreement == Options!Spec => []OptionsAgree
<1>1. OptionsInv => OptionsAgree
  BY OptionsAreRight DEF OptionsAgree
<1>2. Options!Init => OptionsInv
  BY OptionsInitInv
<1>3. OptionsInv /\ [Options!Next]_optionsVars => OptionsInv'
  BY OptionsStepInv
<1> QED
  BY <1>1, <1>2, <1>3, PTL DEF Options!Spec, Options!vars, optionsVars


-----------------------------------------------------------------------------
(* RTSP entries.                                                           *)

Resolutions == [width : Nat, height : Nat, fps : Nat]

Sizes == Nat \X Nat

EntriesOf(cs) == [channel : cs, resolution : Resolutions]

LEMMA RtspCounts ==
    ASSUME NEW S
    PROVE  Rtsp!Cardinality(S) = Cardinality(S)
BY DEF Rtsp!Cardinality, Cardinality

\* The order of resolutions is one in which any two entries follow one another.
LEMMA PrecedesIsOrder ==
    ASSUME NEW I, I \subseteq Nat, NEW f, \A i \in I : f[i].resolution \in Resolutions
    PROVE  /\ \A i \in I : ~Rtsp!Precedes(f, i, i)
           /\ \A i, j \in I : i # j => Rtsp!Precedes(f, i, j) \/ Rtsp!Precedes(f, j, i)
           /\ \A i, j, k \in I : Rtsp!Precedes(f, i, j) /\ Rtsp!Precedes(f, j, k) =>
                                     Rtsp!Precedes(f, i, k)
           /\ \A i, j \in I : Rtsp!Precedes(f, i, j) =>
                                  f[i].resolution.width >= f[j].resolution.width
<1>1. \A i \in I : /\ f[i].resolution.width \in Nat /\ f[i].resolution.height \in Nat
                   /\ f[i].resolution.fps \in Nat
  BY DEF Resolutions
<1>2. \A i, j \in I : f[i].resolution = f[j].resolution <=>
                          /\ f[i].resolution.width = f[j].resolution.width
                          /\ f[i].resolution.height = f[j].resolution.height
                          /\ f[i].resolution.fps = f[j].resolution.fps
  BY DEF Resolutions
<1>3. ASSUME NEW i \in I
      PROVE  ~Rtsp!Precedes(f, i, i)
  BY <1>1 DEF Rtsp!Precedes
<1>4. ASSUME NEW i \in I, NEW j \in I
      PROVE  /\ i # j => Rtsp!Precedes(f, i, j) \/ Rtsp!Precedes(f, j, i)
             /\ Rtsp!Precedes(f, i, j) => f[i].resolution.width >= f[j].resolution.width
  BY <1>1, <1>2 DEF Rtsp!Precedes
<1>5. ASSUME NEW i \in I, NEW j \in I, NEW k \in I,
             Rtsp!Precedes(f, i, j), Rtsp!Precedes(f, j, k)
      PROVE  Rtsp!Precedes(f, i, k)
  <2>1. i \in Nat /\ j \in Nat /\ k \in Nat
    OBVIOUS
  <2>2. /\ f[i].resolution = f[j].resolution /\ f[j].resolution = f[k].resolution =>
               f[i].resolution = f[k].resolution /\ (i < j /\ j < k => i < k)
    BY <2>1
  <2> QED
    BY <1>1, <1>2, <1>5, <2>1, <2>2 DEF Rtsp!Precedes
<1> QED
  BY <1>3, <1>4, <1>5

PlacesOf(f, I) == {Rtsp!Place(f, I, i) : i \in I}

\* Each index has its place in the order, and each place its index.
LEMMA PlacesAreTaken ==
    ASSUME NEW I, I \subseteq Nat, IsFiniteSet(I),
           NEW f, \A i \in I : f[i].resolution \in Resolutions
    PROVE  /\ Cardinality(I) \in Nat
           /\ \A i \in I : Rtsp!Place(f, I, i) \in 1 .. Cardinality(I)
           /\ \A i, j \in I : Rtsp!Precedes(f, i, j) => Rtsp!Place(f, I, i) < Rtsp!Place(f, I, j)
           /\ \A i, j \in I : Rtsp!Place(f, I, i) = Rtsp!Place(f, I, j) => i = j
           /\ PlacesOf(f, I) = 1 .. Cardinality(I)
<1> DEFINE Before(i) == {j \in I : Rtsp!Precedes(f, j, i)}
           n == Cardinality(I)
           rank == [i \in I |-> Rtsp!Place(f, I, i)]
<1>1. n \in Nat
  BY FS_CardinalityType
<1>2. ASSUME NEW i \in I
      PROVE  /\ IsFiniteSet(Before(i)) /\ Cardinality(Before(i)) \in Nat
             /\ Cardinality(Before(i)) < n
  <2>1. Before(i) \in SUBSET I /\ i \notin Before(i)
    BY PrecedesIsOrder
  <2>2. /\ IsFiniteSet(Before(i)) /\ Cardinality(Before(i)) <= n
        /\ n = Cardinality(Before(i)) => I = Before(i)
    BY <2>1, FS_Subset
  <2>3. Cardinality(Before(i)) \in Nat
    BY <2>2, FS_CardinalityType
  <2> QED
    BY <1>1, <2>1, <2>2, <2>3
<1>3. ASSUME NEW i \in I, NEW j \in I, Rtsp!Precedes(f, i, j)
      PROVE  Cardinality(Before(i)) < Cardinality(Before(j))
  <2>1. Before(i) \in SUBSET Before(j) /\ i \in Before(j) /\ i \notin Before(i)
    BY <1>3, PrecedesIsOrder
  <2>2. /\ Cardinality(Before(i)) <= Cardinality(Before(j))
        /\ Cardinality(Before(j)) = Cardinality(Before(i)) => Before(j) = Before(i)
    BY <1>2, <2>1, FS_Subset
  <2> QED
    BY <1>2, <2>1, <2>2
<1>9. \A i \in I : rank[i] = Rtsp!Place(f, I, i)
  OBVIOUS
<1>4. ASSUME NEW i \in I
      PROVE  rank[i] = Cardinality(Before(i)) + 1
  BY <1>9, RtspCounts DEF Rtsp!Place
<1> HIDE DEF Before, n
<1>5. rank \in [I -> 1 .. n]
  <2>1. \A i \in I : rank[i] \in 1 .. n
    BY <1>1, <1>2, <1>4
  <2> QED
    BY <2>1
<1>6. \A i, j \in I : Rtsp!Precedes(f, i, j) => rank[i] < rank[j]
  BY <1>2, <1>3, <1>4
<1>7. ASSUME NEW i \in I, NEW j \in I, rank[i] = rank[j]
      PROVE  i = j
  <2>1. rank[i] \in Nat /\ rank[j] \in Nat
    BY <1>5
  <2>2. i # j => Rtsp!Precedes(f, i, j) \/ Rtsp!Precedes(f, j, i)
    BY PrecedesIsOrder
  <2> QED
    BY <1>6, <1>7, <2>1, <2>2
<1>8. \A k \in 1 .. n : \E i \in I : rank[i] = k
  <2>1. rank \in Injection(I, 1 .. n)
    BY <1>5, <1>7 DEF Injection, IsInjective
  <2>2. IsFiniteSet(1 .. n) /\ Cardinality(1 .. n) = n
    BY <1>1, FS_Interval
  <2>3. rank \in Surjection(I, 1 .. n)
    BY <2>1, <2>2, FS_Injection DEF n
  <2> QED
    BY <2>3 DEF Surjection
<1> QED
  BY <1>1, <1>5, <1>6, <1>7, <1>8, <1>9 DEF n, PlacesOf

Arranges(s, f, I) ==
    /\ \A k \in DOMAIN s : \E i \in I : s[k] = f[i]
    /\ \A i \in I : \E k \in DOMAIN s : s[k] = f[i]

\* What is ordered has the entries of these indices, the widest first.
LEMMA OrderedIs ==
    ASSUME NEW I, I \subseteq Nat, IsFiniteSet(I), NEW cs,
           NEW f, \A i \in I : f[i] \in EntriesOf(cs)
    PROVE  /\ Cardinality(I) \in Nat
           /\ Rtsp!Ordered(f, I) \in Seq(EntriesOf(cs))
           /\ DOMAIN Rtsp!Ordered(f, I) = 1 .. Cardinality(I)
           /\ Arranges(Rtsp!Ordered(f, I), f, I)
           /\ \A k, l \in 1 .. Cardinality(I) : k <= l =>
                  Rtsp!Ordered(f, I)[k].resolution.width >= Rtsp!Ordered(f, I)[l].resolution.width
<1> DEFINE ranks == [i \in I |-> Rtsp!Place(f, I, i)]
           rank(i) == ranks[i]
           n == Cardinality(I)
           at(k) == CHOOSE i \in I : rank(i) = k
           s == Rtsp!Ordered(f, I)
<1>1. \A i \in I : f[i].resolution \in Resolutions
  BY DEF EntriesOf
<1>2. /\ n \in Nat /\ \A i \in I : rank(i) \in 1 .. n
      /\ \A i, j \in I : Rtsp!Precedes(f, i, j) => rank(i) < rank(j)
      /\ \A i, j \in I : rank(i) = rank(j) => i = j
      /\ \A k \in 1 .. n : \E i \in I : rank(i) = k
  <2>0. \A i \in I : ranks[i] = Rtsp!Place(f, I, i)
    OBVIOUS
  <2> HIDE DEF ranks
  <2>t. /\ n \in Nat
        /\ \A i \in I : Rtsp!Place(f, I, i) \in 1 .. n
        /\ \A i, j \in I : Rtsp!Precedes(f, i, j) => Rtsp!Place(f, I, i) < Rtsp!Place(f, I, j)
    BY <1>1, PlacesAreTaken
  <2>1. n \in Nat /\ \A i \in I : rank(i) \in 1 .. n
    BY <2>0, <2>t
  <2>2. \A i, j \in I : Rtsp!Precedes(f, i, j) => rank(i) < rank(j)
    <3> SUFFICES ASSUME NEW i \in I, NEW j \in I, Rtsp!Precedes(f, i, j)
                 PROVE  rank(i) < rank(j)
      OBVIOUS
    <3> QED
      BY <2>0, <2>t
  <2>3. \A i, j \in I : rank(i) = rank(j) => i = j
    BY <1>1, <2>0, PlacesAreTaken
  <2>4. ASSUME NEW k \in 1 .. n
        PROVE  \E i \in I : rank(i) = k
    <3>1. k \in 1 .. Cardinality(I)
      OBVIOUS
    <3>2. \E i \in I : Rtsp!Place(f, I, i) = k
      <4>1. PlacesOf(f, I) = 1 .. Cardinality(I)
        BY <1>1, PlacesAreTaken
      <4> QED
        BY <3>1, <4>1 DEF PlacesOf
    <3> QED
      BY <2>0, <3>2
  <2> QED
    BY <2>1, <2>2, <2>3, <2>4
<1>3. s = [k \in 1 .. n |-> f[at(k)]]
  BY RtspCounts DEF Rtsp!Ordered
<1> HIDE DEF rank, ranks, s, n
<1>4. ASSUME NEW k \in 1 .. n
      PROVE  at(k) \in I /\ rank(at(k)) = k
  BY <1>2
<1>5. ASSUME NEW i \in I
      PROVE  rank(i) \in 1 .. n /\ at(rank(i)) = i
  <2>1. rank(i) \in 1 .. n
    BY <1>2
  <2> QED
    BY <1>2, <1>4, <2>1
<1> HIDE DEF at
<1>6. \A k \in 1 .. n : s[k] = f[at(k)] /\ s[k] \in EntriesOf(cs)
  BY <1>3, <1>4
<1>7. s \in Seq(EntriesOf(cs)) /\ DOMAIN s = 1 .. n
  <2>1. s \in [1 .. n -> EntriesOf(cs)]
    BY <1>3, <1>6
  <2> QED
    BY <1>2, <2>1
<1>8. \A k \in 1 .. n : \E i \in I : s[k] = f[i]
  BY <1>4, <1>6
<1>9. \A i \in I : \E k \in 1 .. n : s[k] = f[i]
  BY <1>5, <1>6
<1>10. ASSUME NEW k \in 1 .. n, NEW l \in 1 .. n, k <= l
       PROVE  s[k].resolution.width >= s[l].resolution.width
  <2>1. CASE k = l
    <3>1. s[k].resolution.width \in Nat
      BY <1>6 DEF EntriesOf, Resolutions
    <3> QED
      BY <2>1, <3>1
  <2>2. CASE k # l
    <3>1. PICK i \in I, j \in I : /\ rank(i) = k /\ rank(j) = l
                                   /\ s[k] = f[i] /\ s[l] = f[j]
      BY <1>4, <1>6
    <3>2. i # j
      BY <2>2, <3>1
    <3>3. Rtsp!Precedes(f, j, i) => l < k
      BY <1>2, <3>1
    <3>4. k \in Nat /\ l \in Nat
      BY <1>2
    <3>5. Rtsp!Precedes(f, i, j)
      <4>1. ~(l < k)
        BY <1>10, <3>4
      <4>2. ~Rtsp!Precedes(f, j, i)
        BY <3>3, <4>1
      <4> QED
        BY <1>1, <3>2, <4>2, PrecedesIsOrder
    <3>6. f[i].resolution.width >= f[j].resolution.width
      BY <1>1, <3>5, PrecedesIsOrder
    <3> QED
      BY <3>1, <3>6
  <2> QED
    BY <2>1, <2>2
<1> QED
  BY <1>2, <1>7, <1>8, <1>9, <1>10 DEF s, n, Arranges

LEMMA FirstIs ==
    ASSUME NEW S, S \subseteq Nat, S # {}
    PROVE  Rtsp!FirstOf(S) \in S /\ \A i \in S : Rtsp!FirstOf(S) <= i
<1>1. \E i \in S : \A j \in S : i <= j
  BY LeastNatural
<1> QED
  BY <1>1 DEF Rtsp!FirstOf

LEMMA EntryTypes ==
    ASSUME NEW cs, cs \subseteq Rtsp!Channels, NEW es \in Seq(EntriesOf(cs))
    PROVE  /\ DOMAIN es = 1 .. Len(es) /\ Len(es) \in Nat
           /\ \A i \in DOMAIN es :
                  /\ es[i].channel \in cs /\ es[i].channel.width \in Nat
                  /\ es[i].channel.height \in Nat /\ es[i].channel.fps \in Nat
                  /\ es[i].resolution.width \in Nat
<1>1. DOMAIN es = 1 .. Len(es) /\ Len(es) \in Nat /\ \A i \in DOMAIN es : es[i] \in EntriesOf(cs)
  OBVIOUS
<1>2. ASSUME NEW e \in EntriesOf(cs)
      PROVE  /\ e.channel \in cs /\ e.channel.width \in Nat
             /\ e.channel.height \in Nat /\ e.channel.fps \in Nat
             /\ e.resolution.width \in Nat
  <2>1. e.channel \in Rtsp!Channels /\ e.channel \in cs /\ e.resolution \in Resolutions
    BY DEF EntriesOf
  <2> QED
    BY <2>1 DEF Resolutions, Rtsp!Channels
<1> QED
  BY <1>1, <1>2

LEMMA SomethingIsFirst ==
    ASSUME NEW S, NEW s \in Seq(S)
    PROVE  /\ DOMAIN s = 1 .. Len(s) /\ Len(s) \in Nat
           /\ s # <<>> <=> Len(s) # 0
           /\ s # <<>> => 1 \in DOMAIN s
OBVIOUS

\* Without a wish what is found is of the size, or the first that is narrower, or the last where
\* none is.
LEMMA FoundIs ==
    ASSUME NEW cs, cs \subseteq Rtsp!Channels, NEW es \in Seq(EntriesOf(cs)), es # <<>>,
           NEW width \in Nat, NEW height \in Nat
    PROVE  LET k == Rtsp!Found(es, width, height, "")
           IN  /\ k \in DOMAIN es
               /\ \/ es[k].channel.width = width /\ es[k].channel.height = height
                  \/ /\ es[k].channel.width < width
                     /\ \A j \in DOMAIN es : es[j].channel.width < width => k <= j
                  \/ \A j \in DOMAIN es : es[j].channel.width >= width
<1> DEFINE k == Rtsp!Found(es, width, height, "")
           exact == {i \in DOMAIN es : es[i].channel.width = width /\ es[i].channel.height = height}
           narrower == {i \in DOMAIN es : es[i].channel.width < width}
<1>1. /\ DOMAIN es = 1 .. Len(es) /\ Len(es) \in Nat /\ Len(es) # 0
      /\ \A i \in DOMAIN es : es[i].channel.width \in Nat
  BY EntryTypes
<1>2. k = IF exact # {} THEN Rtsp!FirstOf(exact)
          ELSE IF narrower # {} THEN Rtsp!FirstOf(narrower) ELSE Len(es)
  BY DEF Rtsp!Found
<1>3. exact \subseteq Nat /\ narrower \subseteq Nat
  BY <1>1
<1> HIDE DEF k
<1>4. /\ k \in DOMAIN es
      /\ \/ es[k].channel.width = width /\ es[k].channel.height = height
         \/ /\ es[k].channel.width < width
            /\ \A j \in DOMAIN es : es[j].channel.width < width => k <= j
         \/ \A j \in DOMAIN es : es[j].channel.width >= width
  <2>1. CASE exact # {}
    <3>1. k \in exact
      BY <1>2, <1>3, <2>1, FirstIs
    <3> QED
      BY <3>1
  <2>2. CASE exact = {} /\ narrower # {}
    <3>1. k \in narrower /\ \A i \in narrower : k <= i
      BY <1>2, <1>3, <2>2, FirstIs
    <3> QED
      BY <3>1
  <2>3. CASE exact = {} /\ narrower = {}
    <3>1. k = Len(es) /\ \A j \in DOMAIN es : ~(es[j].channel.width < width)
      BY <1>2, <2>3
    <3>2. \A j \in DOMAIN es : es[j].channel.width >= width
      BY <1>1, <3>1
    <3>3. Len(es) \in 1 .. Len(es)
      BY <1>1
    <3> QED
      BY <1>1, <3>1, <3>2, <3>3
  <2> QED
    BY <2>1, <2>2, <2>3
<1> QED
  BY <1>4 DEF k

\* With a wish it is there too, unless it is none.
LEMMA NamedIs ==
    ASSUME NEW cs, cs \subseteq Rtsp!Channels, NEW es \in Seq(EntriesOf(cs)), es # <<>>,
           NEW width \in Nat, NEW height \in Nat, NEW wish
    PROVE  Rtsp!Found(es, width, height, wish) \in DOMAIN es \cup {0}
<1>1. CASE wish = ""
  BY <1>1, FoundIs
<1>2. CASE wish # ""
  <2> DEFINE named == {i \in DOMAIN es : es[i].channel.name = wish}
  <2>1. Rtsp!Found(es, width, height, wish) = Rtsp!FirstOf(named)
    BY <1>2 DEF Rtsp!Found
  <2>2. named \subseteq Nat
    BY EntryTypes
  <2>3. named = {} => Rtsp!FirstOf(named) = 0
    BY DEF Rtsp!FirstOf
  <2> QED
    BY <2>1, <2>2, <2>3, FirstIs
<1> QED
  BY <1>1, <1>2

-----------------------------------------------------------------------------
(* The sizes that are added, and the entries of a configuration.           *)

WidthsOf(es) == {es[i].channel.width : i \in DOMAIN es}

\* No channel is between the entry's own and its size.
IsClosest(e, widths) == \A w \in widths : ~(e.channel.width < w /\ w < e.resolution.width)

\* What the loop begins with: each channel at its own size, the widest first.
AreNatives(natives, cs) ==
    /\ cs \subseteq Rtsp!Channels /\ natives \in Seq(EntriesOf(cs)) /\ natives # <<>>
    /\ cs = {natives[i].channel : i \in DOMAIN natives}
    /\ \A i \in DOMAIN natives : natives[i].resolution.width = natives[i].channel.width
    /\ \A i, j \in DOMAIN natives :
           i <= j => natives[i].resolution.width >= natives[j].resolution.width

\* What it has at any time.
Candidates(natives, cs, wish) ==
    {es \in Seq(EntriesOf(cs)) :
        /\ Len(natives) <= Len(es)
        /\ \A i \in DOMAIN natives : es[i] = natives[i]
        /\ wish = "" => \A i \in DOMAIN es : IsClosest(es[i], WidthsOf(natives))}

HasWidth(es, width) == \E i \in DOMAIN es : es[i].resolution.width = width

Keeps(new, es) == \A i \in DOMAIN es : i \in DOMAIN new /\ new[i] = es[i]

LEMMA AddedIs ==
    ASSUME NEW natives, NEW cs, AreNatives(natives, cs), NEW wish,
           NEW es \in Candidates(natives, cs, wish), NEW size \in Sizes
    PROVE  /\ Rtsp!Added(es, size, wish) \in Candidates(natives, cs, wish)
           /\ Keeps(Rtsp!Added(es, size, wish), es)
           /\ wish = "" /\ Rtsp!Fits(size[1], natives[1].resolution) =>
                  HasWidth(Rtsp!Added(es, size, wish), size[1])
<1> DEFINE found == Rtsp!Found(es, size[1], size[2], wish)
           channel == es[found].channel
           resolution == Rtsp!Resolution(size[1], size[2], channel.fps)
           new == Rtsp!Entry(channel, resolution)
           added == Rtsp!Added(es, size, wish)
           isThere == \E i \in DOMAIN es : es[i].resolution = resolution
           widths == WidthsOf(natives)
<1>1. /\ cs \subseteq Rtsp!Channels /\ natives \in Seq(EntriesOf(cs)) /\ natives # <<>>
      /\ es \in Seq(EntriesOf(cs)) /\ Len(natives) <= Len(es)
      /\ \A i \in DOMAIN natives : es[i] = natives[i]
      /\ wish = "" => \A i \in DOMAIN es : IsClosest(es[i], widths)
      /\ size[1] \in Nat /\ size[2] \in Nat
  BY DEF AreNatives, Candidates, Sizes
<1>2. /\ DOMAIN natives = 1 .. Len(natives) /\ Len(natives) \in Nat /\ Len(natives) # 0
      /\ DOMAIN es = 1 .. Len(es) /\ Len(es) \in Nat /\ Len(natives) <= Len(es)
  BY <1>1, SomethingIsFirst
<1>11. DOMAIN natives \subseteq DOMAIN es /\ DOMAIN es \subseteq Nat
  BY <1>2
<1>3. 1 \in DOMAIN natives /\ es[1] = natives[1] /\ es # <<>>
  <2>1. Len(es) # 0 /\ 1 \in DOMAIN natives
    BY <1>2
  <2> QED
    BY <1>1, <2>1, SomethingIsFirst
<1>4. found \in DOMAIN es \cup {0}
  BY <1>1, <1>3, NamedIs
<1>5. wish = "" => /\ found \in DOMAIN es
                   /\ \/ es[found].channel.width = size[1]
                      \/ \A i \in DOMAIN es : es[i].channel.width < size[1] => found <= i
                      \/ \A i \in DOMAIN es : es[i].channel.width >= size[1]
  BY <1>1, <1>3, FoundIs
<1>6. added = IF Rtsp!Fits(size[1], natives[1].resolution) /\ found # 0 /\ ~isThere
              THEN Append(es, new) ELSE es
  BY <1>3 DEF Rtsp!Added
<1>7. ASSUME found # 0
      PROVE  /\ found \in DOMAIN es /\ new \in EntriesOf(cs)
             /\ new.channel = es[found].channel /\ new.resolution.width = size[1]
             /\ resolution.width = size[1]
  <2>1. found \in DOMAIN es
    BY <1>4, <1>7
  <2>2. channel \in cs /\ channel.fps \in Nat
    BY <1>1, <2>1, EntryTypes
  <2> QED
    BY <1>1, <2>1, <2>2 DEF EntriesOf, Resolutions, Rtsp!Entry, Rtsp!Resolution
<1> HIDE DEF channel, new, added, found, resolution, widths
<1>8. ASSUME wish = "", found # 0
      PROVE  IsClosest(new, widths)
  <2> SUFFICES ASSUME NEW j \in DOMAIN natives,
                      es[found].channel.width < natives[j].channel.width,
                      natives[j].channel.width < size[1]
               PROVE  FALSE
    BY <1>7, <1>8 DEF IsClosest, WidthsOf, widths
  <2>1. j \in DOMAIN es /\ j \in Nat /\ found \in DOMAIN es /\ found \in Nat
    <3>1. found \in DOMAIN es
      BY <1>7, <1>8
    <3> QED
      BY <1>11, <3>1
  <2>2. /\ es[j] = natives[j] /\ es[j].channel.width < size[1]
        /\ es[j].channel.width \in Nat /\ es[found].channel.width \in Nat
    BY <1>1, <2>1, EntryTypes
  <2>3. found <= j
    <3>1. ~(es[found].channel.width = size[1]) /\ ~(es[j].channel.width >= size[1])
      <4>1. \A a, b, c \in Nat : a < b /\ b < c => a # c /\ ~(b >= c)
        OBVIOUS
      <4> QED
        BY <1>1, <2>2, <4>1
    <3> QED
      BY <1>5, <1>8, <2>1, <2>2, <3>1
  <2>4. found \in DOMAIN natives /\ es[found] = natives[found]
    <3>1. j \in 1 .. Len(natives) /\ found \in 1 .. Len(es)
      BY <1>2, <2>1
    <3>2. found \in 1 .. Len(natives)
      BY <1>2, <2>3, <3>1
    <3> QED
      BY <1>1, <1>2, <3>2
  <2>5. /\ natives[found].resolution.width >= natives[j].resolution.width
        /\ natives[found].resolution.width = natives[found].channel.width
        /\ natives[j].resolution.width = natives[j].channel.width
    BY <2>3, <2>4 DEF AreNatives
  <2> QED
    BY <2>2, <2>4, <2>5
<1>9. CASE added = es
  <2>1. ASSUME wish = "", Rtsp!Fits(size[1], natives[1].resolution)
        PROVE  \E i \in DOMAIN es : es[i].resolution.width = size[1]
    <3>1. found # 0
      <4>1. found \in 1 .. Len(es)
        BY <1>2, <1>5, <2>1
      <4> QED
        BY <4>1
    <3>2. CASE isThere
      BY <1>7, <3>1, <3>2
    <3>3. CASE ~isThere
      <4>1. Append(es, new) = es
        BY <1>6, <1>9, <2>1, <3>1, <3>3
      <4>2. Len(Append(es, new)) = Len(es) + 1
        <5>1. es \in Seq(EntriesOf(cs)) /\ new \in EntriesOf(cs)
          BY <1>1, <1>7, <3>1
        <5> QED
          BY <5>1, AppendProperties
      <4>3. \A n \in Nat : n # n + 1
        OBVIOUS
      <4>4. Len(es) = Len(es) + 1 /\ Len(es) \in Nat
        BY <1>2, <4>1, <4>2
      <4> QED
        BY <4>3, <4>4
    <3> QED
      BY <3>2, <3>3
  <2> QED
    BY <1>1, <1>9, <2>1 DEF added, Keeps, HasWidth
<1>10. CASE added # es
  <2> HIDE DEF isThere
  <2>1. found # 0 /\ added = Append(es, new) /\ new \in EntriesOf(cs)
    BY <1>6, <1>7, <1>10
  <2>2. /\ added \in Seq(EntriesOf(cs)) /\ Len(added) = Len(es) + 1
        /\ added[Len(es) + 1] = new /\ \A i \in 1 .. Len(es) : added[i] = es[i]
    <3>1. es \in Seq(EntriesOf(cs)) /\ new \in EntriesOf(cs)
      BY <1>1, <2>1
    <3> QED
      BY <2>1, <3>1, AppendProperties
  <2>3. DOMAIN added = 1 .. Len(es) + 1 /\ \A i \in DOMAIN es : i \in DOMAIN added
    BY <1>2, <2>2
  <2>4. \A i \in DOMAIN natives : added[i] = natives[i]
    <3>1. \A i \in DOMAIN natives : i \in 1 .. Len(es)
      BY <1>2
    <3> QED
      BY <1>1, <2>2, <3>1
  <2>5. ASSUME wish = "", NEW i \in DOMAIN added
        PROVE  IsClosest(added[i], widths)
    <3>1. i = Len(es) + 1 \/ i \in 1 .. Len(es)
      BY <1>2, <2>3
    <3>2. \A j \in 1 .. Len(es) : IsClosest(es[j], widths)
      BY <1>1, <1>2, <2>5
    <3>3. IsClosest(new, widths)
      BY <1>8, <2>1, <2>5
    <3> QED
      BY <2>2, <3>1, <3>2, <3>3
  <2>6. added \in Candidates(natives, cs, wish)
    <3>1. Len(natives) <= Len(added)
      BY <1>2, <2>2
    <3> QED
      BY <2>2, <2>4, <2>5, <3>1 DEF Candidates, widths
  <2>7. Len(es) + 1 \in DOMAIN added /\ added[Len(es) + 1].resolution.width = size[1]
    BY <1>2, <1>7, <2>1, <2>2, <2>3
  <2>8. \A i \in DOMAIN es : added[i] = es[i]
    BY <1>2, <2>2
  <2> QED
    BY <2>3, <2>6, <2>7, <2>8 DEF added, Keeps, HasWidth
<1> QED
  BY <1>9, <1>10

LEMMA ResolutionsAre ==
    ASSUME NEW native
    PROVE  LET sizes == Rtsp!ValidResolutions(native)
           IN  /\ Len(sizes) = 7 /\ \A n \in 1 .. 7 : sizes[n] \in Sizes
               /\ sizes[3][1] = 1920 /\ sizes[4][1] = 1280
<1> DEFINE Right(s) == /\ Len(s) = 7 /\ \A n \in 1 .. 7 : s[n] \in Sizes
                       /\ s[3][1] = 1920 /\ s[4][1] = 1280
<1>1. \A n \in 1 .. 7 : n = 1 \/ n = 2 \/ n = 3 \/ n = 4 \/ n = 5 \/ n = 6 \/ n = 7
  OBVIOUS
<1>2. Right(<<<<3840, 2880>>, <<2560, 1920>>, <<1920, 1440>>, <<1280, 960>>, <<640, 480>>,
              <<480, 360>>, <<320, 240>>>>)
  BY <1>1 DEF Sizes
<1>3. Right(<<<<3840, 2160>>, <<2560, 1440>>, <<1920, 1080>>, <<1280, 720>>, <<640, 360>>,
              <<480, 270>>, <<320, 180>>>>)
  BY <1>1 DEF Sizes
<1> HIDE DEF Right
<1>4. Right(Rtsp!ValidResolutions(native))
  BY <1>2, <1>3 DEF Rtsp!ValidResolutions
<1> QED
  BY <1>4 DEF Right

NoWish(wish) == wish = ""

IsResult(es, natives, wish) ==
    /\ Rtsp!WithCandidates(natives, wish) = Rtsp!Ordered(es, DOMAIN es)
    /\ NoWish(wish) => HasWidth(es, 1920) /\ HasWidth(es, 1280)

\* What the loop ends with is what it begins with and one entry of each size that fits.
LEMMA LoopIs ==
    ASSUME NEW natives, NEW cs, AreNatives(natives, cs), NEW wish
    PROVE  \E es \in Candidates(natives, cs, wish) : IsResult(es, natives, wish)
<1> DEFINE sizes == Rtsp!ValidResolutions(natives[1].resolution)
           T == Candidates(natives, cs, wish)
           At(f, n) == IF n = 0 THEN natives ELSE Rtsp!Added(f[n - 1], sizes[n], wish)
           step == [n \in 1 .. 7 |-> [es \in T |-> Rtsp!Added(es, sizes[n], wish)]]
           with == CHOOSE f : f = [n \in 0 .. Len(sizes) |-> At(f, n)]
<1>1. /\ Len(sizes) = 7 /\ \A n \in 1 .. 7 : sizes[n] \in Sizes
      /\ sizes[3][1] = 1920 /\ sizes[4][1] = 1280
  BY ResolutionsAre
<1>2. Rtsp!WithCandidates(natives, wish) =
          Rtsp!Ordered(with[Len(sizes)], DOMAIN with[Len(sizes)])
  BY DEF Rtsp!WithCandidates
<1> HIDE DEF sizes, T
<1>3. natives \in T
  <2>1. \A i \in DOMAIN natives : IsClosest(natives[i], WidthsOf(natives))
    <3> SUFFICES ASSUME NEW i \in DOMAIN natives, NEW w \in WidthsOf(natives),
                        natives[i].channel.width < w, w < natives[i].resolution.width
                 PROVE  FALSE
      BY DEF IsClosest
    <3>1. natives[i].channel.width \in Nat /\ w \in Nat
      BY EntryTypes DEF AreNatives, WidthsOf
    <3>2. natives[i].resolution.width = natives[i].channel.width
      BY DEF AreNatives
    <3> QED
      BY <3>1, <3>2
  <2>2. Len(natives) \in Nat
    BY DEF AreNatives
  <2> QED
    <3>1. natives \in Seq(EntriesOf(cs)) /\ Len(natives) <= Len(natives)
      BY <2>2 DEF AreNatives
    <3> QED
      BY <2>1, <3>1 DEF T, Candidates
<1>4. ASSUME NEW n \in 1 .. 7, NEW es \in T
      PROVE  /\ step[n][es] = Rtsp!Added(es, sizes[n], wish)
             /\ Rtsp!Added(es, sizes[n], wish) \in T
             /\ Keeps(Rtsp!Added(es, sizes[n], wish), es)
             /\ wish = "" /\ Rtsp!Fits(sizes[n][1], natives[1].resolution) =>
                    HasWidth(Rtsp!Added(es, sizes[n], wish), sizes[n][1])
  <2>1. sizes[n] \in Sizes /\ es \in Candidates(natives, cs, wish)
    BY <1>1 DEF T
  <2>2. Rtsp!Added(es, sizes[n], wish) \in T
    BY <2>1, AddedIs DEF T
  <2>3. Keeps(Rtsp!Added(es, sizes[n], wish), es)
    BY <2>1, AddedIs
  <2>4. wish = "" /\ Rtsp!Fits(sizes[n][1], natives[1].resolution) =>
            HasWidth(Rtsp!Added(es, sizes[n], wish), sizes[n][1])
    BY <2>1, AddedIs
  <2>5. step[n][es] = Rtsp!Added(es, sizes[n], wish)
    OBVIOUS
  <2> QED
    BY <2>2, <2>3, <2>4, <2>5
<1>5. PICK h \in [0 .. 7 -> T] : h[0] = natives /\ \A n \in 1 .. 7 : h[n] = step[n][h[n - 1]]
  <2>1. \A n \in 1 .. 7, es \in T : step[n][es] \in T
    BY <1>4
  <2> HIDE DEF step
  <2>2. Loops(T, natives, 7, step) # {}
    BY <1>3, <2>1, LoopExists
  <2> QED
    BY <2>2 DEF Loops
<1> HIDE DEF step
<1>6. \A n \in 0 .. 7 : h[n] = At(h, n)
  <2>1. ASSUME NEW n \in 1 .. 7
        PROVE  h[n] = Rtsp!Added(h[n - 1], sizes[n], wish)
    <3>1. n - 1 \in 0 .. 7
      OBVIOUS
    <3> QED
      BY <1>4, <1>5, <3>1
  <2>2. \A n \in 0 .. 7 : n = 0 \/ (n \in 1 .. 7 /\ n # 0)
    OBVIOUS
  <2> QED
    BY <1>5, <2>1, <2>2
<1>7. with = [n \in 0 .. 7 |-> At(with, n)]
  <2>1. h = [n \in 0 .. 7 |-> At(h, n)]
    BY <1>5, <1>6
  <2> HIDE DEF At
  <2>2. \E f : f = [n \in 0 .. Len(sizes) |-> At(f, n)]
    BY <1>1, <2>1
  <2> QED
    BY <1>1, <2>2
<1> HIDE DEF with
<1>8. /\ with[0] = natives
      /\ \A n \in 1 .. 7 : with[n] = Rtsp!Added(with[n - 1], sizes[n], wish)
  <2>1. \A n \in 0 .. 7 : with[n] = At(with, n)
    <3> HIDE DEF At
    <3> QED
      BY <1>7
  <2>2. 0 \in 0 .. 7 /\ \A n \in 1 .. 7 : n \in 0 .. 7 /\ n # 0
    OBVIOUS
  <2> QED
    BY <2>1, <2>2
<1>9. /\ with[0] \in T /\ with[1] \in T /\ with[2] \in T /\ with[3] \in T /\ with[4] \in T
      /\ with[5] \in T /\ with[6] \in T /\ with[7] \in T
  <2>1. \A n \in 1 .. 7 : with[n - 1] \in T => with[n] \in T
    BY <1>4, <1>8
  <2>2. /\ with[1 - 1] \in T => with[1] \in T
        /\ with[2 - 1] \in T => with[2] \in T
        /\ with[3 - 1] \in T => with[3] \in T
        /\ with[4 - 1] \in T => with[4] \in T
        /\ with[5 - 1] \in T => with[5] \in T
        /\ with[6 - 1] \in T => with[6] \in T
        /\ with[7 - 1] \in T => with[7] \in T
    BY <2>1
  <2>3. with[0] \in T
    BY <1>3, <1>8
  <2> QED
    BY <2>2, <2>3
<1> DEFINE last == with[7]
<1>10. ASSUME wish = ""
       PROVE  HasWidth(last, 1920) /\ HasWidth(last, 1280)
  <2>1. ASSUME NEW n \in 1 .. 7, NEW width, with[n - 1] \in T, HasWidth(with[n - 1], width)
        PROVE  HasWidth(with[n], width)
    <3>1. PICK i \in DOMAIN with[n - 1] : with[n - 1][i].resolution.width = width
      BY <2>1 DEF HasWidth
    <3>2. Keeps(with[n], with[n - 1])
      <4>1. Keeps(Rtsp!Added(with[n - 1], sizes[n], wish), with[n - 1])
        BY <1>4, <2>1
      <4> QED
        BY <1>8, <4>1
    <3> QED
      BY <3>1, <3>2 DEF HasWidth, Keeps
  <2>2. HasWidth(with[3], 1920)
    <3>1. Rtsp!Fits(sizes[3][1], natives[1].resolution)
      BY <1>1 DEF Rtsp!Fits
    <3>2. with[3] = Rtsp!Added(with[2], sizes[3], wish)
      <4>1. 3 \in 1 .. 7 /\ 3 - 1 = 2
        OBVIOUS
      <4> QED
        BY <1>8, <4>1
    <3>3. 3 \in 1 .. 7 /\ with[2] \in T
      BY <1>9
    <3>4. HasWidth(Rtsp!Added(with[2], sizes[3], wish), sizes[3][1])
      BY <1>4, <1>10, <3>1, <3>3
    <3> QED
      BY <1>1, <3>2, <3>4
  <2>3. HasWidth(with[4], 1280)
    <3>1. Rtsp!Fits(sizes[4][1], natives[1].resolution)
      BY <1>1 DEF Rtsp!Fits
    <3>2. with[4] = Rtsp!Added(with[3], sizes[4], wish)
      <4>1. 4 \in 1 .. 7 /\ 4 - 1 = 3
        OBVIOUS
      <4> QED
        BY <1>8, <4>1
    <3>3. 4 \in 1 .. 7 /\ with[3] \in T
      BY <1>9
    <3>4. HasWidth(Rtsp!Added(with[3], sizes[4], wish), sizes[4][1])
      BY <1>4, <1>10, <3>1, <3>3
    <3> QED
      BY <1>1, <3>2, <3>4
  <2>4. ASSUME NEW width
        PROVE  /\ HasWidth(with[3], width) => HasWidth(with[4], width)
               /\ HasWidth(with[4], width) => HasWidth(with[7], width)
    <3>1. /\ HasWidth(with[4 - 1], width) => HasWidth(with[4], width)
          /\ HasWidth(with[5 - 1], width) => HasWidth(with[5], width)
          /\ HasWidth(with[6 - 1], width) => HasWidth(with[6], width)
          /\ HasWidth(with[7 - 1], width) => HasWidth(with[7], width)
      BY <1>9, <2>1
    <3> QED
      BY <3>1
  <2> QED
    BY <2>2, <2>3, <2>4
<1>11. with[Len(sizes)] = last
  BY <1>1
<1>12. last \in Candidates(natives, cs, wish)
  BY <1>9 DEF T
<1>13. Rtsp!WithCandidates(natives, wish) = Rtsp!Ordered(last, DOMAIN last)
  BY <1>2, <1>11
<1>14. NoWish(wish) => HasWidth(last, 1920) /\ HasWidth(last, 1280)
  BY <1>10 DEF NoWish
<1> HIDE DEF last, At
<1>15. IsResult(last, natives, wish)
  BY <1>13, <1>14 DEF IsResult
<1> QED
  BY <1>12, <1>15

\* What entries made without a wish are like: the widest first, none of them passing over a
\* channel, each channel at its own width among them, and what HomeKit needs.
EntriesRight(es) ==
    /\ \A i, j \in DOMAIN es : i <= j => es[i].resolution.width >= es[j].resolution.width
    /\ \A i \in DOMAIN es : IsClosest(es[i], WidthsOf(es))
    /\ \A w \in WidthsOf(es) :
           \E i \in DOMAIN es : es[i].channel.width = w /\ es[i].resolution.width = w

Required(es) == HasWidth(es, 1920) /\ HasWidth(es, 1280)

LEMMA CandidatesAre ==
    ASSUME NEW natives, NEW cs, AreNatives(natives, cs), NEW wish
    PROVE  LET es == Rtsp!WithCandidates(natives, wish)
           IN  /\ es \in Seq(EntriesOf(cs)) /\ es # <<>>
               /\ NoWish(wish) => EntriesRight(es) /\ Required(es)
<1> DEFINE es == Rtsp!WithCandidates(natives, wish)
<1>1. PICK all \in Candidates(natives, cs, wish) : IsResult(all, natives, wish)
  BY LoopIs
<1> DEFINE n == Cardinality(DOMAIN all)
<1>2. /\ all \in Seq(EntriesOf(cs)) /\ Len(natives) <= Len(all)
      /\ \A i \in DOMAIN natives : all[i] = natives[i]
      /\ NoWish(wish) => \A i \in DOMAIN all : IsClosest(all[i], WidthsOf(natives))
  BY DEF Candidates, NoWish
<1>3. es = Rtsp!Ordered(all, DOMAIN all)
  BY <1>1 DEF IsResult
<1>4. NoWish(wish) => HasWidth(all, 1920) /\ HasWidth(all, 1280)
  BY <1>1 DEF IsResult
<1>5. /\ natives \in Seq(EntriesOf(cs)) /\ natives # <<>> /\ cs \subseteq Rtsp!Channels
      /\ cs = {natives[i].channel : i \in DOMAIN natives}
      /\ \A i \in DOMAIN natives : natives[i].resolution.width = natives[i].channel.width
  BY DEF AreNatives
<1>6. /\ DOMAIN all = 1 .. Len(all) /\ Len(all) \in Nat /\ Len(all) # 0
      /\ DOMAIN natives = 1 .. Len(natives) /\ Len(natives) \in Nat
      /\ \A i \in DOMAIN all : all[i] \in EntriesOf(cs)
  <2>1. DOMAIN natives = 1 .. Len(natives) /\ Len(natives) \in Nat /\ Len(natives) # 0
    BY <1>5, SomethingIsFirst
  <2>2. DOMAIN all = 1 .. Len(all) /\ Len(all) \in Nat /\ \A i \in DOMAIN all : all[i] \in EntriesOf(cs)
    BY <1>2
  <2> QED
    BY <1>2, <2>1, <2>2
<1>7. DOMAIN all \subseteq Nat /\ IsFiniteSet(DOMAIN all) /\ n = Len(all)
  <2>1. IsFiniteSet(1 .. Len(all)) /\ Cardinality(1 .. Len(all)) = Len(all)
    <3>1. 1 \in Int /\ Len(all) \in Int /\ Len(all) - 1 + 1 = Len(all)
      BY <1>6
    <3> QED
      BY <1>6, <3>1, FS_Interval
  <2> QED
    BY <1>6, <2>1
<1> HIDE DEF es, n
<1>8. /\ es \in Seq(EntriesOf(cs)) /\ DOMAIN es = 1 .. n
      /\ \A k \in 1 .. n : \E i \in DOMAIN all : es[k] = all[i]
      /\ \A i \in DOMAIN all : \E k \in 1 .. n : es[k] = all[i]
      /\ \A k, l \in 1 .. n : k <= l => es[k].resolution.width >= es[l].resolution.width
  <2>1. /\ Rtsp!Ordered(all, DOMAIN all) \in Seq(EntriesOf(cs))
        /\ DOMAIN Rtsp!Ordered(all, DOMAIN all) = 1 .. n
    BY <1>6, <1>7, OrderedIs DEF n
  <2>2. Arranges(es, all, DOMAIN all)
    BY <1>3, <1>6, <1>7, OrderedIs
  <2>3. \A k, l \in 1 .. n : k <= l =>
            Rtsp!Ordered(all, DOMAIN all)[k].resolution.width >=
            Rtsp!Ordered(all, DOMAIN all)[l].resolution.width
    BY <1>6, <1>7, OrderedIs DEF n
  <2> QED
    BY <1>3, <2>1, <2>2, <2>3 DEF Arranges
<1>9. es # <<>>
  BY <1>6, <1>7, <1>8
<1>10. WidthsOf(es) \subseteq WidthsOf(natives)
  <2> SUFFICES ASSUME NEW k \in DOMAIN es
               PROVE  es[k].channel.width \in WidthsOf(natives)
    BY DEF WidthsOf
  <2>1. es[k].channel \in cs
    BY <1>5, <1>8, EntryTypes
  <2>2. PICK i \in DOMAIN natives : es[k].channel = natives[i].channel
    BY <1>5, <2>1
  <2> QED
    BY <2>2 DEF WidthsOf
<1>11. ASSUME NEW w \in WidthsOf(natives)
       PROVE  \E k \in DOMAIN es : es[k].channel.width = w /\ es[k].resolution.width = w
  <2>1. PICK i \in DOMAIN natives : w = natives[i].channel.width
    BY DEF WidthsOf
  <2>2. i \in DOMAIN all /\ all[i] = natives[i] /\ natives[i].resolution.width = w
    BY <1>2, <1>5, <1>6, <2>1
  <2>3. PICK k \in 1 .. n : es[k] = all[i]
    BY <1>8, <2>2
  <2> QED
    BY <1>8, <2>1, <2>2, <2>3
<1>12. ASSUME NoWish(wish)
       PROVE  EntriesRight(es)
  <2>1. ASSUME NEW k \in DOMAIN es
        PROVE  IsClosest(es[k], WidthsOf(es))
    <3>1. PICK i \in DOMAIN all : es[k] = all[i]
      BY <1>8
    <3>2. IsClosest(all[i], WidthsOf(natives))
      BY <1>2, <1>12
    <3> QED
      BY <1>10, <3>1, <3>2 DEF IsClosest
  <2> QED
    BY <1>8, <1>10, <1>11, <2>1 DEF EntriesRight
<1>13. ASSUME NEW w, HasWidth(all, w)
       PROVE  HasWidth(es, w)
  <2>1. PICK i \in DOMAIN all : all[i].resolution.width = w
    BY <1>13 DEF HasWidth
  <2>2. PICK k \in 1 .. n : es[k] = all[i]
    BY <1>8
  <2> QED
    BY <1>8, <2>1, <2>2 DEF HasWidth
<1> QED
  BY <1>4, <1>8, <1>9, <1>12, <1>13 DEF es, Required

\* HomeKit Secure Video changes nothing but a frame rate.
LEMMA RatesAre ==
    ASSUME NEW cs, NEW es \in Seq(EntriesOf(cs)), es # <<>>
    PROVE  LET rated == Rtsp!WithRecordingRate(es)
           IN  /\ rated \in Seq(EntriesOf(cs)) /\ rated # <<>>
               /\ EntriesRight(es) => EntriesRight(rated)
               /\ Required(es) => Required(rated)
<1> DEFINE rated == Rtsp!WithRecordingRate(es)
<1>1. /\ DOMAIN es = 1 .. Len(es) /\ Len(es) \in Nat /\ Len(es) # 0
      /\ \A i \in DOMAIN es : /\ es[i].channel \in cs /\ es[i].resolution \in Resolutions
                              /\ es[i] = [channel |-> es[i].channel,
                                          resolution |-> es[i].resolution]
  <2>1. DOMAIN es = 1 .. Len(es) /\ Len(es) \in Nat /\ Len(es) # 0
    BY SomethingIsFirst
  <2>2. \A i \in DOMAIN es : es[i] \in EntriesOf(cs)
    OBVIOUS
  <2> QED
    BY <2>1, <2>2 DEF EntriesOf
<1>2. ASSUME NEW e \in EntriesOf(cs), NEW r \in Nat
      PROVE  LET new == [e EXCEPT !.resolution.fps = r]
             IN  /\ new \in EntriesOf(cs) /\ new.channel = e.channel
                 /\ new.resolution.width = e.resolution.width
  BY DEF EntriesOf, Resolutions
<1>3. \A i \in DOMAIN es : es[i] \in EntriesOf(cs)
  BY <1>1
<1>4. /\ DOMAIN rated = DOMAIN es
      /\ \A i \in DOMAIN es :
             \/ rated[i] = es[i]
             \/ rated[i] = [es[i] EXCEPT !.resolution.fps =
                                Rtsp!ClosestRate(es[i].resolution.fps)]
  BY DEF Rtsp!WithRecordingRate
<1>5. \A f : Rtsp!ClosestRate(f) \in Nat
  BY DEF Rtsp!ClosestRate
<1>9. rated = [i \in DOMAIN es |-> rated[i]]
  BY DEF Rtsp!WithRecordingRate
<1> HIDE DEF rated
<1>6. ASSUME NEW i \in DOMAIN es
      PROVE  /\ rated[i] \in EntriesOf(cs) /\ rated[i].channel = es[i].channel
             /\ rated[i].resolution.width = es[i].resolution.width
  <2>1. CASE rated[i] = es[i]
    BY <1>3, <2>1
  <2>2. CASE rated[i] = [es[i] EXCEPT !.resolution.fps =
                             Rtsp!ClosestRate(es[i].resolution.fps)]
    BY <1>2, <1>3, <1>5, <2>2
  <2> QED
    BY <1>4, <2>1, <2>2
<1>7. rated \in Seq(EntriesOf(cs)) /\ rated # <<>>
  <2>1. rated \in [1 .. Len(es) -> EntriesOf(cs)]
    BY <1>1, <1>6, <1>9
  <2> QED
    BY <1>1, <2>1
<1>8. WidthsOf(rated) = WidthsOf(es)
  BY <1>4, <1>6 DEF WidthsOf
<1>10. EntriesRight(es) => EntriesRight(rated)
  BY <1>4, <1>6, <1>8 DEF EntriesRight, IsClosest
<1>11. Required(es) => Required(rated)
  BY <1>4, <1>6 DEF Required, HasWidth
<1> QED
  BY <1>7, <1>10, <1>11 DEF rated

ChannelsOf(es) == {es[i].channel : i \in DOMAIN es}

ChannelsIn(chs) == {chs[i] : i \in DOMAIN chs}

LEMMA Retyped ==
    ASSUME NEW S, NEW T, NEW s \in Seq(S), \A i \in DOMAIN s : s[i] \in T
    PROVE  s \in Seq(T)
<1>1. s = [i \in 1 .. Len(s) |-> s[i]] /\ Len(s) \in Nat /\ DOMAIN s = 1 .. Len(s)
  OBVIOUS
<1>2. s \in [1 .. Len(s) -> T]
  BY <1>1
<1> QED
  BY <1>1, <1>2

LEMMA NativesAre ==
    ASSUME NEW chs \in Seq(Rtsp!Channels), Rtsp!NativeEntries(chs) # <<>>
    PROVE  LET natives == Rtsp!NativeEntries(chs)
           IN  /\ AreNatives(natives, ChannelsOf(natives))
               /\ ChannelsOf(natives) \subseteq ChannelsIn(chs)
<1> DEFINE natives == Rtsp!NativeEntries(chs)
           usable == {i \in DOMAIN chs :
                          IF override THEN Rtsp!IsLargest(chs, i)
                          ELSE chs[i].isRtspEnabled /\ chs[i].name # "PACKAGE CAMERA"}
           I == {i \in usable : Rtsp!IsSane(chs[i])}
           f == [i \in DOMAIN chs |-> Rtsp!Native(chs[i])]
           n == Cardinality(I)
<1>1. natives = Rtsp!Ordered(f, I)
  BY DEF Rtsp!NativeEntries
<1>2. I \subseteq DOMAIN chs
  OBVIOUS
<1> HIDE DEF I
<1>3. /\ DOMAIN chs = 1 .. Len(chs) /\ Len(chs) \in Nat
      /\ \A i \in DOMAIN chs : chs[i] \in Rtsp!Channels
  OBVIOUS
<1>4. ASSUME NEW i \in DOMAIN chs
      PROVE  /\ f[i] \in EntriesOf(Rtsp!Channels) /\ f[i].channel = chs[i]
             /\ f[i].resolution.width = f[i].channel.width
  <2>1. chs[i].width \in Nat /\ chs[i].height \in Nat /\ chs[i].fps \in Nat
    BY <1>3 DEF Rtsp!Channels
  <2>2. f[i] = [channel |-> chs[i],
                resolution |-> [width |-> chs[i].width, height |-> chs[i].height,
                                fps |-> chs[i].fps]]
    BY DEF Rtsp!Native, Rtsp!Entry, Rtsp!Resolution
  <2> QED
    BY <1>3, <2>1, <2>2 DEF EntriesOf, Resolutions
<1> HIDE DEF f
<1>5. I \subseteq Nat /\ IsFiniteSet(I) /\ \A i \in I : f[i] \in EntriesOf(Rtsp!Channels)
  <2>1. IsFiniteSet(1 .. Len(chs))
    BY <1>3, FS_Interval
  <2>2. IsFiniteSet(I)
    BY <1>2, <1>3, <2>1, FS_Subset
  <2> QED
    BY <1>2, <1>3, <1>4, <2>2
<1> HIDE DEF natives
<1>6. /\ natives \in Seq(EntriesOf(Rtsp!Channels)) /\ DOMAIN natives = 1 .. n
      /\ Arranges(natives, f, I)
      /\ \A k, l \in 1 .. n :
             k <= l => natives[k].resolution.width >= natives[l].resolution.width
  <2>1. /\ Rtsp!Ordered(f, I) \in Seq(EntriesOf(Rtsp!Channels))
        /\ DOMAIN Rtsp!Ordered(f, I) = 1 .. n
        /\ Arranges(Rtsp!Ordered(f, I), f, I)
    BY <1>5, OrderedIs
  <2>2. \A k, l \in 1 .. n : k <= l => Rtsp!Ordered(f, I)[k].resolution.width >=
                                       Rtsp!Ordered(f, I)[l].resolution.width
    BY <1>5, OrderedIs
  <2> QED
    BY <1>1, <2>1, <2>2
<1>7. ASSUME NEW k \in DOMAIN natives
      PROVE  /\ natives[k].channel \in ChannelsIn(chs)
             /\ natives[k].resolution.width = natives[k].channel.width
  <2>1. PICK i \in I : natives[k] = f[i]
    BY <1>6 DEF Arranges
  <2> QED
    BY <1>2, <1>4, <2>1 DEF ChannelsIn
<1>8. natives \in Seq(EntriesOf(ChannelsOf(natives)))
  <2>1. \A k \in DOMAIN natives : natives[k] \in EntriesOf(ChannelsOf(natives))
    <3>1. \A k \in DOMAIN natives : natives[k] \in EntriesOf(Rtsp!Channels)
      BY <1>5, <1>6 DEF Arranges
    <3>2. \A k \in DOMAIN natives : natives[k].channel \in ChannelsOf(natives)
      BY DEF ChannelsOf
    <3>3. \A e \in EntriesOf(Rtsp!Channels) :
              e.channel \in ChannelsOf(natives) => e \in EntriesOf(ChannelsOf(natives))
      BY DEF EntriesOf
    <3> QED
      BY <3>1, <3>2, <3>3
  <2> QED
    BY <1>6, <2>1, Retyped
<1>9. ChannelsIn(chs) \subseteq Rtsp!Channels /\ ChannelsOf(natives) \subseteq ChannelsIn(chs)
  BY <1>3, <1>7 DEF ChannelsIn, ChannelsOf
<1> QED
  BY <1>6, <1>7, <1>8, <1>9 DEF AreNatives, ChannelsOf, natives

LEMMA PublishedAre ==
    ASSUME NEW chs \in Seq(Rtsp!Channels), Rtsp!NativeEntries(chs) # <<>>, NEW wish
    PROVE  LET es == Rtsp!WithRecordingRate(
                         Rtsp!WithCandidates(Rtsp!NativeEntries(chs), wish))
           IN  /\ es \in Seq(EntriesOf(ChannelsIn(chs))) /\ es # <<>>
               /\ es \in Seq(EntriesOf(Rtsp!Channels)) /\ ChannelsOf(es) \subseteq ChannelsIn(chs)
               /\ NoWish(wish) => EntriesRight(es) /\ Required(es)
<1> DEFINE natives == Rtsp!NativeEntries(chs)
           cs == ChannelsOf(natives)
           with == Rtsp!WithCandidates(natives, wish)
           es == Rtsp!WithRecordingRate(with)
<1>1. AreNatives(natives, cs) /\ cs \subseteq ChannelsIn(chs)
  BY NativesAre
<1> HIDE DEF natives, cs, with, es
<1>2. /\ with \in Seq(EntriesOf(cs)) /\ with # <<>>
      /\ NoWish(wish) => EntriesRight(with) /\ Required(with)
  BY <1>1, CandidatesAre DEF with
<1>3. /\ es \in Seq(EntriesOf(cs)) /\ es # <<>>
      /\ NoWish(wish) => EntriesRight(es) /\ Required(es)
  BY <1>2, RatesAre DEF es
<1>4. ChannelsIn(chs) \subseteq Rtsp!Channels
  BY DEF ChannelsIn
<1>5. EntriesOf(cs) \subseteq EntriesOf(ChannelsIn(chs))
      /\ EntriesOf(cs) \subseteq EntriesOf(Rtsp!Channels)
  BY <1>1, <1>4 DEF EntriesOf
<1>6. \A S, T : S \subseteq T => Seq(S) \subseteq Seq(T)
  OBVIOUS
<1>7. /\ es \in Seq(EntriesOf(ChannelsIn(chs))) /\ es \in Seq(EntriesOf(Rtsp!Channels))
  BY <1>3, <1>5, <1>6
<1>8. ChannelsOf(es) \subseteq ChannelsIn(chs)
  BY <1>4, <1>7, EntryTypes DEF ChannelsOf
<1> QED
  BY <1>3, <1>7, <1>8 DEF natives, with, es

\* The entries are those of one configuration, made with the wish there is now, or with none.
EntriesInv ==
    /\ channels \in Seq(Rtsp!Channels) /\ patching \in Seq(Seq(Rtsp!Channels))
    /\ rtspEntries \in Seq(EntriesOf(Rtsp!Channels)) /\ offered \in Seq(Resolutions)
    /\ offered = <<>> => NoWish(streamingDefault)
    /\ Rtsp!RequiredIsOffered
    /\ Rtsp!EntriesAreCurrent
    /\ NoWish(streamingDefault) => rtspEntries = <<>> \/ EntriesRight(rtspEntries)

\* Among right entries none is found that passes over a channel between.
LEMMA FoundIsNext ==
    ASSUME NEW es \in Seq(EntriesOf(Rtsp!Channels)), es # <<>>, EntriesRight(es),
           NEW width \in Nat, NEW height \in Nat,
           \E w \in WidthsOf(es) : w < width
    PROVE  LET e == es[Rtsp!Found(es, width, height, "")]
           IN  \/ e.channel.width = width /\ e.channel.height = height
               \/ /\ e.channel.width < width
                  /\ \A w \in WidthsOf(es) :
                         e.channel.width < w /\ w < width => w = e.resolution.width
<1> DEFINE k == Rtsp!Found(es, width, height, "")
<1>1. /\ k \in DOMAIN es
      /\ \/ es[k].channel.width = width /\ es[k].channel.height = height
         \/ /\ es[k].channel.width < width
            /\ \A j \in DOMAIN es : es[j].channel.width < width => k <= j
         \/ \A j \in DOMAIN es : es[j].channel.width >= width
  BY FoundIs
<1> HIDE DEF k
<1>2. /\ DOMAIN es = 1 .. Len(es)
      /\ \A i \in DOMAIN es : es[i].channel.width \in Nat /\ es[i].resolution.width \in Nat
  BY EntryTypes
<1>3. ~\A j \in DOMAIN es : es[j].channel.width >= width
  <2>1. PICK j \in DOMAIN es : es[j].channel.width < width
    BY DEF WidthsOf
  <2> QED
    BY <1>2, <2>1
<1>4. ASSUME \A j \in DOMAIN es : es[j].channel.width < width => k <= j,
             NEW w \in WidthsOf(es), es[k].channel.width < w, w < width
      PROVE  w = es[k].resolution.width
  <2>1. PICK j \in DOMAIN es : es[j].channel.width = w /\ es[j].resolution.width = w
    BY DEF EntriesRight
  <2>2. k <= j
    BY <1>4, <2>1
  <2>3. es[k].resolution.width >= w
    BY <1>1, <2>1, <2>2 DEF EntriesRight
  <2>4. ~(w < es[k].resolution.width)
    BY <1>1, <1>4 DEF EntriesRight, IsClosest
  <2>5. w \in Nat /\ es[k].resolution.width \in Nat
    BY <1>1, <1>2, <2>1
  <2> QED
    BY <2>3, <2>4, <2>5
<1> QED
  BY <1>1, <1>3, <1>4 DEF k

LEMMA OffersAreRight ==
    ASSUME EntriesInv
    PROVE  Rtsp!OffersAreServed
<1>3. ASSUME rtspEntries # <<>>, streamingDefault = "", NEW i \in DOMAIN offered,
             \E w \in Rtsp!Widths : w < offered[i].width
      PROVE  Rtsp!ServesNext(
                 rtspEntries[Rtsp!Found(rtspEntries, offered[i].width, offered[i].height, "")],
                 offered[i].width, offered[i].height)
  <2>1. rtspEntries \in Seq(EntriesOf(Rtsp!Channels)) /\ EntriesRight(rtspEntries)
    BY <1>3 DEF EntriesInv, NoWish
  <2>2. offered[i].width \in Nat /\ offered[i].height \in Nat
    <3>1. offered[i] \in Resolutions
      BY DEF EntriesInv
    <3> QED
      BY <3>1 DEF Resolutions
  <2>3. Rtsp!Widths = WidthsOf(rtspEntries)
    BY DEF Rtsp!Widths, WidthsOf
  <2> QED
    BY <1>3, <2>1, <2>2, <2>3, FoundIsNext DEF Rtsp!ServesNext
<1>4. ASSUME rtspEntries # <<>>, streamingDefault = ""
      PROVE  \A i \in DOMAIN offered :
                 (\E w \in Rtsp!Widths : w < offered[i].width) =>
                     Rtsp!ServesNext(
                         rtspEntries[Rtsp!Found(rtspEntries, offered[i].width,
                                                offered[i].height, "")],
                         offered[i].width, offered[i].height)
  BY <1>3, <1>4
<1>5. Rtsp!SizesAreServed
  BY <1>4 DEF Rtsp!SizesAreServed
<1> QED
  BY <1>5 DEF EntriesInv, Rtsp!OffersAreServed

LEMMA EntriesInitInv ==
    ASSUME Rtsp!Init
    PROVE  EntriesInv
<1>1. channels \in Seq(Rtsp!Channels)
  BY RtspAssumption DEF Rtsp!Init
<1>2. /\ patching = <<>> /\ rtspEntries = <<>> /\ offered = <<>> /\ NoWish(streamingDefault)
  BY DEF Rtsp!Init, NoWish
<1>3. \A S : <<>> \in Seq(S)
  OBVIOUS
<1> QED
  BY <1>1, <1>2, <1>3 DEF EntriesInv, Rtsp!RequiredIsOffered, Rtsp!EntriesAreCurrent

\* Whichever channels are configured, the entries are theirs.
LEMMA PublishesInv ==
    ASSUME EntriesInv, NEW chs \in Seq(Rtsp!Channels), Rtsp!Publishes(chs),
           patching' \in Seq(Seq(Rtsp!Channels)), UNCHANGED <<override, profile, mayModify>>
    PROVE  EntriesInv'
<1> DEFINE natives == Rtsp!NativeEntries(chs)
           entries == Rtsp!WithRecordingRate(Rtsp!WithCandidates(natives, streamingDefault))
<1>1. channels' = chs /\ Rtsp!NativeEntries(channels)' = natives
  BY DEF Rtsp!Publishes, Rtsp!NativeEntries, Rtsp!IsLargest
<1>2. CASE natives = <<>>
  <2>1. UNCHANGED <<rtspEntries, offered, streamingDefault>>
    BY <1>2 DEF Rtsp!Publishes
  <2>2. Rtsp!RequiredIsOffered' /\ Rtsp!EntriesAreCurrent'
    BY <1>1, <1>2, <2>1 DEF EntriesInv, Rtsp!RequiredIsOffered, Rtsp!EntriesAreCurrent
  <2> HIDE DEF natives
  <2> QED
    BY <1>1, <2>1, <2>2 DEF EntriesInv
<1>3. CASE natives # <<>>
  <2>1. /\ rtspEntries' = entries
        /\ \/ /\ offered = <<>> /\ offered' = [i \in DOMAIN entries |-> entries[i].resolution]
           \/ offered # <<>> /\ UNCHANGED <<offered, streamingDefault>>
    BY <1>3 DEF Rtsp!Publishes
  <2>2. /\ entries \in Seq(EntriesOf(Rtsp!Channels)) /\ entries # <<>>
        /\ ChannelsOf(entries) \subseteq ChannelsIn(chs)
        /\ NoWish(streamingDefault) => EntriesRight(entries) /\ Required(entries)
    BY <1>3, PublishedAre
  <2> HIDE DEF entries, natives
  <2>3. Rtsp!EntriesAreCurrent'
    BY <1>1, <2>1, <2>2 DEF Rtsp!EntriesAreCurrent, ChannelsOf, ChannelsIn
  <2>4. CASE offered # <<>> /\ UNCHANGED <<offered, streamingDefault>>
    <3>1. Rtsp!RequiredIsOffered'
      BY <2>4 DEF EntriesInv, Rtsp!RequiredIsOffered
    <3> QED
      BY <1>1, <2>1, <2>2, <2>3, <2>4, <3>1 DEF EntriesInv
  <2>5. CASE offered = <<>> /\ offered' = [i \in DOMAIN entries |-> entries[i].resolution]
    <3>1. EntriesRight(entries) /\ Required(entries)
      BY <2>2, <2>5 DEF EntriesInv
    <3>2. /\ DOMAIN entries = 1 .. Len(entries) /\ Len(entries) \in Nat /\ Len(entries) # 0
          /\ \A i \in DOMAIN entries : entries[i] \in EntriesOf(Rtsp!Channels)
      BY <2>2
    <3>3. \A i \in DOMAIN entries : entries[i].resolution \in Resolutions
      BY <3>2 DEF EntriesOf
    <3>4. /\ offered' \in Seq(Resolutions) /\ offered' # <<>>
          /\ DOMAIN offered' = DOMAIN entries
          /\ \A i \in DOMAIN entries : offered'[i] = entries[i].resolution
      <4>1. offered' \in [1 .. Len(entries) -> Resolutions]
        BY <2>5, <3>2, <3>3
      <4>2. DOMAIN offered' = 1 .. Len(entries) /\ 1 \in 1 .. Len(entries)
        BY <3>2, <4>1
      <4>3. offered' \in Seq(Resolutions)
        BY <3>2, <4>1
      <4> QED
        BY <2>5, <3>2, <4>2, <4>3
    <3>5. Rtsp!RequiredIsOffered'
      BY <3>1, <3>4 DEF Rtsp!RequiredIsOffered, Required, HasWidth
    <3> QED
      BY <1>1, <2>1, <2>2, <2>3, <3>1, <3>4, <3>5 DEF EntriesInv
  <2> QED
    BY <2>1, <2>4, <2>5
<1> QED
  BY <1>2, <1>3

LEMMA ConfigureInv ==
    ASSUME EntriesInv, NEW chs \in Seq(Rtsp!Channels), Rtsp!Configure(chs),
           UNCHANGED <<override, profile, mayModify>>
    PROVE  EntriesInv'
<1>1. CASE Rtsp!Publishes(chs) /\ UNCHANGED patching
  BY <1>1, PublishesInv DEF EntriesInv
<1>2. CASE /\ patching' = Append(patching, Rtsp!Enabled(chs)) /\ channels' = chs
           /\ UNCHANGED <<rtspEntries, offered, streamingDefault>>
  <2>1. Rtsp!Enabled(chs) \in Seq(Rtsp!Channels)
    <3>1. /\ DOMAIN chs = 1 .. Len(chs) /\ Len(chs) \in Nat
          /\ \A i \in DOMAIN chs : chs[i] \in Rtsp!Channels
      OBVIOUS
    <3>2. \A c \in Rtsp!Channels : [c EXCEPT !.isRtspEnabled = TRUE] \in Rtsp!Channels
      BY DEF Rtsp!Channels
    <3>3. Rtsp!Enabled(chs) \in [1 .. Len(chs) -> Rtsp!Channels]
      BY <3>1, <3>2 DEF Rtsp!Enabled
    <3> QED
      BY <3>1, <3>3
  <2>2. patching' \in Seq(Seq(Rtsp!Channels)) /\ patching' # <<>>
    <3>1. patching \in Seq(Seq(Rtsp!Channels))
      BY DEF EntriesInv
    <3> QED
      BY <1>2, <2>1, <3>1, AppendProperties
  <2> QED
    BY <1>2, <2>2 DEF EntriesInv, Rtsp!RequiredIsOffered, Rtsp!EntriesAreCurrent
<1> QED
  BY <1>1, <1>2 DEF Rtsp!Configure

LEMMA EntriesStepInv ==
    ASSUME EntriesInv, [Rtsp!Next]_(Rtsp!vars)
    PROVE  EntriesInv'
<1>1. CASE UNCHANGED Rtsp!vars
  <2>1. Rtsp!NativeEntries(channels)' = Rtsp!NativeEntries(channels)
    BY <1>1 DEF Rtsp!vars, Rtsp!optionVars, Rtsp!NativeEntries
  <2>2. UNCHANGED <<channels, patching, rtspEntries, offered, streamingDefault, replaced>>
    BY <1>1 DEF Rtsp!vars
  <2>3. Rtsp!RequiredIsOffered'
    BY <2>2 DEF EntriesInv, Rtsp!RequiredIsOffered
  <2>4. Rtsp!EntriesAreCurrent'
    <3>1. ASSUME (patching = <<>>)', ~replaced', Rtsp!NativeEntries(channels)' # <<>>,
                 (rtspEntries # <<>>)'
          PROVE  ChannelsOf(rtspEntries)' \subseteq ChannelsIn(channels)'
      <4>1. /\ patching = <<>> /\ ~replaced
            /\ Rtsp!NativeEntries(channels) # <<>> /\ rtspEntries # <<>>
        BY <2>1, <2>2, <3>1
      <4> QED
        BY <2>2, <4>1 DEF EntriesInv, Rtsp!EntriesAreCurrent, ChannelsOf, ChannelsIn
    <3> QED
      BY <3>1 DEF Rtsp!EntriesAreCurrent, ChannelsOf, ChannelsIn
  <2> QED
    BY <2>2, <2>3, <2>4 DEF EntriesInv
<1>2. CASE Rtsp!ConfigureDevice
  BY <1>2, ConfigureInv DEF Rtsp!ConfigureDevice, Rtsp!optionVars, EntriesInv
<1>3. CASE Rtsp!ChannelsChange
  <2>1. PICK chs \in ChannelLists : Rtsp!Configure(chs)
    BY <1>3 DEF Rtsp!ChannelsChange
  <2> QED
    BY <1>3, <2>1, RtspAssumption, ConfigureInv DEF Rtsp!ChannelsChange, Rtsp!optionVars
<1>5. CASE Rtsp!ChannelsReplaced
  <2>1. /\ channels' \in Seq(Rtsp!Channels) /\ replaced' = TRUE
        /\ UNCHANGED <<patching, rtspEntries, offered, streamingDefault>>
    BY <1>5, RtspAssumption DEF Rtsp!ChannelsReplaced
  <2>2. Rtsp!RequiredIsOffered' /\ Rtsp!EntriesAreCurrent'
    BY <2>1 DEF EntriesInv, Rtsp!RequiredIsOffered, Rtsp!EntriesAreCurrent
  <2> QED
    BY <2>1, <2>2 DEF EntriesInv
<1>4. CASE Rtsp!EnableRtspAnswers
  <2>1. PICK i \in DOMAIN patching :
            /\ patching' = Rtsp!RemoveAt(patching, i)
            /\ \E answer \in {channels, patching[i]} : Rtsp!Publishes(answer)
            /\ UNCHANGED Rtsp!optionVars
    BY <1>4 DEF Rtsp!EnableRtspAnswers
  <2>2. PICK answer \in {channels, patching[i]} : Rtsp!Publishes(answer)
    BY <2>1
  <2>3. patching \in Seq(Seq(Rtsp!Channels)) /\ answer \in Seq(Rtsp!Channels)
    BY DEF EntriesInv
  <2>4. patching' \in Seq(Seq(Rtsp!Channels))
    <3>1. /\ i \in 1 .. Len(patching) /\ Len(patching) \in Nat
          /\ \A j \in 1 .. Len(patching) : patching[j] \in Seq(Rtsp!Channels)
      BY <2>3
    <3>2. SubSeq(patching, 1, i - 1) \in Seq(Seq(Rtsp!Channels))
      BY <3>1, SubSeqProperties
    <3>3. SubSeq(patching, i + 1, Len(patching)) \in Seq(Seq(Rtsp!Channels))
      BY <3>1, SubSeqProperties
    <3> QED
      BY <2>1, <3>2, <3>3, ConcatProperties DEF Rtsp!RemoveAt
  <2> QED
    BY <2>1, <2>2, <2>3, <2>4, PublishesInv DEF Rtsp!optionVars
<1> QED
  BY <1>1, <1>2, <1>3, <1>4, <1>5 DEF Rtsp!Next

\* Whatever the channels turned into since, and whichever of several configurations ended
\* last, what was offered is served as Rtsp!OffersAreServed says (configure, findRtspEntry).
THEOREM OffersStayServed == Rtsp!Spec => []OffersAreServed
<1>1. EntriesInv => OffersAreServed
  BY OffersAreRight DEF OffersAreServed
<1>2. Rtsp!Init => EntriesInv
  BY EntriesInitInv
<1>3. EntriesInv /\ [Rtsp!Next]_(Rtsp!vars) => EntriesInv'
  BY EntriesStepInv
<1> QED
  BY <1>1, <1>2, <1>3, PTL DEF Rtsp!Spec

-----------------------------------------------------------------------------
(* The parts together.                                                     *)

\* Each part is a behaviour of its own specification, whichever part a behaviour is about.
LEMMA PartsAreBehaviours ==
    PartsSpec => /\ Spec /\ Sync!Spec /\ Timers!Spec /\ Scenes!Spec /\ Controls!Spec
                 /\ Boxes!Spec /\ Ui!Spec /\ Options!Spec /\ Rtsp!Spec
                 /\ Mqtt!Init /\ [][Mqtt!Next]_(Mqtt!vars)
<1> USE DEF ApiSteps, SyncSteps, TimersSteps, ScenesSteps, MqttSteps, ControlsSteps, RtspSteps,
            OptionsSteps, BoxesSteps, ServerSteps, PlaylistSteps
<1>1. PartsInit => Init /\ Sync!Init /\ Timers!Init /\ Scenes!Init /\ Controls!Init
                /\ Boxes!Init /\ Ui!Init /\ Mqtt!Init /\ Options!Init /\ Rtsp!Init
  BY DEF PartsInit
<1>2. [PartsNext]_partsVars => [Next]_vars
  BY DEF PartsNext, partsVars, controllerVars, vars, breakerVars, sessionVars, apiVars
<1>3. [PartsNext]_partsVars => [Sync!Next]_(Sync!vars)
  BY DEF PartsNext, partsVars, syncVars, Sync!vars, Sync!optionVars
<1>4. [PartsNext]_partsVars => [Timers!Next]_(Timers!vars)
  BY DEF PartsNext, partsVars, timersVars, Timers!vars, Timers!optionVars, Timers!deviceVars,
         Timers!lifeVars
<1>5. [PartsNext]_partsVars => [Scenes!Next]_(Scenes!vars)
  BY DEF PartsNext, partsVars, scenesVars, Scenes!vars
<1>6. [PartsNext]_partsVars => [Controls!Next]_(Controls!vars)
  BY DEF PartsNext, partsVars, controlsVars, Controls!vars
<1>7. [PartsNext]_partsVars => [Mqtt!Next]_(Mqtt!vars)
  BY DEF PartsNext, partsVars, mqttVars, Mqtt!vars, Mqtt!socketVars, Mqtt!timerVars,
         Mqtt!topicVars
<1>8. [PartsNext]_partsVars => [Boxes!Next]_(Boxes!vars)
  BY DEF PartsNext, partsVars, boxesVars, Boxes!vars, Boxes!readerVars
<1>9. [PartsNext]_partsVars => [Ui!Next]_(Ui!vars)
  BY DEF PartsNext, partsVars, serverVars, Ui!vars, Ui!discoveryVars
<1>10. [PartsNext]_partsVars => [Options!Next]_(Options!vars)
  BY DEF PartsNext, partsVars, optionsVars, Options!vars
<1>11. [PartsNext]_partsVars => [Rtsp!Next]_(Rtsp!vars)
  BY DEF PartsNext, partsVars, rtspVars, Rtsp!vars, Rtsp!optionVars
<1> QED
  BY <1>1, <1>2, <1>3, <1>4, <1>5, <1>6, <1>7, <1>8, <1>9, <1>10, <1>11, PTL
  DEF PartsSpec, Spec, Sync!Spec, Timers!Spec, Scenes!Spec, Controls!Spec, Boxes!Spec, Ui!Spec,
      Options!Spec, Rtsp!Spec

\* Whatever the controller, HomeKit's clients and the broker do, what they have of each
\* other stays in agreement, with the exceptions each property names, and calls have a
\* bootstrap that is usable.
THEOREM HomeStaysAgreed ==
    PartsSpec => [](/\ BootstrapIsUsable /\ HomeAgrees /\ DetectionsEnd
                    /\ AlarmAgrees /\ SubscriptionsHold /\ ControlsAgree
                    /\ BoxesAreWhole /\ OwnErrors /\ OptionsAgree
                    /\ OffersAreServed)
<1>1. Mqtt!Init /\ [][Mqtt!Next]_(Mqtt!vars) => []SubscriptionsHold
  BY SubscriptionsStay
<1> QED
  BY <1>1, PartsAreBehaviours, BootstrapStaysUsable, HomeStaysInAgreement, DetectionsAlwaysEnd,
     AlarmStaysInAgreement, ControlsStayInAgreement, BoxesStayWhole, ErrorsStayOwn,
     OptionsStayInAgreement, OffersStayServed, PTL

\* However listings, events and restarts alternate, a synchronisation leaves what the
\* controller lists and the options ask for (cleanupDevices), every bootstrap leaves the
\* scenes as they were set, but for switches it configures for the first time
\* (configureSwitches), and a call is begun only while the controller is not left alone
\* (retrieve).
THEOREM HomeSettles == PartsSpec => SyncsSettle /\ BootstrapsKeepScenes /\ NewCallsAreHeld
<1>1. SyncInv => (part = "sync" => Sync!SyncSettles)
  BY SoundSettles
<1>2. PartsSpec => SyncsSettle
  BY <1>1, PartsAreBehaviours, SyncStaysSound, PTL DEF SyncsSettle
<1> QED
  BY <1>2, PartsAreBehaviours, BootstrapsLeaveScenes, CallsAreHeld, PTL

=============================================================================
