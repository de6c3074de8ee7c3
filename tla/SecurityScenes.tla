--------------------------- MODULE SecurityScenes ---------------------------
(***************************************************************************)
(* Scenes made of the controller's liveviews (protect-liveviews.ts,         *)
(* protect-securitysystem.ts): a liveview becomes a switch that turns the   *)
(* motion detection of its cameras on and off, and four of them the states  *)
(* of a security system with an alarm.  HomeKit, MQTT and each bootstrap    *)
(* change them, and the cameras' own switches the same motion detection.    *)
(***************************************************************************)
EXTENDS Naturals, TLC, FiniteSets, Sequences, SequencesExt

CONSTANTS
    Cameras,
    SwitchViews,    \* names of liveviews that become switches
    SecurityStates, \* states of the security system with a liveview, "off" perhaps
    Slots           \* the sets of cameras a liveview shows

VARIABLES
    hasBootstrap,   \* the controller's bootstrap is there
    liveviews,      \* what each liveview there is shows
    detectMotion,   \* context: each camera's motion detection
    switches,       \* the liveviews' accessories there are
    isConfigured,   \* the switches that were configured
    security        \* the security system

vars == <<hasBootstrap, liveviews, detectMotion, switches, isConfigured, security>>

Views == SwitchViews \cup SecurityStates
States == SecurityStates \cup {"home", "off"}
Partial(S, T) == UNION {[D -> T] : D \in SUBSET S}

\* liveviewState is remembered with an accessory, on is what HomeKit shows.
Switch == [liveviewState : BOOLEAN, on : BOOLEAN]

\* isThere: securitySystem; accessory: it is known to Homebridge.
Security == [accessory : BOOLEAN, isThere : BOOLEAN, securityState : States, current : States \cup {"alarm"},
             isAlarmTriggered : BOOLEAN, alarmSwitch : BOOLEAN]

TypeOK ==
    /\ hasBootstrap \in BOOLEAN
    /\ liveviews \in Partial(Views, Slots)
    /\ detectMotion \in [Cameras -> BOOLEAN]
    /\ switches \in Partial(SwitchViews, Switch)
    /\ isConfigured \subseteq SwitchViews
    /\ security \in Security

NewSecurity == [accessory |-> FALSE, isThere |-> FALSE, securityState |-> "home", current |-> "home",
                isAlarmTriggered |-> FALSE, alarmSwitch |-> FALSE]

Init ==
    /\ hasBootstrap = FALSE
    /\ liveviews = <<>>
    /\ detectMotion = [c \in Cameras |-> TRUE]
    /\ switches = <<>>
    /\ isConfigured = {}
    /\ security = NewSecurity

-----------------------------------------------------------------------------
(* A liveview's switch; a scene is the motion detection and the switches.  *)

\* getLiveviewCameras.
CamerasOf(v, views) == IF v \in DOMAIN views THEN views[v] ELSE {}

\* getSwitchState: on when the detection of all of its cameras is.
SwitchState(v, views, motion) ==
    CamerasOf(v, views) # {} /\ \A c \in CamerasOf(v, views) : motion[c]

\* setSwitchState: what a liveview is already, it is not made, and not remembered to be.
SceneSet(scene, v, value, views) ==
    LET cameras == CamerasOf(v, views) IN
    IF SwitchState(v, views, scene.motion) = value \/ cameras = {}
    THEN scene
    ELSE [motion |-> [c \in Cameras |-> IF c \in cameras THEN value ELSE scene.motion[c]],
          switches |-> [scene.switches EXCEPT ![v].liveviewState = value]]

\* configureSwitches, for one liveview: a switch is as it was left, and a new one on.
SceneConfigured(scene, v, views) ==
    LET state == v \in DOMAIN scene.switches => scene.switches[v].liveviewState
        acquired == (v :> [liveviewState |-> state, on |-> state]) @@ scene.switches
    IN  SceneSet([scene EXCEPT !.switches = acquired], v, state, views)

\* configureSwitches, for the liveviews in order.
ScenesConfigured(kept, order, views) ==
    LET scene[n \in 0 .. Len(order)] ==
            IF n = 0 THEN [motion |-> detectMotion, switches |-> kept]
            ELSE SceneConfigured(scene[n - 1], order[n], views)
    IN  scene[Len(order)]

-----------------------------------------------------------------------------
(* Bootstraps.                                                             *)

\* A security system, in the state it was left in, without an alarm.
SecurityMade ==
    [NewSecurity EXCEPT !.accessory = TRUE, !.isThere = TRUE,
        !.securityState = security.securityState, !.current = security.securityState]

\* configureSecuritySystem: there is one while there is a liveview for it.  A system that
\* was never configured is not removed.
SecurityConfigured(views) ==
    LET isWanted == DOMAIN views \cap SecurityStates # {}
    IN  IF security.isThere = isWanted THEN security
        ELSE IF isWanted THEN SecurityMade ELSE NewSecurity

\* Deviation: every switch is configured again.
ToConfigureAgain(views, configured) == DOMAIN views \cap SwitchViews

\* What is there and was not configured before.
ToConfigure(views, configured) == (DOMAIN views \cap SwitchViews) \ configured

\* configureLiveviews.  The switches of what is gone are removed from the list they are
\* looked up in meanwhile, so that one may be passed over.
Bootstrap(views) ==
    LET gone == DOMAIN switches \ DOMAIN views IN
    \E passed \in SUBSET gone :
        /\ gone # {} => passed # gone
        /\ LET kept == Restrict(switches, DOMAIN switches \ (gone \ passed))
               configured == isConfigured \ (gone \ passed)
               toConfigure == ToConfigure(views, configured)
           IN  \E order \in SetToSeqs(toConfigure) :
                   LET scene == ScenesConfigured(kept, order, views)
                   IN  /\ detectMotion' = scene.motion
                       /\ switches' = scene.switches
                       /\ isConfigured' = configured \cup toConfigure
        /\ hasBootstrap' = TRUE
        /\ liveviews' = views
        /\ security' = SecurityConfigured(views)

\* The API resets: what HomeKit or MQTT set has no effect until the next bootstrap.
BootstrapLost ==
    /\ hasBootstrap
    /\ hasBootstrap' = FALSE
    /\ UNCHANGED <<liveviews, detectMotion, switches, isConfigured, security>>

\* Homebridge restarts: the accessories and their contexts are as they were.
Restart ==
    /\ hasBootstrap' = FALSE
    /\ isConfigured' = {}
    /\ security' = [security EXCEPT !.isThere = FALSE]
    /\ UNCHANGED <<liveviews, detectMotion, switches>>

-----------------------------------------------------------------------------
(* HomeKit and MQTT.                                                       *)

\* HomeKit sets a switch, or MQTT: that only changes what HomeKit shows.
SetSwitch(v, value, byMqtt) ==
    /\ v \in isConfigured
    /\ LET shown == [switches EXCEPT ![v].on = value]
           scene == IF byMqtt \/ ~hasBootstrap
                    THEN [motion |-> detectMotion, switches |-> shown]
                    ELSE SceneSet([motion |-> detectMotion, switches |-> shown], v, value, liveviews)
       IN  detectMotion' = scene.motion /\ switches' = scene.switches
    /\ UNCHANGED <<hasBootstrap, liveviews, isConfigured, security>>

\* A camera's own switch (configureMotionSwitch).
SetMotionSwitch(c) ==
    /\ detectMotion' = [detectMotion EXCEPT ![c] = ~@]
    /\ UNCHANGED <<hasBootstrap, liveviews, switches, isConfigured, security>>

\* Deviation: the alarm's switch stays on.
StateSetAlone(s) == [security EXCEPT !.securityState = s, !.current = s, !.isAlarmTriggered = FALSE]

\* A new state ends an alarm.
StateSet(s) == [StateSetAlone(s) EXCEPT !.alarmSwitch = FALSE]

\* setSecurityState, by HomeKit or by MQTT: a state whose liveview shows no camera is only shown, and an alarm
\* goes on; any other one turns the detection of all of the cameras on or off.
SetSecurityState(s) ==
    /\ security.isThere /\ hasBootstrap
    /\ IF s # "off" /\ CamerasOf(s, liveviews) = {}
       THEN /\ security' = [security EXCEPT !.securityState = s, !.current = s]
            /\ UNCHANGED detectMotion
       ELSE /\ security' = StateSet(s)
            /\ detectMotion' = [c \in Cameras |-> c \in CamerasOf(s, liveviews)]
    /\ UNCHANGED <<hasBootstrap, liveviews, switches, isConfigured>>

\* setSecurityAlarm, by HomeKit's switch or by MQTT.
SetSecurityAlarm(value) ==
    /\ security.isThere
    /\ security' = IF security.isAlarmTriggered = value
                   THEN [security EXCEPT !.alarmSwitch = value]
                   ELSE [security EXCEPT !.isAlarmTriggered = value, !.alarmSwitch = value,
                            !.current = IF value THEN "alarm" ELSE security.securityState]
    /\ UNCHANGED <<hasBootstrap, liveviews, detectMotion, switches, isConfigured>>

Next ==
    \/ \E views \in Partial(Views, Slots) : Bootstrap(views)
    \/ BootstrapLost
    \/ Restart
    \/ \E v \in SwitchViews, value, byMqtt \in BOOLEAN : SetSwitch(v, value, byMqtt)
    \/ \E c \in Cameras : SetMotionSwitch(c)
    \/ \E s \in States : SetSecurityState(s)
    \/ \E value \in BOOLEAN : SetSecurityAlarm(value)

Spec == Init /\ [][Next]_vars

-----------------------------------------------------------------------------
(* What scenes promise.                                                    *)

\* A bootstrap, the periodic one with the same liveviews among them, leaves the scenes
\* alone that HomeKit and the cameras' switches have made: it changes the detection of a
\* camera only for a switch that was not there or that a restart left unconfigured
\* (configureSwitches, isConfigured).
BootstrapKeepsScenes ==
    Bootstrap(liveviews') =>
        \A c \in Cameras : detectMotion'[c] # detectMotion[c] =>
            \E v \in isConfigured' : c \in CamerasOf(v, liveviews') /\
                (v \notin isConfigured \/ v \notin DOMAIN switches)

BootstrapsKeepScenes == [][BootstrapKeepsScenes]_vars

\* The alarm's switch is on exactly while the alarm is, and HomeKit shows an alarm only
\* then, whatever states and alarms HomeKit and MQTT set in what order.
AlarmAgrees ==
    /\ security.isThere => security.alarmSwitch = security.isAlarmTriggered
    /\ security.isThere /\ security.current = "alarm" => security.isAlarmTriggered

=============================================================================
