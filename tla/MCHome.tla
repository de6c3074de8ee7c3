-------------------------------- MODULE MCHome --------------------------------
(***************************************************************************)
(* What a controller and HomeKit have of each other, in parts that share   *)
(* no state, each on a small instance for TLC: the API, the accessories    *)
(* and what is shown of them, and what is beside them.  part says which of *)
(* them a behaviour is about, and the others stay as they began.           *)
(***************************************************************************)
EXTENDS ControllerApi, FiniteSets, Sequences

CONSTANTS
    Accessories, Doorbells, MaxId,                  \* DeviceSync
    MaxLives, MaxEvents,                            \* EventTimers
    Cameras, SwitchViews, SecurityStates, Slots,    \* SecurityScenes
    MqttTopics, MaxQueue,                           \* MqttConnection
    Values, None, MaxWrites, MaxUpdates,            \* DeviceControls
    ChannelLists,                                   \* RtspEntries
    MaxWritten,                                     \* FeatureOptions
    HeaderSize, BoxSizes, MaxBoxes, MaxChildren,    \* BoxReader
    Validations, Ips, MaxStored,                    \* ConfigServer
    Servers                                         \* PlaylistServer

\* What MQTT publishes to is none of the topics it subscribes to.
ASSUME MqttAssumption == "publish" \notin MqttTopics

\* A device is known by any number of ids, one after the other.
ASSUME SyncAssumption == MaxId \in Nat

\* A device is made any number of times.
ASSUME TimersAssumption == MaxLives \in Nat

\* An alarm is no state that a liveview sets, and there are only so many liveviews.
ASSUME ScenesAssumption == "alarm" \notin SecurityStates /\ IsFiniteSet(SwitchViews)

\* To have no setting is not a setting.
ASSUME ControlsAssumption == None \notin Values

\* A header has bytes, and so has what is said to be a box.
ASSUME BoxesAssumption ==
    /\ HeaderSize \in Nat \ {0} /\ BoxSizes \subseteq Nat \ {0}
    /\ MaxBoxes \in Nat

\* A number of messages is kept (MAX_STORED_ERRORS).
ASSUME ServerAssumption == MaxStored \in Nat

VARIABLES
    part,
    hidden, standalone, delayed, id, home, known,
    smartDetect, ringDelay, life, lives, configuring, place, detectMotion, detected, occupied,
    isRinging, eventTimers, ownTimers, published, delayedUpdates, events,
    hasBootstrap, liveviews, detecting, switches, isConfigured, security,
    socket, moreData, connected, ended, connectTimer, keepaliveTimer, reconnectTimer,
    pendingPings, subscribedTopics, queuedPackets, brokerTopics, renewed, silent,
    kind, controller, ufp, shown, messageStates, writes, updates, refreshing, excused,
    override, profile, mayModify, channels, patching, rtspEntries, offered,
    streamingDefault, isSubscribed, replaced,
    isValue, default, options,
    stream, moof, children, received, pendingLength, boxSize, isListening, handed,
    initSegmentParts, hasInitSegment, segments,
    validation, errorInfo, login, devices, keptErrors, recorded, message, discovery,
    seen, listed,
    serverPhase, retries, holder, abandoned

Sync == INSTANCE DeviceSync WITH Devices <- Accessories
Timers == INSTANCE EventTimers WITH shown <- detected
Scenes == INSTANCE SecurityScenes WITH detectMotion <- detecting
Mqtt == INSTANCE MqttConnection WITH Topics <- MqttTopics
Controls == INSTANCE DeviceControls WITH refresh <- refreshing
Rtsp == INSTANCE RtspEntries
Options == INSTANCE FeatureOptions WITH Devices <- Cameras
Boxes == INSTANCE BoxReader
Ui == INSTANCE ConfigServer WITH phase <- validation, session <- login, errors <- keptErrors
Playlists == INSTANCE PlaylistServer WITH phase <- serverPhase

\* Every channel has what a channel has.
ASSUME RtspAssumption == ChannelLists \subseteq Seq(Rtsp!Channels)

\* Neither the controller nor a number is a device, and so much was written by hand.
ASSUME OptionsAssumption ==
    /\ MaxWritten \in Nat
    /\ Cameras \cap ({Options!Nvr, Options!Address} \cup Options!Numbers) = {}

\* Channels that cameras have, of both aspect ratios and of both at once; one is of a
\* nonsensical size, one is not enabled.
CameraChannels ==
    LET Channel(name, width, height, fps, isEnabled) ==
            [name |-> name, width |-> width, height |-> height, fps |-> fps,
             isRtspEnabled |-> isEnabled]
        wide == Channel("HIGH", 3840, 2160, 30, TRUE)
        high == Channel("HIGH", 1920, 1440, 20, TRUE)
        low == Channel("HIGH", 1280, 720, 10, TRUE)
        disabled == Channel("MEDIUM", 1280, 720, 30, FALSE)
        square == Channel("MEDIUM", 1024, 768, 15, TRUE)
        broken == Channel("MEDIUM", 0, 0, 0, TRUE)
    IN  {<<>>} \cup
        {<<Channel("LOW", 640, 360, 15, TRUE), pair[1], pair[2],
           Channel("PACKAGE CAMERA", 1600, 1200, 2, TRUE)>> :
            pair \in {<<wide, disabled>>, <<wide, square>>, <<high, square>>, <<high, broken>>,
                     <<low, disabled>>, <<low, square>>}}

controllerVars == <<errors, throttled, elapsed, session, csrf, isAdmin, bootstrapped, configured,
                   healthy, call>>
syncVars == <<hidden, standalone, delayed, id, home, known>>
timersVars == <<smartDetect, ringDelay, life, lives, configuring, place, detectMotion, detected,
               occupied, isRinging, eventTimers, ownTimers, published, delayedUpdates, events>>
scenesVars == <<hasBootstrap, liveviews, detecting, switches, isConfigured, security>>
mqttVars == <<socket, moreData, connected, ended, connectTimer, keepaliveTimer,
             reconnectTimer, pendingPings, subscribedTopics, queuedPackets,
             brokerTopics, renewed, silent>>
controlsVars == <<kind, controller, ufp, shown, messageStates, writes, updates,
                 refreshing, excused>>
rtspVars == <<override, profile, mayModify, channels, patching, rtspEntries, offered,
             streamingDefault, isSubscribed, replaced>>
optionsVars == <<isValue, default, options>>
boxesVars == <<stream, moof, children, received, pendingLength, boxSize, isListening,
              handed, initSegmentParts, hasInitSegment, segments>>
serverVars == <<validation, errorInfo, login, devices, keptErrors, recorded, message,
               discovery, seen, listed>>
playlistVars == <<serverPhase, retries, holder, abandoned>>
partsVars == <<part, controllerVars, syncVars, timersVars, scenesVars, mqttVars,
               controlsVars, rtspVars, optionsVars, boxesVars, serverVars,
               playlistVars>>

\* Each part begins anywhere it can, as long as the behaviour is about it, or else where no
\* property of it fails.
Starts(p, elsewhere) == IF part = p THEN TRUE ELSE elsewhere

PartsInit ==
    /\ part \in {"api", "sync", "timers", "scenes", "mqtt", "controls",
                "rtsp", "options", "boxes", "server", "playlist"}
    /\ Starts("api", healthy = FALSE)
    /\ Starts("sync", hidden = {} /\ standalone = {} /\ delayed = FALSE)
    /\ Starts("timers", smartDetect = FALSE /\ ringDelay = FALSE)
    /\ Starts("controls", kind = "led" /\ controller = CHOOSE v \in Values : TRUE)
    /\ Starts("rtsp", override = FALSE /\ mayModify = FALSE /\ profile = "" /\ channels = <<>>)
    /\ Starts("options", isValue = FALSE /\ default = FALSE /\ options = <<>>)
    /\ Starts("boxes", stream = <<HeaderSize>> /\ moof = 1)
    /\ Starts("playlist", holder = "other")
    /\ Init /\ Sync!Init /\ Timers!Init /\ Scenes!Init /\ Mqtt!Init /\ Controls!Init
    /\ Rtsp!Init /\ Options!Init /\ Boxes!Init /\ Ui!Init /\ Playlists!Init

ApiSteps ==
    /\ part = "api" /\ Next
    /\ UNCHANGED <<part, syncVars, timersVars, scenesVars, mqttVars, controlsVars,
                    rtspVars, optionsVars, boxesVars, serverVars, playlistVars>>

SyncSteps ==
    /\ part = "sync" /\ Sync!Next
    /\ UNCHANGED <<part, controllerVars, timersVars, scenesVars, mqttVars, controlsVars,
                    rtspVars, optionsVars, boxesVars, serverVars, playlistVars>>

TimersSteps ==
    /\ part = "timers" /\ Timers!Next
    /\ UNCHANGED <<part, controllerVars, syncVars, scenesVars, mqttVars, controlsVars,
                    rtspVars, optionsVars, boxesVars, serverVars, playlistVars>>

ScenesSteps ==
    /\ part = "scenes" /\ Scenes!Next
    /\ UNCHANGED <<part, controllerVars, syncVars, timersVars, mqttVars, controlsVars,
                    rtspVars, optionsVars, boxesVars, serverVars, playlistVars>>

MqttSteps ==
    /\ part = "mqtt" /\ Mqtt!Next
    /\ UNCHANGED <<part, controllerVars, syncVars, timersVars, scenesVars, controlsVars,
                    rtspVars, optionsVars, boxesVars, serverVars, playlistVars>>

ControlsSteps ==
    /\ part = "controls" /\ Controls!Next
    /\ UNCHANGED <<part, controllerVars, syncVars, timersVars, scenesVars, mqttVars,
                    rtspVars, optionsVars, boxesVars, serverVars, playlistVars>>

RtspSteps ==
    /\ part = "rtsp" /\ Rtsp!Next
    /\ UNCHANGED <<part, controllerVars, syncVars, timersVars, scenesVars, mqttVars,
                    controlsVars, optionsVars, boxesVars, serverVars, playlistVars>>

OptionsSteps ==
    /\ part = "options" /\ Options!Next
    /\ UNCHANGED <<part, controllerVars, syncVars, timersVars, scenesVars, mqttVars,
                    controlsVars, rtspVars, boxesVars, serverVars, playlistVars>>

BoxesSteps ==
    /\ part = "boxes" /\ Boxes!Next
    /\ UNCHANGED <<part, controllerVars, syncVars, timersVars, scenesVars, mqttVars,
                    controlsVars, rtspVars, optionsVars, serverVars, playlistVars>>

ServerSteps ==
    /\ part = "server" /\ Ui!Next
    /\ UNCHANGED <<part, controllerVars, syncVars, timersVars, scenesVars, mqttVars,
                    controlsVars, rtspVars, optionsVars, boxesVars, playlistVars>>

PlaylistSteps ==
    /\ part = "playlist" /\ Playlists!Next
    /\ UNCHANGED <<part, controllerVars, syncVars, timersVars, scenesVars, mqttVars,
                    controlsVars, rtspVars, optionsVars, boxesVars, serverVars>>

PartsNext ==
    \/ ApiSteps \/ SyncSteps \/ TimersSteps \/ ScenesSteps \/ MqttSteps
    \/ ControlsSteps \/ RtspSteps \/ OptionsSteps \/ BoxesSteps \/ ServerSteps \/ PlaylistSteps

\* What is fair of a part is fair in its behaviours.
PartsFairness ==
    /\ SF_vars(part = "api" /\ (SignIn \/ BootstrapDue))
    /\ \A c \in Callers : SF_vars(part = "api" /\ Step(c))
    /\ WF_vars(part = "api" /\ IntervalElapses)
    /\ WF_mqttVars(part = "mqtt" /\ Mqtt!ReconnectTimerFires)
    /\ WF_mqttVars(part = "mqtt" /\ Mqtt!ConnectTimerFires)
    /\ WF_mqttVars(part = "mqtt" /\ Mqtt!KeepaliveFires)
    /\ WF_mqttVars(part = "mqtt" /\ socket = "destroyed" /\ Mqtt!Closes)
    /\ \A s \in Servers :
        /\ WF_playlistVars(part = "playlist" /\ (Playlists!Listens(s) \/ Playlists!InUse(s) \/ Playlists!Fails(s)))
        /\ WF_playlistVars(part = "playlist" /\ Playlists!Retry(s))

PartsSpec == PartsInit /\ [][PartsNext]_partsVars /\ PartsFairness

-----------------------------------------------------------------------------
(* What the parts beside the API promise, under the names they give it.    *)

\* What the plugin has of each device agrees (addHomeKitDevice, removeHomeKitDevice).
HomeAgrees == part = "sync" => Sync!HomeAgrees

\* After a synchronisation HomeKit shows what the controller has (cleanupDevices).
SyncsSettle == [][part = "sync" => Sync!SyncSettles]_partsVars

\* What is detected ends, also over a removal of the device (resetTimer), unless an object
\* that was removed while it was configured listens as well (configureDevice).
DetectionsEnd == part = "timers" => Timers!DetectionsEnd

\* Alarm, states and scenes agree (setSecurityState, setSecurityAlarm).
AlarmAgrees == part = "scenes" => Scenes!AlarmAgrees

\* Every bootstrap leaves the scenes as they were set, but for switches it configures for
\* the first time (configureSwitches).
BootstrapsKeepScenes == [][part = "scenes" => Scenes!BootstrapKeepsScenes]_partsVars

\* The broker has the subscriptions that were asked for (processPacket).
SubscriptionsHold == part = "mqtt" => Mqtt!SubscriptionsHold

\* A silent broker is left (startKeepalive, open).
SilentBrokerIsLeft == Mqtt!SilentBrokerIsLeft

\* HomeKit shows the setting the controller has, but for what is excused (writeDevice,
\* eventHandler, ufpUpdates).
ControlsAgree == part = "controls" => Controls!ControlsAgree

\* What HomeKit is offered can be served, by entries of the camera's channels unless these
\* were replaced without a configuration (configure, findRtspEntry).
OffersAreServed == part = "rtsp" => Rtsp!OffersAreServed

\* Options are what their entries say, to the plugin and in its interface (resolveScope).
OptionsAgree == part = "options" => Options!OptionsAgree

\* Boxes are handed on whole, whichever chunks they come in (push, parse).
BoxesAreWhole == part = "boxes" => Boxes!BoxesAreWhole

\* A page shows the error of its own validation (#recordError).
OwnErrors == part = "server" => Ui!OwnErrors

\* Someone publishes the playlists at last (start).
PublishesAtLast == Playlists!PublishesAtLast

=============================================================================
