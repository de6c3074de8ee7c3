\* The refresh chain and a device; a doorbell, which is a camera with a package camera; and
\* two or three of everything else.
SPECIFICATION PartsSpec
CONSTANTS
    Refresh = "refresh"
    Devices = {"device"}
    ErrorLimit = 3
    MaxRetries = 1
    Accessories = {"doorbell"}
    Doorbells = {"doorbell"}
    MaxId = 1
    MaxLives = 2
    MaxEvents = 3
    Cameras = {"c1", "c2"}
    SwitchViews = {"porch", "yard"}
    SecurityStates = {"home"}
    Slots = {{"c1"}, {"c1", "c2"}}
    MqttTopics = {"motion/get", "motion/set"}
    MaxQueue = 2
    Values = {"a", "b"}
    None = "off"
    MaxWrites = 2
    MaxUpdates = 1
    ChannelLists <- CameraChannels
    MaxWritten = 1
    HeaderSize = 2
    BoxSizes = {1, 2, 4}
    MaxBoxes = 3
    MaxChildren = 2
    Validations = {"r1", "r2"}
    Ips = {"ip"}
    MaxStored = 1
    Servers = {"one", "two"}
INVARIANTS BootstrapIsUsable HomeAgrees DetectionsEnd AlarmAgrees SubscriptionsHold
INVARIANTS ControlsAgree OffersAreServed OptionsAgree BoxesAreWhole OwnErrors
PROPERTIES NewCallsAreHeld BootstrapReturns SyncsSettle BootstrapsKeepScenes
PROPERTIES SilentBrokerIsLeft PublishesAtLast
\* Some parts may be used up.
CHECK_DEADLOCK FALSE
