\* One livestream with three starts, one FFmpeg object with three children, two recordings,
\* two streaming sessions that share two ports, two snapshot requests.
SPECIFICATION PartsSpec
CONSTANTS
    Calls = {"c1", "c2"}
    Sockets = {"s1", "s2", "s3"}
    NoSocket = "none"
    MaxStarts = 3
    MaxChildren = 2
    MaxRequests = 2
    MaxUpdates = 1
    Entries = {"e1"}
    MaxListeners = 2
    Sessions = {"one", "two"}
    TwoWay = {"two"}
    MaxPort = 2
    MaxTries = 1
    Requesters = {"a", "b"}
    Sizes = {0, 1}
    MaxAttempts = 2
    MaxEvents = 1
    Timeout = 2
    FallbackReserve = 1
INVARIANTS SessionLeavesNothing WaiterHasSession ChildrenAgree
INVARIANTS RecordingsAgree SessionsAgree AttemptsAgree
PROPERTIES ImplementsSession SilenceEndsSession StoppedChildrenExit RecordingsEnd
\* A livestream's starts, or an object's children, may be used up.
CHECK_DEADLOCK FALSE
