\* A reconnect call beside the refresh, three sockets, two updates, three faults; and a
\* connection with four frames in chunks of one or two, with a heartbeat and without; and
\* two frames in bytes cut at any place, of up to one byte more than is accepted.
SPECIFICATION PartsSpec
CONSTANTS
    Refresh = "refresh"
    Reconnects = {"r1"}
    Sockets = {"s1", "s2", "s3"}
    NoSocket = "none"
    MaxUpdates = 2
    MaxFaults = 3
    HeartbeatIntervals = {0, 1}
    MaxPayload = 2
    MaxFrames = 4
    PayloadLengths = {0, 2, 3}
    MaxSent = 2
INVARIANTS AvailableIsAlive AttemptsNeverStack EmittedInOrder MessagesAreWhole
PROPERTIES ForgetsNoOpenSocket ChannelRecovers ImplementsContract ConnectionsEnd
\* A closed connection has nothing left to do.
CHECK_DEADLOCK FALSE
