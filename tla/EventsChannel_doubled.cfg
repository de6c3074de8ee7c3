\* A reconnect call and the refresh connect at the same time.
SPECIFICATION Spec
CONSTANTS
    Refresh = "refresh"
    Reconnects = {"r1"}
    Sockets = {"s1", "s2"}
    NoSocket = "none"
    MaxUpdates = 2
    MaxFaults = 2
INVARIANTS OneConnection
