\* Two starts that overlap.
SPECIFICATION Spec
CONSTANTS
    Calls = {"c1", "c2"}
    Sockets = {"s1", "s2"}
    NoSocket = "none"
    MaxStarts = 2
PROPERTIES EveryEndIsAnnounced
CHECK_DEADLOCK FALSE
