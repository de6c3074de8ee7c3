\* One session, fed from the livestream pool.
SPECIFICATION Spec
CONSTANTS
    Sessions = {"one"}
    TwoWay = {}
    MaxPort = 2
    MaxTries = 1
INVARIANTS StoppedStreamsEnd
CHECK_DEADLOCK FALSE
