\* A stray continuation with a message behind it in the same chunk.
SPECIFICATION Spec
CONSTANTS
    HeartbeatIntervals = {0, 1}
    MaxPayload = 2
    MaxFrames = 3
PROPERTIES NothingAfterFailure
CHECK_DEADLOCK FALSE
