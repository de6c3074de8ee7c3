\* A timeshift buffer started twice and a streaming session, over the livestream API
\* and over FFmpeg.
SPECIFICATION FairSpec
CONSTANTS
    Consumers = {"hksv", "stream"}
    Timeshift = {"hksv"}
    MaxObjects = 2
    MaxTimeshiftStarts = 2
    RebootLimit = 1
    SelfHealing = TRUE
INVARIANTS ListenersMatchSubscribers AlwaysWatched RestartingEnds OnlyThePooledSession
PROPERTIES RestartsAreNeeded SilenceEnds
