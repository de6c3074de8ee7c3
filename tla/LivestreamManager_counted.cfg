\* One stream against one timeshift buffer: who is counted?
SPECIFICATION Spec
CONSTANTS
    Consumers = {"hksv", "stream"}
    Timeshift = {"hksv"}
    MaxObjects = 2
    MaxTimeshiftStarts = 1
    RebootLimit = 1
    SelfHealing = FALSE
INVARIANTS ConsumersAreCounted
