\* One device that comes, goes and comes back.
SPECIFICATION Spec
CONSTANTS
    Devices = {"a"}
    Doorbells = {}
    MaxId = 0
PROPERTIES ReappearedStay
