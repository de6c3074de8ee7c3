\* One option and two cameras, and nothing written by hand.
SPECIFICATION Spec
CONSTANTS
    Devices = {"camera", "doorbell"}
    MaxWritten = 0
PROPERTIES SettingsAreLocal
