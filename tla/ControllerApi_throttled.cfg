\* One device beside the refresh chain.
SPECIFICATION Spec
CONSTANTS
    Refresh = "refresh"
    Devices = {"device"}
    ErrorLimit = 2
    MaxRetries = 1
PROPERTIES NothingSentWhileThrottled
