SPECIFICATION FairSpec
CONSTANTS
    Device = {1, 2}
    Writer = {1}
    MaxSeq = 2
    MaxBytes = 99
    MaxAppends = 3
    Codes = {"RELAY_STORAGE_UNAVAILABLE"}
    Retryable = {"RELAY_STORAGE_UNAVAILABLE"}
    MaxFaults = 1
    MaxPins = 0
    MaxRetries = 1
    Capacity = 1
    Expires = FALSE
PROPERTIES
    EventualDelivery
    SettlesLive
CHECK_DEADLOCK FALSE
