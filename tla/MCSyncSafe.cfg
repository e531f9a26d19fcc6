SPECIFICATION Spec
CONSTANTS
    Device = {1, 2}
    Writer = {1}
    MaxSeq = 2
    MaxBytes = 1
    MaxAppends = 3
    Codes = {"RELAY_STORAGE_UNAVAILABLE", "AUTH_DEVICE_REVOKED"}
    Retryable = {"RELAY_STORAGE_UNAVAILABLE"}
    MaxFaults = 1
    MaxPins = 1
    MaxRetries = 1
    Capacity = 1
    Expires = TRUE
INVARIANTS
    AckedIsStored
    StreamAccounts
    KnownLossSurfaces
    ReplayIsComplete
PROPERTIES
    DeliverySpec
    LossIsRemembered
CHECK_DEADLOCK FALSE
