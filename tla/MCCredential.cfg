SPECIFICATION FairSpec
CONSTANTS
    MaxVer = 2
    MaxFaults = 2
INVARIANTS
    NothingSwallowed
PROPERTIES
    RenewalArrives
    RevokedIsCutOff
CHECK_DEADLOCK FALSE
