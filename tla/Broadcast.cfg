SPECIFICATION FairSpec
CHECK_DEADLOCK FALSE
CONSTANTS
    Rounds = {"SimpleDeliv", "RetryDeliv", "RedunDeliv", "AckDeliv", "ClassicDeliv"}
    MaxLosses = 2
    MaxCrashes = 1
INVARIANTS
    AckInv
PROPERTIES
    DeliversDespiteFaults
    SilentInTheEnd
