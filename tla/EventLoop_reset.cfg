SPECIFICATION FairSpec
CHECK_DEADLOCK FALSE
CONSTANTS
    Reactors = {r1, r2}
    Kinds = {"message", "init", "restart"}
    Sessions <- MCSessions
    MaxRequests = 2
    MaxAdmins = 2
PROPERTY
    ResetRestarts
