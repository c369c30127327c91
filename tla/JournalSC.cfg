CONSTANTS
    p1 = p1
    p2 = p2
    Producers = {p1, p2}
    Subscribers <- OneSub
    TermLength = 8
    FrameLengths = {3}
    MaxClaims = 5
    Modes = {TRUE, FALSE}
SPECIFICATION FairSpec
CHECK_DEADLOCK FALSE
INVARIANTS
    ConsumerInv
    NoLostWakeup
PROPERTIES
    ProcessedUnlessAsleep
