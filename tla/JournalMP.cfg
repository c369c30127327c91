CONSTANTS
    p1 = p1
    p2 = p2
    r1 = r1
    r2 = r2
    Producers = {p1, p2}
    Readers = {r1, r2}
    Subscribers <- OneSub
    SubOf <- AllSub1
    TermLength = 8
    FrameLengths = {3}
    MaxClaims = 5
SPECIFICATION TeamSpec
INVARIANTS
    DeliveredInsideTerms
    MemoryInsideTerms
    BackPressureBound
    TermsInStep
    ClaimsOrdered
PROPERTIES
    ImplementsLog
    EveryCommitDelivered
