CONSTANTS
    p1 = p1
    p2 = p2
    r1 = r1
    r2 = r2
    Producers = {p1}
    Readers = {r1}
    Subscribers <- OneSub
    SubOf <- AllSub1
    TermLength = 8
    FrameLengths = {4}
    MaxClaims = 8
SPECIFICATION TeamSpec
INVARIANTS
    DeliveredInOrder
