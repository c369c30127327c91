CONSTANTS
    a = a
    b = b
    c1 = c1
    c2 = c2
    Components = {a, b}
    Clients = {c1, c2}
    TestAgenda <- OneClient
    FaultChoices <- NoFaults
    TickFrequency = 3
    MinTimes = {4}
    MaxTime = 0
    ClientTimeout = 3
    ClientDelay = 2
    Delays = {1, 2}
    MaxBatch = 1
    MaxEntries = 6
SPECIFICATION Spec
INVARIANT AnswersLastInvoke
