CONSTANTS
    a = a
    b = b
    c1 = c1
    c2 = c2
    Components = {a, b}
    Clients = {c1, c2}
    TestAgenda <- TwoClients
    FaultChoices <- SomeFaults
    TickFrequency = 3
    MinTimes = {2, 3}
    MaxTime = 5
    ClientTimeout = 3
    ClientDelay = 2
    Delays = {1, 2}
    MaxBatch = 2
    MaxEntries = 5
SPECIFICATION FairSpec
INVARIANTS
    TypeOK
    OneRequestPerClient
    LogicalTimeIdentifiesSteps
    HistoryIsSequential
    EveryRequestHandledOnce
    NothingInThePast
    HistoryComplete
PROPERTIES
    RunReturns
