SPECIFICATION DebuggerSpec
CHECK_DEADLOCK FALSE
CONSTANTS
    a = a
    b = b
    c1 = c1
    Components = {a, b}
    Clients = {c1}
    TestAgenda <- MCAgenda
    FaultChoices <- MCFaults
    TickFrequency = 3
    MinTimes = {2}
    MaxTime = 0
    ClientTimeout = 3
    ClientDelay = 2
    Delays = {1}
    MaxBatch = 1
    MaxEntries = 3
    Fields = {x}
    Values = {"zero"}
    InitialHeap <- MCHeap
    MaxSilent = 1
INVARIANTS
    DebuggerInv
    LinesAreOfTheStep
    CrashesShownInPlace
PROPERTIES
    NavigationIsSafe
