SPECIFICATION FairSpec
CHECK_DEADLOCK FALSE
CONSTANTS
    Shells = {s1, s2}
    MaxPids = 2
    MaxCommands = 2
    QUEUE_SIZE = 1
    BUFFER_LEN = 2
    PipeSize = 2
    InitialRows = {0, 1}
    MaxEntries = 2
    MaxIndexes = 2
    MaxMishaps = 1
INVARIANTS
    LoggerInv
    RunningIsInPidFile
    IndexIsTrue
PROPERTIES
    EverythingPersisted
