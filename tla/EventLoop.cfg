SPECIFICATION FairSpec
CHECK_DEADLOCK FALSE
CONSTANTS
    Reactors = {r1, r2}
    Kinds = {"message", "init", "restart", "long", "garbled", "unhandled"}
    Sessions <- MCSessions
    MaxRequests = 2
    MaxAdmins = 2
INVARIANTS
    LoopInv
    AnswersMatchCommands
PROPERTIES
    EveryRequestAnswered
