SPECIFICATION Spec
CHECK_DEADLOCK FALSE
CONSTANTS
    Participants = {"a", "b", "c"}
    NameLength <- MCNameLength
    MessageLengths = {1, 12}
    Times <- MCTimes
    CrashChoices <- MCCrashes
    MarkerSize = 3
    MaxArrows = 3
INVARIANTS
    DiagramInv
    ArrowsConnect
    MarkIsShown
