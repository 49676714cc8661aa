SPECIFICATION FairHeadlessSpec
CONSTANTS
    MaxMessages = 3
    MaxRounds = 2
    MaxAsks = 0
    Coordinator = FALSE
    SaveOnExit = TRUE
INVARIANTS
    OrderKept
PROPERTIES
    RunEnds
