SPECIFICATION FairSpec
CONSTANTS
    MaxMessages = 2
    MaxRounds = 2
    MaxAsks = 2
    MaxActs = 1
    Coordinator = TRUE
INVARIANTS
    MessagesKept
    CleanMeansSaved
    AnswersItsQuestion
PROPERTIES
    WaitsEnd
