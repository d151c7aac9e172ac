SPECIFICATION FairSpec
CONSTANTS
    Depth <- MCDepth
    AqDepth <- MCAqDepth
    W <- MCW
    IdMod <- MCIdMod
    Cmd <- MCCmd
    Data <- MCData
INVARIANTS
    AdminQueue
    Answered
    CompletionSignalled
PROPERTY CommandsAnswered
