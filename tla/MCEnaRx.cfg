SPECIFICATION FairSpec
CONSTANTS
    Depth <- MCDepth
    W <- MCW
    Data <- MCData
    Qs <- MCQs
    Frames <- MCFrames
    MaxFrame <- MCMaxFrame
    MaxDescs <- MCMaxDescs
    BufSize <- MCBufSize
    Checks = {TRUE, FALSE}
    MaxArrivals = 2
    MaxHeld = 2
    MaxTeardowns = 2
INVARIANTS
    TypeOK
    CompletionsHold
    FramesIntact
    BuffersOwned
    CollectExact
    FramesAccounted
 
CHECK_DEADLOCK FALSE
