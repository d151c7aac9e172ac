SPECIFICATION FairSpec
CONSTANTS
    Depth <- MCDepth
    W <- MCW
    Data <- MCData
    SqDepth <- MCSqDepth
    DescsBefore <- MCDescsBefore
    DescsPerEntry <- MCDescsPerEntry
    MaxPktDescs <- MCMaxPktDescs
    ReqIds <- MCReqIds
    Shapes <- MCShapes
INVARIANTS
    ParserInBounds
    ParseCorrect
    SentIntact
    CqQueue
PROPERTY HandlerReturns
