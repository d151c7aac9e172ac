SPECIFICATION Spec
CONSTANTS
    Depth <- MCDepth
    W <- MCW
    Interval <- MCInterval
    Data <- MCData
INVARIANTS
    AenqQueue
    KeepAliveArmed
    LinkReported
    EventSignalled
PROPERTY ImplementsService
