SPECIFICATION VectorSpec
CONSTANTS
    Vectors <- MCVectors
    NoVector <- MCNoVector
    MaxDelay <- MCMaxDelay
    Cqs <- MCCqs
INVARIANTS
    PendingScheduled
    NoSpuriousInterrupt
PROPERTY NeverPostponed
