SPECIFICATION FairWakeupSpec
CONSTANTS
    Vectors <- MCVectors
    NoVector <- MCNoVector
    MaxDelay <- MCMaxDelay
    Cqs <- MCCqs
INVARIANTS
    NoLostWakeup
PROPERTY CompletionServed
