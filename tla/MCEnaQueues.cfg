SPECIFICATION QueuesSpec
CONSTANTS
    NumSq <- MCNumSq
    NumCq <- MCNumCq
    MinDepth <- MCMinDepth
    MaxDepth <- MCMaxDepth
    NumVectors <- MCNumVectors
    VectorNone <- MCVectorNone
    LlqEntrySizes <- MCLlqEntrySizes
    LlqQueueBytes <- MCLlqQueueBytes
    RxCdescBytes <- MCRxCdescBytes
    Buckets <- MCBuckets
    CqCmds <- MCCqCmds
    SqCmds <- MCSqCmds
INVARIANTS
    SqBound
    LlqInSlice
    
PROPERTY QueueStable
