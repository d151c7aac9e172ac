SPECIFICATION FairRegsSpec
CONSTANTS
    Identity <- MCIdentity
    IdW = 4
    Poison = 1
    MaxBumps = 1
    MaxRestarts = 2
INVARIANTS
    
    CleanAfterReset
PROPERTY ComesUp
