SPECIFICATION MCSpec
CONSTANTS
    MinMtu = 128
    MaxMtu = 9000
    Mtus <- MCMtus
    Addrs <- MCAddrs
    GroupSets <- MCGroupSets
    Keys <- MCKeys
    KeyParts = 2
    DefaultKey <- MCDefaultKey
    InitVals = {0, 7}
    Selections <- MCSelections
    Tables <- MCTables
    RxQueues <- MCRxQueues
    B = 2
    MaxCount = 6
    HeaderRoom = 96
    Lens <- MCLens
    Hdrs <- MCHdrs
    MaxPkt = 65760
    MaxSet = 3
INVARIANTS
    AnswersTrue
    
    MtuObeyed
    SumsAsAsked
    WellFormedLeaves
    LayoutKept
    StatusTruthful
