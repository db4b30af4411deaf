SPECIFICATION FairSpec
CONSTANTS
    Deployments <- Everywhere
    MaxLog = 3
    Retries = 1
    PairsCap = 2
    PairsDrop = 1
INVARIANTS NoSilentGap LoadedOnce
PROPERTY CatchesUp
CHECK_DEADLOCK FALSE
