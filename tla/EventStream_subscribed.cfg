SPECIFICATION Spec
CONSTANTS
    Deployments <- Undisturbed
    MaxLog = 3
    Retries = 1
    PairsCap = 2
    PairsDrop = 1
INVARIANTS SubscribedFirst
CHECK_DEADLOCK FALSE
