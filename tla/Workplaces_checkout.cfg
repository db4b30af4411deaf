SPECIFICATION PlacesSpec
CONSTANTS
    s1 = s1
    s2 = s2
    s3 = s3
    main = main
    b = b
    f = f
    NoSession = NoSession
    Gone = Gone
    Checkout <- main
    Feature <- f
    Session <- MCSession
    Branch <- MCBranch
    Moved <- MCMoved
    Early <- MCEarly
    MaxWork = 2
    MaxOps = 2
    MaxTurns = 1
    MaxFaults = 1
    Repo = {p1, p2}
    Entry = {e1, e2, e3}
    NoEntry = NoEntry
    AppReq = {q1, q2}
    MaxMoves = 1
    MaxTrouble = 1
    Tab = {x1}
    Topic = {z1, z2}
    NoRef = NoRef
    MaxCommits = 2
INVARIANTS PlacesTypeOK RepositoryKept
PROPERTIES  StateKept PushedAsReviewed
CHECK_DEADLOCK FALSE
