SPECIFICATION PartsSpec
CONSTANTS
    KCall = {k1, k2}
    Space = {n1, n2}
    KHome = n1
    NoSpace = NoSpace
    MaxVolumes = 3
    MaxKFaults = 2
    Dialog = {d1, d2}
    Talk = {t1, t2}
    NoDialog = NoDialog
    MaxWire = 1
    MaxDrafts = 2
    MaxAsks = 2
    Conv = {c1, c2}
    NoConv = NoConv
    MaxMsgs = 2
    MaxSnaps = 2
    MaxEvents = 1
    Source = {o1, o2, o3}
    Remote = {o1, o2}
    NoSource = NoSource
    PiSession = {i1}
    MaxResolves = 2
    MaxPushes = 1
    MaxReloads = 1
    MaxPiFaults = 1
    MaxBreaks = 1
    Run = {a1, a2}
    MaxRecords = 1
    MaxSaid = 3
    MaxLost = 1
    MaxUnread = 1
    MaxAttaches = 1
    MaxKept = 4
    MaxOutputs = 2
    MaxCuts = 1
    InProject = {w1, w2}
    PlainChat = {p1}
    NoChoice = NoChoice
    MaxNoState = 1
    MaxNews = 1
    Thread = {h1, h2}
    NoThread = NoThread
    Place = {l1, l2}
    NoFile = NoFile
    Doc = {y1}
    MaxOpened = 2
    MaxTrees = 3
    MaxMoves = 1
    Setting = {g1, g2}
    Direct = {g1}
    Entry = {v1, v2}
    NoEntry = NoEntry
    MaxEdits = 3
    MaxSaves = 2
    MaxOpenings = 1
    Flow = {f1, f2}
    NoFlow = NoFlow
    MaxPolls = 2
    Site = {s1}
    Listing = {q1, q2}
    MaxLoops = 2
    MaxRevs = 2
    MaxSiteMoves = 3
    MaxWebStarts = 1
    Copy = {b1, b2}
    Pushing = {u1, u2}
    MaxTexts = 3
    MaxLinkChanges = 3
    MaxDowntimes = 3
    MaxResumes = 2
INVARIANT PartsTypeOK
INVARIANT NothingTypedLost
INVARIANT ConfigurationTrue
INVARIANT HooksTold
INVARIANT FilesRight
INVARIANT SettingsTrue
INVARIANT WorkersFollowed
INVARIANT LoginsShared
INVARIANT RecoveryGoesOn
PROPERTY KubernetesAnswersTrue
PROPERTY DialogsKept
PROPERTY WrittenOnWhatWasSeen
PROPERTY CardsKept
PROPERTY SelectionRight
CHECK_DEADLOCK FALSE
