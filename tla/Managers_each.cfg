SPECIFICATION ManagersSpec
CONSTANTS
    Name = {app}
    Child = {c1, c2, c3}
    NoChild = NoChild
    NoName = NoName
    MaxRestarts = 1
    MaxStarts = 2
    MaxTimers = 1
    MaxCrashes = 2
    Serial = FALSE
    Flow = {f1, f2}
    NoFlow = NoFlow
    MaxLogins = 2
    GFlow = {g1, g2}
    NoGFlow = NoGFlow
INVARIANT ManagersTypeOK
INVARIANT NobodyStranded
INVARIANT LoginsHeld
PROPERTY OnlyCrashesCount
PROPERTY Recovers
PROPERTY LoginsEnd
CHECK_DEADLOCK FALSE
