SPECIFICATION Spec
CONSTANTS
    Name = {app}
    Child = {c1, c2, c3, c4}
    NoChild = NoChild
    NoName = NoName
    MaxRestarts = 1
    MaxStarts = 2
    MaxTimers = 2
    MaxCrashes = 3
    Serial = FALSE
INVARIANT OneWorker
SYMMETRY Symmetry
CHECK_DEADLOCK FALSE
