SPECIFICATION Spec
CONSTANTS
    Name = {a, b}
    NoName = NoName
    Req = {r1}
    MaxAwake = 1
    Old = {}
    Deployments <- Crowded
PROPERTY EvictedIsIdle
CHECK_DEADLOCK FALSE
