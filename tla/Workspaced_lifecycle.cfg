SPECIFICATION Spec
CONSTANTS
    Name = {a, b}
    NoName = NoName
    Req = {r1, r2}
    MaxAwake = 1
    Old = {a}
    Deployments <- Mixes
INVARIANT RequestsTracked
PROPERTY RequestsAnswered
PROPERTY FleetSettles
CHECK_DEADLOCK FALSE
