SPECIFICATION Spec
CONSTANTS
    Runtime = {x1, x2, x3, x4, x5}
    NoRuntime = NoRuntime
    File = {f1, f2}
    Req = {r1, r2}
    NoReq = NoReq
    Deployments <- FailedReplacement
PROPERTY PromptOnLive
CHECK_DEADLOCK FALSE
