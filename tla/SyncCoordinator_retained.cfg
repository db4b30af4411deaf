SPECIFICATION Spec
CONSTANTS
    Web = {w1}
    NoWeb = NoWeb
    Peer = Peer
    AllConversations = FALSE
    MaxEntries = 1
    Scenarios <- OneFault
PROPERTY SettlementRetained
CHECK_DEADLOCK FALSE
