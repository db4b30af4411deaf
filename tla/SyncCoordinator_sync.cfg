SPECIFICATION FairSpec
CONSTANTS
    Web = {w1}
    NoWeb = NoWeb
    Peer = Peer
    AllConversations = FALSE
    MaxEntries = 2
    Scenarios <- Both
 
PROPERTY ImplementsCanonical
PROPERTY LeaseReturned
CHECK_DEADLOCK FALSE
