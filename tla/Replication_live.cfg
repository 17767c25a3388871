SPECIFICATION FairSpec
CONSTANTS
    A = A
    B = B
    a = a
    b = b
    a2 = a2
    b2 = b2
    x = x
    y = y
    None = None
    States <- MCStates
    Session <- OneLink
    owner <- MCOwner1
    peer <- MCPeer1
    Remote = {b}
    Introduced = {}
    Clients = {x}
    Home <- MCHome1
    Channels = {ch}
    ch = ch
    MaxRequests = 2
INVARIANTS
    NoGhostSubscription
    ClientsKnown
    SubscriptionsKnown
    NoOrphans
PROPERTIES
    EndedIsReleased
    
    Converges
\* Clients and links come once: in the end nothing is left to do.
CHECK_DEADLOCK FALSE
