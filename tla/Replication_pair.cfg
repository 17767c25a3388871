SPECIFICATION Spec
CONSTANTS
    A = A
    B = B
    a = a
    b = b
    a2 = a2
    b2 = b2
    x = x
    y = y
    None = None
    States <- MCStates
    Session <- TwoLinks
    owner <- MCOwner2
    peer <- MCPeer2
    Remote = {b, b2}
    Introduced = {b2}
    Clients = {x}
    Home <- MCHome1
    Channels = {ch}
    ch = ch
    MaxRequests = 0
INVARIANTS
    TypeOK
    Listing
    NoOrphans
    NoGhost
PROPERTIES
    IsDirectory
\* Clients and links come once: in the end nothing is left to do.
CHECK_DEADLOCK FALSE
