SPECIFICATION Spec
CONSTANTS
    A = A
    B = B
    a = a
    b = b
    a2 = a2
    b2 = b2
    x = x
    y = y
    None = None
    States <- MCStates
    Session <- OneLink
    owner <- MCOwner1
    peer <- MCPeer1
    Remote = {b}
    Introduced = {}
    Clients = {y}
    Home <- MCHomeB
    Channels = {ch}
    ch = ch
    MaxRequests = 0
INVARIANTS
    EveryStateInformed
\* Clients and links come once: in the end nothing is left to do.
CHECK_DEADLOCK FALSE
