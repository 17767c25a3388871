SPECIFICATION FairSpec
CONSTANTS
    A = A
    B = B
    C = C
    x = x
    x2 = x2
    y = y
    ch = ch
    None = None
    States = {A, B}
    Clients = {x, y}
    Home <- MCHomePair
    Channels = {ch}
    Link <- MCPair
    Width = 3
    MaxChanges = 2
    Fragile <- MCPair
    MaxMessages = 2
INVARIANTS
    TypeOK
    
    NoLoop
    
    CountInRange
PROPERTIES
    ComesToRest
\* Clients, links and messages come to an end.
CHECK_DEADLOCK FALSE
