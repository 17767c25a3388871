SPECIFICATION Spec
CONSTANTS
    A = A
    B = B
    C = C
    x = x
    x2 = x2
    y = y
    ch = ch
    None = None
    States = {A, B}
    Clients = {x, y}
    Home <- MCHomePair
    Channels = {ch}
    Link <- MCPair
    Width = 3
    MaxChanges = 1
    Fragile = {}
    MaxMessages = 1
INVARIANTS
    CountIsChosen
\* Clients, links and messages come to an end.
CHECK_DEADLOCK FALSE
