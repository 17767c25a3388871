SPECIFICATION Spec
CONSTANTS
    A = A
    B = B
    C = C
    x = x
    x2 = x2
    y = y
    ch = ch
    None = None
    States = {A, B, C}
    Clients = {x, x2, y}
    Home <- MCHome
    Channels = {ch}
    Link <- MCMesh
    Width = 3
    MaxChanges = 0
    Fragile = {}
    MaxMessages = 1
INVARIANTS
    NoLoop
    
\* Clients, links and messages come to an end.
CHECK_DEADLOCK FALSE
