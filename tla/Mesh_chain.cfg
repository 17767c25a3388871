SPECIFICATION Spec
CONSTANTS
    A = A
    B = B
    C = C
    None = None
    Mortal = {}
    Replaces <- MCNone
    Fragile = {}
    States <- MCStates
    Seed <- MCChain
    MaxLinks = 2
INVARIANTS
    MeshComplete
\* Every link is opened and closed once: in the end nothing is left to do.
CHECK_DEADLOCK FALSE
