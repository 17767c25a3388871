SPECIFICATION FairSpec
CONSTANTS
    A = A
    B = B
    C = C
    toC = toC
    toB = toB
    line = line
    other = other
    None = None
    States <- MCStates
    Seed <- MCSeed
    Threads <- MCThreads
    Work <- MCWork
    StateOf <- MCStateOf
    Kinds <- MCKinds
    Strand <- MCStrand
    To <- MCTo
    Repl = {B}
    Mortal = {C}
INVARIANTS
    TypeOK
    
PROPERTIES
    
    Recovers
\* Everything happens once: in the end nothing is left to do.
CHECK_DEADLOCK FALSE
