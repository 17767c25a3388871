SPECIFICATION FairSpec
CONSTANTS
    t1 = t1
    t2 = t2
    Threads <- MCThreads
    MaxSends = 2
    Nothing = Nothing
INVARIANTS
    TypeOK
    WriteDiscipline
    NoStall
PROPERTIES
    IsFifo
    IsLiveFifo
\* Every thread has sent all it had to, and everything has arrived or been lost.
CHECK_DEADLOCK FALSE
