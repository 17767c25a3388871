SPECIFICATION FairSpec
CONSTANTS
    Values <- MCValues
    MaxRequests = 1
INVARIANTS
    TypeOK
    AnsweredOnce
    
    RejectedUnusable
PROPERTIES
    ComesToRest
\* The requests come to an end.
CHECK_DEADLOCK FALSE
