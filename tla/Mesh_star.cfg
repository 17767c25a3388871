SPECIFICATION FairSpec
CONSTANTS
    A = A
    B = B
    C = C
    None = None
    Mortal = {B}
    Replaces <- MCEither
    Fragile <- Link
    States <- MCStates
    Seed <- MCStar
    MaxLinks = 2
INVARIANTS
    TypeOK
    NoMissedIntroduction
    OneLinkEachWay
    IntroducedIsListening
    OnlySeedIntroduces
PROPERTIES
    NodesGetLinked
\* Every link is opened and closed once: in the end nothing is left to do.
CHECK_DEADLOCK FALSE
