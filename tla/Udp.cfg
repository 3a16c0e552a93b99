\* Both functions, two sources, sessions that follow each other.
SPECIFICATION FairSpec
CONSTANTS
    Peers = {p1, p2}
    Targets = {d1}
    Sessions = {s1, s2}
    Modes = {TRUE, FALSE}
    None = None
INVARIANTS
    TypeOK
    MapsAgree
    NoDeadSessionMapped
PROPERTIES
    ClosedSessionEnds
CHECK_DEADLOCK FALSE
