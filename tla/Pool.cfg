\* Two callers of Get against maintain and Close, a channel of two.
SPECIFICATION FairSpec
CONSTANTS
    Conns = {c1, c2, c3, c4}
    Getters = {g1, g2}
    MinIdle = 2
    None = None
INVARIANTS
    TypeOK
    OneHolder
    ClosedPoolIsEmpty
    DialedFits
PROPERTIES
    CloseTerminates
    KeptFull
CHECK_DEADLOCK FALSE
