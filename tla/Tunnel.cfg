SPECIFICATION FairSpec
CONSTANTS
    Schemes = {"forward", "stdio", "static", "dynamic"}
    Kinds = {"ws", "h2"}
    Targets = {t1, t2}
    Size <- MCSize
    Limit <- MCLimit
    None = None
INVARIANTS
    TypeOK
    
    FrameComesFirst
    NothingLeftOpen
PROPERTIES
    IsDuplex
    EndSpreads
    LossNoticed
CHECK_DEADLOCK FALSE
