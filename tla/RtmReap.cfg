\* Two listener objects, one after the other, on one address.
SPECIFICATION Spec
CONSTANTS
    Addrs = {a1}
    Listeners = {l1, l2}
    Waiters = {w1, w2}
    Incoming = {h1}
    WaitCap = 2
    IdleTimeout = TRUE
    None = None
SYMMETRY Symmetry
INVARIANTS
    ActiveCountsHandlers
    RegisteredIsServed
PROPERTIES
    ReaperSparesHandlers
    OnlyTimeoutCloses
CHECK_DEADLOCK FALSE
