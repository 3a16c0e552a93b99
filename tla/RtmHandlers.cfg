\* Two handlers and a third client compete for a queue of two.
SPECIFICATION Spec
CONSTANTS
    Addrs = {a1}
    Listeners = {l1}
    Waiters = {w1, w2, w3}
    Incoming = {h1, h2}
    WaitCap = 2
    IdleTimeout = FALSE
    None = None
SYMMETRY Symmetry
INVARIANTS
    TypeOK
    ExclusiveUse
    InUseStaysOpen
    ActiveCountsHandlers
    NoLostWakeup
PROPERTIES
    IsPool
CHECK_DEADLOCK FALSE
