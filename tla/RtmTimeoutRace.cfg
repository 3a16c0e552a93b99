\* The idle timeout of a parked connection against its acquisition.
SPECIFICATION Spec
CONSTANTS
    Addrs = {a1}
    Listeners = {l1}
    Waiters = {w1, w2}
    Incoming = {h1}
    WaitCap = 1
    IdleTimeout = TRUE
    None = None
INVARIANTS
    InUseStaysOpen
CHECK_DEADLOCK FALSE
