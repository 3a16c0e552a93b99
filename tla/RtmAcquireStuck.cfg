\* The acquire timer against the acquire deadline.
SPECIFICATION FairSpec
CONSTANTS
    Addrs = {a1}
    Listeners = {l1}
    Waiters = {w1}
    Incoming = {h1}
    WaitCap = 1
    IdleTimeout = TRUE
    None = None
PROPERTIES
    UnusedListenerReaped
CHECK_DEADLOCK FALSE
