\* Sleepers, a pipe and the reaper under fair scheduling.
SPECIFICATION FairSpec
CONSTANTS
    Addrs = {a1}
    Listeners = {l1}
    Waiters = {w1, w2}
    Incoming = {h1}
    WaitCap = 1
    IdleTimeout = TRUE
    None = None
PROPERTIES
    IdleListenerReaped
    QuitDrains
CHECK_DEADLOCK FALSE
