\* Poller and signals, files that change at any time.
SPECIFICATION FairSpec
CONSTANTS
    MaxVersion = 3
    Signals = TRUE
    EarlyChange = TRUE
    None = None
INVARIANTS
    TypeOK
    LastGoodStays
PROPERTIES
    PollPickedUp
    SignalPickedUp
