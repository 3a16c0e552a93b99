\* A signal during a change that the poller picks up.
SPECIFICATION FairSpec
CONSTANTS
    MaxVersion = 3
    Signals = TRUE
    EarlyChange = FALSE
    None = None
PROPERTIES
    ChangePickedUp
