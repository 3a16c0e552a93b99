SPECIFICATION FairSpec
CONSTANTS
    Peers = {p1}
    Sessions = {s1, s2}
    Buffer = 1
    Replies = 1
    Datagrams = 3
    None = None
INVARIANTS
    TypeOK
    EntryIsOwn
    ClosedStaysDisarmed
    OpenCanExpire
    DrainedAtEof
PROPERTIES
    SessionsReclaimed
    HandlersReturn
CHECK_DEADLOCK FALSE
