SPECIFICATION FairSpec
CONSTANTS
    c1 = c1
    c2 = c2
    Workers = {w1, w2}
    Clients = {c1, c2}
    NoClient = NoClient
    Script <- ShortScripts
    BUF_SIZE = 4
    RecvSize = 2
    ReplyLen = 1
    ServeResults <- AnyResult
    MaxSignals = 1
INVARIANTS
    OneHolder
PROPERTIES
    AbandonedIsClosed
    StopsWhenClientsLeave
    SigintHeard
CHECK_DEADLOCK FALSE
