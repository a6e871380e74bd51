SPECIFICATION Spec
CONSTANTS
    c1 = c1
    c2 = c2
    Workers = {w1}
    Clients = {c1, c2}
    NoClient = NoClient
    Script <- TwoScripts
    BUF_SIZE = 4
    RecvSize = 3
    ReplyLen = 2
    ServeResults <- AnyResult
    MaxSignals = 1
INVARIANTS
    TypeOK
    ServedInOrder
    RepliesWhole
CHECK_DEADLOCK FALSE
