SPECIFICATION FairSpec
CONSTANTS
    Threads = {r1, r2, r3, w1, w2}
    ReadThreads = {r1, r2, r3}
    QuickThreads = {}
    WriteThreads = {w1, w2}
    RingSize = 7
    MaxTicket = 7
INVARIANTS
    NoLostWakeup
    MutexReturned
PROPERTIES
    WritersServed
    ImplementsReadersWriters
CHECK_DEADLOCK FALSE
