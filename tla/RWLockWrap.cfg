SPECIFICATION FairSpec
CONSTANTS
    Threads = {q1, r1, w1, w2}
    ReadThreads = {r1}
    QuickThreads = {q1}
    WriteThreads = {w1, w2}
    RingSize = 3
    MaxTicket = 9
INVARIANTS
    TypeOK
    MutualExclusion
    CountersExact
    RingMirrorsWaiters
    DestroySucceeds
PROPERTIES
    FirstComeFirstServed
    QuickServed
CHECK_DEADLOCK FALSE
