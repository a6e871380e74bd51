SPECIFICATION FairSpec
CONSTANTS
    Threads = {r1, r2, w1}
    ReadThreads = {r1, r2}
    QuickThreads = {}
    WriteThreads = {w1}
    RingSize = 6
    MaxTicket = 6
PROPERTIES
    ReadersServed
CHECK_DEADLOCK FALSE
