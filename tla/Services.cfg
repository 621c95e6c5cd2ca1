SPECIFICATION AllSpec
CONSTANTS
    Buffer = {b1, b2, b3}
    NoBuffer = NoBuffer
    NumBuffers = 2
    Faults = {"QBUF", "STREAMOFF"}
    KernelBug = TRUE
    MaxUse = 6
    Timer = {t1, t2, t3}
    MaxTime = 4
    EarlierRestart = FALSE
    n1 = n1
    n2 = n2
    n3 = n3
    n4 = n4
    NumFds = 2
    Notifier = {n1, n2, n3, n4}
    NoNotifier = NoNotifier
    FdOf <- FdMap
    TypeOf <- TypeMap
    MaxRounds = 1
    MaxCalls = 3
    MaxEvents = 2
    MaxNesting = 2
    CookieLimit = 8
    MaxMessages = 4
    Capacity = 3
INVARIANTS CacheTracksQueue RecordsAgree EntryExists RepliesMatch MessagesWhole
PROPERTIES ReturnsOnce EveryBufferReturns TimersServed EventsServed CallsServed MessagesArrive
CHECK_DEADLOCK FALSE
