SPECIFICATION FairSpec
CONSTANTS
    r1 = r1
    r2 = r2
    Request = {r1, r2}
    NumStreams = 2
    MaxQueuedRequestsDevice = 1
    FencedStreams = {2}
    QueueFaults = {1}
    StartFaults = {2}
    app = app
    App = app
    Callers = {app}
    Hotplug = FALSE
    MaxSequence = 2
    NoRequest = NoRequest
INVARIANTS TypeOK NoFatal CleanBetweenSessions
PROPERTIES BuffersBracketSessions CompletesAllInOrder
