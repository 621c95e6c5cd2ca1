SPECIFICATION Spec
CONSTANTS
    r1 = r1
    r2 = r2
    r3 = r3
    Request = {r1, r2, r3}
    NumStreams = 1
    MaxQueuedRequestsDevice = 2
    FencedStreams = {1}
    QueueFaults = {1}
    StartFaults = {}
    app = app
    App = app
    Callers = {app}
    Hotplug = TRUE
    MaxSequence = 4
    NoRequest = NoRequest
CHECK_DEADLOCK FALSE
INVARIANT CompletesWhenDisconnected
