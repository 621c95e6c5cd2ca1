SPECIFICATION Spec
CONSTANTS
    r1 = r1
    Request = {r1}
    NumStreams = 1
    MaxQueuedRequestsDevice = 2
    FencedStreams = {1}
    QueueFaults = {1}
    StartFaults = {}
    worker = worker
    App = app
    app = app
    Callers = {worker}
    Hotplug = FALSE
    MaxSequence = 4
    NoRequest = NoRequest
CHECK_DEADLOCK FALSE
INVARIANT StateChangeHandled
