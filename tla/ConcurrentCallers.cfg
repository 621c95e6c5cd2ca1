SPECIFICATION Spec
CONSTANTS
    r1 = r1
    r2 = r2
    r3 = r3
    Request = {r1, r2, r3}
    NumStreams = 2
    MaxQueuedRequestsDevice = 2
    FencedStreams = {2}
    QueueFaults = {1}
    StartFaults = {2}
    app = app
    App = app
    worker = worker
    Callers = {app, worker}
    Hotplug = TRUE
    MaxSequence = 3
    NoRequest = NoRequest
SYMMETRY Symmetry
INVARIANTS OnePlace NoStall QueuesSound
PROPERTY CompletesInOrder
CHECK_DEADLOCK FALSE
