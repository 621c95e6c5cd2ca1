SPECIFICATION Spec
CONSTANTS
    Request = {r1, r2}
    Modes = {"isp"}
    MaxQueued = 2
    FCSize = 4
    MaxSkip = 3
    MaxFrame = 7
    MaxFaults = 0
INVARIANT ContextsKept
CHECK_DEADLOCK FALSE
