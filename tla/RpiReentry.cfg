SPECIFICATION Spec
CONSTANTS
    Request = {r1, r2}
    MaxQueued = 1
    MaxFaults = 0
    MaxFrames = 3
    MaxLost = 1
    MaxTimeouts = 1
INVARIANT CompletedOnce
CHECK_DEADLOCK FALSE
