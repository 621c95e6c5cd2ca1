SPECIFICATION AllSpec
CONSTANTS
    exposure = exposure
    gain = gain
    first = 0
    second = 1
    Controls = {exposure, gain}
    v1 = v1
    v2 = v2
    Values = {v1, v2}
    NoValue = NoValue
    delay <- TwoDelays
    ListSize = 3
    MaxFrames = 3
    MaxLost = 1
    ResetOnStart = TRUE
    Request = {r1, r2, r3}
    Modes = {"isp", "dewarp", "raw"}
    MaxQueued = 2
    FCSize = 3
    MaxSkip = 1
    MaxFrame = 2
    MaxFaults = 1
    Pair = {p1, p2}
    MaxRpiFrames = 3
    MaxTimeouts = 1
SYMMETRY Symmetry
INVARIANTS TakesEffect ReadBack RkBuffersAccounted RkNoAbort RpiNoAbort RpiBuffersInPlace RpiNoStall
PROPERTY RkInOrder
CHECK_DEADLOCK FALSE
