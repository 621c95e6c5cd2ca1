SPECIFICATION AllSpec
CONSTANTS
    NumPads = 2
    PoolSize = 2
    Copied = {1}
    MaxFailures = 1
    Unplug = TRUE
    Request = {r1, r2, r3}
    Configs <- AllConfigs
    Partial = FALSE
    MaxQueued = 2
    MaxSequence = 3
    MaxErrors = 1
    MaxFaults = 1
    Frames = {1, 2}
    Mapped = {"jpeg", "copy"}
    Requested = {{"direct"}, {"internal", "copy"}, {"jpeg", "copy"}, {"direct", "internal", "jpeg"}}
    MaxBuffers = 2
INVARIANTS TaskWoken WrapsKept SimpleNoAbort SimpleBuffersCirculate AndroidBuffersExclusive
PROPERTIES SimpleServes AndroidResults AndroidAnswers
CHECK_DEADLOCK FALSE
