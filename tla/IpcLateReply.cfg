SPECIFICATION Spec
CONSTANTS
    MaxCalls = 2
    MaxEvents = 2
    MaxNesting = 2
    CookieLimit = 8
INVARIANT RecvOnlyEvents
CHECK_DEADLOCK FALSE
