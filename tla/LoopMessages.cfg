SPECIFICATION Spec
CONSTANTS
    t1 = t1
    t2 = t2
    Thread = {t1, t2}
    o1 = o1
    o2 = o2
    Object = {o1, o2}
    Home <- OnFirst
    p1 = p1
    p2 = p2
    Poster = {p1, p2}
    NoPoster = NoPoster
    MaxMessages = 3
    MaxRecursion = 2
    MaxStarts = 1
    MaxExits = 1
SYMMETRY Symmetry
INVARIANTS NoLostWakeup MessagesAccounted
PROPERTIES NotDeletedInHandler DeliveredInOrder
CHECK_DEADLOCK FALSE
