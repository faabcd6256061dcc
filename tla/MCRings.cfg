SPECIFICATION RingsSpec
CONSTANTS
    N = 4
    v1 = v1
    v2 = v2
    Val = {v1, v2}
    Uninit = Uninit
    WordMod = 16
    MaxPushes = 7
    p1 = p1
    p2 = p2
    c1 = c1
    c2 = c2
INVARIANTS
    NoSlotRace
    BorrowedSlotIsOldest
    RingsSound
    LateRepliesHarmless
PROPERTIES
    ImplementsFifo
    RingsServe
    
CHECK_DEADLOCK FALSE
