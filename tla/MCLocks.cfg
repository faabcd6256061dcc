SPECIFICATION LocksSpec
CONSTANTS
    Words = {x, y}
    Val = {0, 1}
    NoValue = NoValue
    Writers = {w1}
    Readers = {r1, r2}
    MaxWrites = 2
    p1 = p1
    p2 = p2
    c1 = c1
    k1 = k1
    k2 = k2
    v1 = v1
    v2 = v2
SYMMETRY Symmetric
INVARIANTS
    ReadsAreSnapshots
    LocksSound
    
PROPERTIES
    MpmcImplementsFifo
