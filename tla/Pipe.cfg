SPECIFICATION FairSpec
CONSTANTS
    Readers = {r1, r2}
    Writers = {w1}
    Capacity = 2
    WordMod = 4
    Modes = {TRUE, FALSE}
    MaxChunk = 2
    MaxBytes = 5
    MaxStale = 2
INVARIANT
    PipeSound
PROPERTY
    PipeFlows
CHECK_DEADLOCK FALSE
