SPECIFICATION FairSpec
CONSTANTS
    Readers = {r1}
    Writers = {w1}
    Capacity = 2
    WordMod = 4
    Modes = {FALSE}
    MaxChunk = 2
    MaxBytes = 2
    MaxStale = 2
PROPERTY
    CloseResumesReaders
CHECK_DEADLOCK FALSE
