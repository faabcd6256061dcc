SPECIFICATION ServicesSpec
CONSTANTS
    Depth = 3
    Threshold = 2
    MaxCommands = 4
    t1 = t1
    t2 = t2
    h1 = h1
    h2 = h2
    k1 = k1
    private = private
INVARIANTS
    CompletionsExact
    QueuesSound
    IoSound
    CacheSound
    MmapSound
    ShmSound
    EndpointSound
PROPERTIES
    FinalIsFinal
CHECK_DEADLOCK FALSE
