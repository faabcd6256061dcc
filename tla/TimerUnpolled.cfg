SPECIFICATION FairSpec
CONSTANTS
    Tasks = {t1, t2}
    Durations = {1, 2}
    EventsPolled = FALSE
    Slice = 1
    StartBy = 1
    MaxTick = 4
    MaxHw = 1
    MaxFutures = 1
PROPERTY
    SleepEnds
