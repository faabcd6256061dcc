SPECIFICATION WakeupsSpec
CONSTANTS
    t1 = t1
    t2 = t2
    Tasks <- TwoTasks
    Durations = {1, 2}
    EventsPolled = TRUE
    Slice = 1
    StartBy = 1
    MaxTick = 4
    MaxHw = 1
    MaxFutures = 2
    timer = timer
    keyboard = keyboard
    h1 = h1
    h2 = h2
    p1 = p1
    p2 = p2
    c1 = c1
    EmptySlot = EmptySlot

    
PROPERTIES
    SleeperWakes
    
    StartupEnds
CHECK_DEADLOCK FALSE
