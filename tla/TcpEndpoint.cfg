SPECIFICATION Spec
CONSTANTS
    Contexts = {1}
    Stream = 1
    BufLimit = 1
    EventCap = 1
    MaxAccepts = 1
    Openings = {{"lis", "cli"}}
INVARIANT
    DescriptorsApart
CHECK_DEADLOCK FALSE
