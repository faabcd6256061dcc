SPECIFICATION DomainsSpec
CONSTANTS
    kernel = kernel
    d1 = d1
    o1 = o1
    o2 = o2
    t1 = t1
    t2 = t2
    Kernel = kernel
    Domains <- TwoDomains
    Objects <- TwoObjects
    Threads <- TwoThreads
    MaxCount = 2
SYMMETRY Symmetric
INVARIANTS
    
    
    
    SignalsSound
    
