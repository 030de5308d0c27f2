SPECIFICATION FairSpec
CONSTANTS
    m1 = m1
    m2 = m2
    Machines <- TwoMachines
    NumPhases = 1
    NumCoding = 1
    MaxTasks = 3
    MaxOwn = 1
    MaxThreads = 1
INVARIANT CodingOnce
PROPERTY QueueDrains
