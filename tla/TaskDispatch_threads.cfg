SPECIFICATION Spec
CONSTANTS
    m1 = m1
    m2 = m2
    Machines <- TwoMachines
    NumPhases = 2
    NumCoding = 1
    MaxTasks = 3
    MaxOwn = 1
    MaxThreads = 2
SYMMETRY Symmetry
INVARIANT LockedOnce
INVARIANT PipelineOrder
