SPECIFICATION Spec
CONSTANTS
    Orders = {o1, o2}
    Extends = {}
    Decides = {d1, d2}
    Kills = {k1}
    agent = agent
    phone = phone
    Client <- OwnClient
    Cpu <- OneCpu
    MaxMachines = 2
    MaxCpu = 1
    CpuBudget = 2
    Faults <- AllFaults
INVARIANT PodNeedsConsent
 
INVARIANT OrderAnswerIsTrue
PROPERTY KeepsLifecycle
