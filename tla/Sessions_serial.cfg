SPECIFICATION FairSpec
CONSTANTS
    Orders = {o1, o2}
    Extends = {x1}
    Decides = {d1, d2}
    Kills = {k1}
    agent = agent
    phone = phone
    Client <- TwoClients
    Cpu <- OneCpu
    MaxMachines = 1
    MaxCpu = 1
    CpuBudget = 2
    Faults <- NoFaults
 
 
PROPERTY EveryRequestEnds
