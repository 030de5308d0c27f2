SPECIFICATION FairTerminalSpec
CONSTANTS
    c1 = c1
    c2 = c2
    p1 = p1
    m1 = m1
    m2 = m2
    Machines <- TwoMachines
    Conns <- TwoConns
    MachineOf <- SameMachine
    Callers = {p1}
    Target <- ToThatMachine
    Watchdog = w
    Capacities = {1}
    MaxUltimata = 1
    FaultSets <- NoFault
CHECK_DEADLOCK FALSE
PROPERTY WatchdogKeepsWatching
