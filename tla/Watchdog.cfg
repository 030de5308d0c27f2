SPECIFICATION FairWatchdogSpec
CONSTANTS
    m1 = m1
    t1 = t1
    t2 = t2
    Machines <- OneMachine
    Tasks <- TwoTasks
    MachineOf <- SameMachine
    Commands <- Lines
    Window = 3
    FaultSets <- Faults
INVARIANT UltimatumEarned
INVARIANT EscalationIsRecorded
 
