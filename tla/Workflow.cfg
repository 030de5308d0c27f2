SPECIFICATION FairSpec
CONSTANTS
    Ids <- FourIds
    Dags <- EveryDag
    Codes <- TwoCodes
    MaxRetries = 1
    FaultSets <- SomeFaults
INVARIANT RunsInOrder
INVARIANT EndedRunIsQuiet
INVARIANT PodsAreCurrent
INVARIANT UnsoundRunFails
PROPERTY RunEnds
PROPERTY ShowsProgress
