\* Two executions, two requests, two faults of any kind.
SPECIFICATION StagingSpec
CONSTANTS
    Executions = {e1, e2}
    Requests = {r1, r2}
    Components <- Names
    Kind <- KindOf
    Jobs <- PipAndJsJobs
    Shared = Shared
    Idle = Idle
    Tries <- FewTries
    OrientProxy = FALSE
    MaxFaults = 2
SYMMETRY Interchangeable
INVARIANTS StagingTypeOK NexusHoldsWhatWasLocked FinishedIsStaged 
\* Every job ends.
CHECK_DEADLOCK FALSE
