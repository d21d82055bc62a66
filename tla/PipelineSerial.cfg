\* One API thread: any fault, any expiry.
SPECIFICATION PipelineSpec
CONSTANTS
    Requests = {r1}
    Handlers = {h1}
    Workers = {w1, w2}
    PkgManagers = {"git-submodule"}
    Reasons <- TaskReasons
    Idle = Idle
    Nobody = Nobody
    CleanupJob = CleanupJob
    ExpiryStates = {"complete", "failed", "in_progress"}
    FaultKinds = {"crash", "redelivery", "api", "timeout", "broker", "step"}
    MaxFaults = 1
    DefaultPrefix = TRUE
    MaxTries = 1
    MaxTransactions = 14
INVARIANTS CompleteHasPackages 
PROPERTIES ImplementsApi LifecycleSpec
SYMMETRY Symmetry
\* Every request is finished at some time.
CHECK_DEADLOCK FALSE
