\* No fault but failing steps; complete and failed requests expire.
SPECIFICATION FairPipelineSpec
CONSTANTS
    Requests = {r1}
    Handlers = {h1, h2}
    Workers = {w1, w2}
    PkgManagers = {"gomod", "npm", "rubygems"}
    Reasons <- TaskReasons
    Idle = Idle
    Nobody = Nobody
    CleanupJob = CleanupJob
    ExpiryStates = {"complete", "failed"}
    FaultKinds = {"step"}
    MaxFaults = 0
    DefaultPrefix = TRUE
    MaxTries = 1
    MaxTransactions = 18
PROPERTIES EveryRequestSettles StaleIsCleaned StaleBundleIsDeleted
\* Every request is finished at some time.
CHECK_DEADLOCK FALSE
