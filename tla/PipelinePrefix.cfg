\* Another prefix of the Nexus repositories, and nothing fails.
SPECIFICATION FairPipelineSpec
CONSTANTS
    Requests = {r1}
    Handlers = {h1}
    Workers = {w1}
    PkgManagers = {"npm"}
    Reasons <- TaskReasons
    Idle = Idle
    Nobody = Nobody
    CleanupJob = CleanupJob
    ExpiryStates = {}
    FaultKinds = {}
    MaxFaults = 0
    DefaultPrefix = FALSE
    MaxTries = 1
    MaxTransactions = 14
PROPERTIES CompletesUndisturbed
\* Every request is finished at some time.
CHECK_DEADLOCK FALSE
