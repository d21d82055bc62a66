\* Two workers, two API threads, one fault of any kind but redelivery.
SPECIFICATION PipelineSpec
CONSTANTS
    Requests = {r1}
    Handlers = {h1, h2}
    Workers = {w1, w2}
    PkgManagers = {"npm", "pip"}
    Reasons <- TaskReasons
    Idle = Idle
    Nobody = Nobody
    CleanupJob = CleanupJob
    ExpiryStates = {}
    FaultKinds = {"crash", "api", "timeout", "broker", "script", "step"}
    MaxFaults = 1
    DefaultPrefix = TRUE
    MaxTries = 1
    MaxTransactions = 18
INVARIANTS PipelineTypeOK CompleteIsUsable
SYMMETRY Symmetry
\* Every request is finished at some time.
CHECK_DEADLOCK FALSE
