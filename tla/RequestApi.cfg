\* Two threads of the API, one request: overlapping transactions.
SPECIFICATION Spec
CONSTANTS
    Requests = {r1}
    Handlers = {h1, h2}
    Reasons = {why}
    PkgManagers = {"npm"}
    Idle = Idle
    MaxTransactions = 4
SYMMETRY Symmetry
INVARIANTS TypeOK HistoryJustified CleanupsJustified
PROPERTIES  BundleOutlivesRequest
CHECK_DEADLOCK FALSE
