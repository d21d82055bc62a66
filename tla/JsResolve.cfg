\* npm lock files of up to six packages in all three versions, two projects, and yarn lock files
\* of three packages and a workspace.
SPECIFICATION JsSpec
CONSTANTS
    PathOrder <- MCPathOrder
    NoPath = NoPath
    Requests <- MCRequests
INVARIANTS JsTypeOK NpmLockAgrees  DevMeansNotNeeded BundleServesEveryProject
\* A task ends.
CHECK_DEADLOCK FALSE
