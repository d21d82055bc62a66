\* Two workers, two commits, any one fault.
SPECIFICATION ScmSpec
CONSTANTS
    Fetchers = {p1, p2}
    Commits = {c1, c2}
    Idle = Idle
    Missing = Missing
    FaultKinds = {"disk", "git", "timeout", "crash", "prune"}
    MaxFaults = 1
INVARIANTS ScmTypeOK SharingIsSafe SourcesOfOneCommit
SYMMETRY Symmetry
