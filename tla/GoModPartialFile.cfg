\* The worker dies once, in the middle of a merge.
SPECIFICATION GoModSpec
CONSTANTS
    Dirs <- DirSet
    Versions <- VersionSet
    Repositories <- Repos
    TagSets <- Tags
    Asks <- AskSet
    IgnoreMissing = TRUE
    Strict = TRUE
    MaxTries = 2
    NoVersion = NoVersion
    MaxFailures = 0
    MaxDeaths = 1
INVARIANTS CacheIsWhole
\* A task ends.
CHECK_DEADLOCK FALSE
