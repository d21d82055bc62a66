\* Three modules in a repository, two downloads, two failures of commands, one death.
SPECIFICATION GoModSpec
CONSTANTS
    Dirs <- DirSet
    Versions <- VersionSet
    Repositories <- Repos
    TagSets <- Tags
    Asks <- AskSet
    IgnoreMissing = TRUE
    Strict = TRUE
    MaxTries = 2
    NoVersion = NoVersion
    MaxFailures = 2
    MaxDeaths = 1
INVARIANTS GoModTypeOK CacheServesEveryModule VendoringIsChecked VersionsSortBetweenTags
    PackagesAreReported LocalPackagesAreWhereTheySay OnlyBadRequestsFail
\* A task ends.
CHECK_DEADLOCK FALSE
