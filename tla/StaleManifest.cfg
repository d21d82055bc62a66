\* Two requests, as in RequestReads.cfg.
SPECIFICATION ReadsSpec
CONSTANTS
    Ids = {1, 2}
    NoFile = NoFile
    DepOrder <- MCDepOrder
    FileSets <- MCFileSets
    RepoOf <- MCRepoOf
    RefOf <- MCRefOf
INVARIANT StaleManifestsAreFull
