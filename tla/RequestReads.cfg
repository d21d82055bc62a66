\* Two requests, packages of five package managers, one GET at a time.
SPECIFICATION ReadsSpec
CONSTANTS
    Ids = {1, 2}
    NoFile = NoFile
    DepOrder <- MCDepOrder
    FileSets <- MCFileSets
    RepoOf <- MCRepoOf
    RefOf <- MCRefOf
INVARIANTS ReadsTypeOK CompleteRequestsAreServed CombinedAnswersAreWhole PackagesAreAggregated
    EveryDependencyOnce LocalPurlsLeadToThePlace ManifestAndSbomAgree
