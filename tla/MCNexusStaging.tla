--------------------------- MODULE MCNexusStaging ---------------------------
EXTENDS NexusStaging, TLC

KindOf == [sdist |-> "pypi", wheel |-> "url", fork |-> "vcs",
           gem |-> "GEM", mono |-> "GIT", pack |-> "js_url", lib |-> "js_registry"]

Names == DOMAIN KindOf

\* A dependency is listed twice when it is in two requirement files or two packages, or when
\* two gems come from one Git repository.
PipAndJsJobs ==
    {[manager |-> "pip", deps |-> <<"wheel", "sdist">>],
     [manager |-> "pip", deps |-> <<"fork", "fork">>],
     [manager |-> "rubygems", deps |-> <<"mono", "gem">>],
     [manager |-> "rubygems", deps |-> <<"mono", "mono">>],
     [manager |-> "js", deps |-> <<"pack", "lib">>]}

Interchangeable == Permutations(Executions) \cup Permutations(Requests)

\* The code has 5 attempts where this has 2, and 3 for "look".
FewTries == [s \in Steps |-> IF s \in {"confirm", "look", "address"} THEN 2 ELSE 1]
=============================================================================
