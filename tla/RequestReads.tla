---------------------------- MODULE RequestReads ----------------------------
(***************************************************************************)
(* What clients read of requests, while requests complete and expire.  The *)
(* end of the task chain writes the packages file from the files of the    *)
(* package managers and then makes the request complete; the cleanup job   *)
(* makes it stale and the API deletes the files one after the other.  A    *)
(* GET looks at the state and at the files at different moments.           *)
(***************************************************************************)
EXTENDS ContentManifest

CONSTANTS
    Ids,        \* requests
    FileSets,   \* for each request, the files that its package managers may have written
    RepoOf,     \* [Ids -> repository]
    RefOf,      \* [Ids -> commit]
    NoFile      \* no packages file

ASSUME IdsAssumption == Ids \subseteq Nat
ASSUME FileSetsAssumption ==
    /\ DOMAIN FileSets = Ids
    /\ \A r \in Ids : \A sets \in FileSets[r] : \A f \in sets :
           \A p, q \in f : PackageKey(p) = PackageKey(q) => p = q
RowTypes == {"gomod", "go-package", "npm", "yarn", "pip", "rubygems", "git-submodule"}
Dependencies == [type : STRING, name : Seq(STRING), version : [kind : STRING, parts : Seq(STRING)],
                 dev : BOOLEAN]
ASSUME DepOrderAssumption == DepOrder \in Seq(Dependencies)

\* Names and paths are sequences.  Go modules and packages of a request have no path for a version.
\* A directory that go.mod names is in the repository (_vet_local_file_dep_paths) and lies in a
\* module of the request (_fail_if_parent_replacement_not_included); so does a package with such
\* dependencies (_get_local_go_package_dep_purl raises an error that "should be impossible").
ASSUME RowsAssumption ==
    \A r \in Ids : \A sets \in FileSets[r] :
        LET rows == UNION sets
            names == ModuleNames(rows)
        IN /\ IsFiniteSet(rows)
           /\ \A row \in rows : /\ row.type \in RowTypes
                               /\ row.name \in Seq(STRING) /\ row.path \in Seq(STRING)
                               /\ row.deps \subseteq ToSet(DepOrder)
           /\ \A row \in {x \in rows : x.type \in {"gomod", "go-package"}} :
                  /\ row.version.kind # "path"
                  /\ ".." \notin ToSet(row.name)
                  /\ \A d \in Used(row) : d.version.kind = "path" =>
                         LET user == match_parent_module(row.name, names)
                         IN /\ HasParent(row.name, names)
                            /\ ".." \notin ToSet(normpath(Module(rows, user).path \o d.version.parts))
                            /\ \/ HasParent(d.name, names)
                               \/ HasParent(normpath(user \o d.version.parts), names)
ASSUME NoFileAssumption == \A r \in Ids : \A sets \in FileSets[r] : UNION sets # NoFile

Endpoints == {"request", "manifest", "manifests", "sbom", "packages", "archive"}

VARIABLES
    files,     \* the files of the package managers, a set of sets of rows
    state,     \* of the requests
    packages,  \* packages.json of the requests
    archive,   \* requests with a bundle archive
    checksum,  \* requests with a checksum of it
    get,       \* the GET that is processed: endpoint, ids, what was seen of their states
    todo,      \* requests the GET still has to look at
    phase,     \* where it is
    found,     \* rows that it has read, by request
    status,    \* of its response; 0 while there is none
    disturbed  \* history: requests whose state or files changed during the GET

requestVars == <<files, state, packages, archive, checksum>>
getVars == <<get, todo, phase, found, status>>
vars == <<requestVars, getVars, disturbed>>

NoGet == [endpoint |-> "none", ids |-> {}, seen |-> [r \in Ids |-> "none"]]

-----------------------------------------------------------------------------
(* The life of a request *)

\* Mutation: a clash of packages is not noticed.
Blind(sets) == FALSE

\* aggregate_packages_data refuses a package that two package managers report.
Clashes(sets) == \E f, g \in sets : f # g /\ Clash(f, g)

\* process_fetched_sources: packages.json, the archive and its checksum.
ProcessFetchedSources(r) ==
    /\ state[r] = "in_progress" /\ packages[r] = NoFile
    /\ ~Clashes(files[r])
    /\ packages' = [packages EXCEPT ![r] = UNION files[r]]
    /\ archive' = archive \cup {r} /\ checksum' = checksum \cup {r}
    /\ disturbed' = disturbed \cup {r}
    /\ UNCHANGED <<files, state, getVars>>

Change(r, to) ==
    /\ state' = [state EXCEPT ![r] = to]
    /\ disturbed' = disturbed \cup {r}
    /\ UNCHANGED <<files, packages, archive, checksum, getVars>>

\* Mutation: complete before the files are there.
CompleteEarly(r) == state[r] = "in_progress" /\ Change(r, "complete")

Complete(r) == state[r] = "in_progress" /\ packages[r] # NoFile /\ Change(r, "complete")
FailRequest(r) == state[r] = "in_progress" /\ Clashes(files[r]) /\ Change(r, "failed")
Expire(r) == state[r] \in {"in_progress", "complete", "failed"} /\ Change(r, "stale")

\* patch_request of a stale request after its commit: three unlinks in this order.
DeleteFiles(r) ==
    /\ state[r] = "stale"
    /\ \/ /\ r \in archive
          /\ archive' = archive \ {r} /\ UNCHANGED <<checksum, packages>>
       \/ /\ r \notin archive /\ r \in checksum
          /\ checksum' = checksum \ {r} /\ UNCHANGED <<archive, packages>>
       \/ /\ r \notin archive \cup checksum /\ packages[r] # NoFile
          /\ packages' = [packages EXCEPT ![r] = NoFile] /\ UNCHANGED <<archive, checksum>>
    /\ disturbed' = disturbed \cup {r}
    /\ UNCHANGED <<files, state, getVars>>

-----------------------------------------------------------------------------
(* A GET *)

Several == {"manifests", "sbom"}

Respond(code) ==
    /\ status' = code /\ phase' = "answered"

\* The requests are loaded, each with its state.
Begin(endpoint, ids) ==
    /\ phase = "idle"
    /\ endpoint \notin Several => \E r \in Ids : ids = {r}
    /\ get' = [endpoint |-> endpoint, ids |-> ids, seen |-> state]
    /\ todo' = ids /\ phase' = "check" /\ found' = [r \in Ids |-> {}] /\ status' = 0
    /\ disturbed' = {}
    /\ UNCHANGED requestVars

\* The states in which an endpoint answers.
Valid(endpoint) ==
    CASE endpoint \in {"request", "packages"} -> {"in_progress", "complete", "failed", "stale"}
      [] endpoint = "manifest" -> {"complete", "stale"}
      [] endpoint \in Several \cup {"archive"} -> {"complete"}

\* Mutation: one valid request is enough.
SomeValid == \E r \in get.ids : get.seen[r] \in Valid(get.endpoint)

\* _check_requests_state and the checks of the other handlers, by the states loaded at first.
StatesAreValid == \A r \in get.ids : get.seen[r] \in Valid(get.endpoint)

CheckState ==
    /\ phase = "check"
    /\ IF StatesAreValid
       THEN phase' = "look" /\ UNCHANGED status
       ELSE Respond(400)
    /\ UNCHANGED <<requestVars, get, todo, found, disturbed>>

Now == CHOOSE r \in todo : \A q \in todo : r <= q

\* Mutation: one request more than there are.
ProceedOnce(r, rows) ==
    /\ found' = [found EXCEPT ![r] = rows]
    /\ todo' = todo \ {r}
    /\ IF todo = {} THEN Respond(200) ELSE phase' = "look" /\ UNCHANGED status

\* The next request, or the response.
Proceed(r, rows) ==
    /\ found' = [found EXCEPT ![r] = rows]
    /\ todo' = todo \ {r}
    /\ IF todo = {r} THEN Respond(200) ELSE phase' = "look" /\ UNCHANGED status

\* _is_complete: from the history of states, which is loaded only now.
IsComplete(r) == state[r] = "complete"

\* _get_packages_data: only a complete request has packages.
Look(r) ==
    /\ phase = "look" /\ r = Now
    /\ get.endpoint \in {"request", "manifest"} \cup Several
    /\ IF IsComplete(r)
       THEN phase' = "load" /\ UNCHANGED <<found, todo, status>>
       ELSE Proceed(r, {})
    /\ UNCHANGED <<requestVars, get, disturbed>>

\* PackagesData.load: without a file there are no packages.
Load(r) ==
    /\ phase = "load" /\ r = Now
    /\ Proceed(r, IF packages[r] = NoFile THEN {} ELSE packages[r])
    /\ UNCHANGED <<requestVars, get, disturbed>>

\* list_packages_and_dependencies: the file first, then the state.
ListPackages(r) ==
    /\ phase = "look" /\ get.endpoint = "packages" /\ r = Now
    /\ IF packages[r] # NoFile
       THEN phase' = "load" /\ UNCHANGED status
       ELSE Respond(IF get.seen[r] = "complete" THEN 500 ELSE 404)
    /\ UNCHANGED <<requestVars, get, todo, found, disturbed>>

\* download_archive: the archive is hashed, its checksum read, and the archive sent.
HashArchive(r) ==
    /\ phase = "look" /\ get.endpoint = "archive" /\ r = Now
    /\ IF r \in archive THEN phase' = "compare" /\ UNCHANGED status ELSE Respond(500)
    /\ UNCHANGED <<requestVars, get, todo, found, disturbed>>

ReadChecksum(r) ==
    /\ phase = "compare" /\ r = Now
    /\ IF r \in checksum THEN phase' = "send" /\ UNCHANGED status ELSE Respond(500)
    /\ UNCHANGED <<requestVars, get, todo, found, disturbed>>

SendArchive(r) ==
    /\ phase = "send" /\ r = Now
    /\ Respond(IF r \in archive THEN 200 ELSE 500)
    /\ UNCHANGED <<requestVars, get, todo, found, disturbed>>

\* The client is done with the response.
End ==
    /\ phase = "answered"
    /\ get' = NoGet /\ todo' = {} /\ phase' = "idle" /\ found' = [r \in Ids |-> {}]
    /\ status' = 0 /\ disturbed' = {}
    /\ UNCHANGED requestVars

Init ==
    /\ files \in [Ids -> UNION {FileSets[r] : r \in Ids}]
    /\ \A r \in Ids : files[r] \in FileSets[r]
    /\ state = [r \in Ids |-> "in_progress"]
    /\ packages = [r \in Ids |-> NoFile]
    /\ archive = {} /\ checksum = {}
    /\ get = NoGet /\ todo = {} /\ phase = "idle" /\ found = [r \in Ids |-> {}]
    /\ status = 0 /\ disturbed = {}

Next ==
    \/ \E r \in Ids :
         \/ ProcessFetchedSources(r) \/ Complete(r) \/ FailRequest(r) \/ Expire(r)
         \/ DeleteFiles(r)
         \/ Look(r) \/ Load(r) \/ ListPackages(r)
         \/ HashArchive(r) \/ ReadChecksum(r) \/ SendArchive(r)
    \/ \E endpoint \in Endpoints, ids \in (SUBSET Ids) \ {{}} : Begin(endpoint, ids)
    \/ CheckState \/ End

ReadsSpec == Init /\ [][Next]_vars

-----------------------------------------------------------------------------
(* Properties *)

\* All values are in their sets; a GET that is not answered looks at a request of its own.
ReadsTypeOK ==
    /\ state \in [Ids -> {"in_progress", "complete", "failed", "stale"}]
    /\ archive \subseteq Ids /\ checksum \subseteq Ids /\ disturbed \subseteq Ids
    /\ phase \in {"idle", "check", "look", "load", "compare", "send", "answered"}
    /\ status \in {0, 200, 400, 404, 500}
    /\ phase = "idle" <=> get = NoGet
    /\ phase = "answered" <=> status # 0
    /\ todo \subseteq get.ids
    /\ phase \in {"look", "load", "compare", "send"} => todo # {}

Answered(code) == phase = "answered" /\ status = code
Rows(r) == UNION files[r]

\* A client that asks for requests which stay complete while it is answered gets its answer:
\* no missing file, no checksum that is not there yet, no empty list of packages.
CompleteRequestsAreServed ==
    phase = "answered" /\ get.ids \cap disturbed = {}
    /\ (\A r \in get.ids : get.seen[r] = "complete") =>
        /\ status = 200
        /\ get.endpoint # "archive" => \A r \in get.ids : found[r] = Rows(r)

\* A manifest or SBOM of several requests has all packages of each of them, of none only a
\* part, and lacks only those that expired meanwhile.
CombinedAnswersAreWhole ==
    Answered(200) /\ get.endpoint \in Several =>
        \A r \in get.ids : found[r] = Rows(r) \/ (found[r] = {} /\ r \in disturbed)

\* packages.json has every package that a package manager reported, each under its own key.
PackagesAreAggregated ==
    \A r \in Ids : packages[r] # NoFile =>
        /\ packages[r] = Rows(r)
        /\ \A p, q \in packages[r] : PackageKey(p) = PackageKey(q) => p = q

\* The rows of a request at the moment they are aggregated.
Fresh == {r \in Ids : state[r] = "in_progress" /\ packages[r] # NoFile /\ phase = "idle"}

\* The list of all dependencies has each of them once, and is sorted.
EveryDependencyOnce ==
    \A r \in Fresh :
        LET listed == all_dependencies(packages[r])
        IN /\ ToSet(listed) = UNION {p.deps : p \in packages[r]}
           /\ \A i \in 1..(Len(listed) - 1) : Rank(listed[i]) < Rank(listed[i + 1])

\* Reference: the directory a Go purl leads to, in this repository.
Place(rows, purl) ==
    LET m == Module(rows, match_parent_module(purl.name, ModuleNames(rows)))
    IN m.path \o path_to_subpackage(m.name, purl.name) \o purl.sub

\* The modules have the names of their directories behind that of the repository.
RepositoryName(rows) ==
    LET m == CHOOSE m \in ModuleRows(rows) : TRUE
    IN SubSeq(m.name, 1, Len(m.name) - Len(m.path))
NamedByPath(rows) == \A m \in ModuleRows(rows) : m.name = RepositoryName(rows) \o m.path

\* The purl of a dependency that go.mod replaces by a directory leads to this directory, however
\* it came about: by its name, by its path, through another module of the request.  The code goes
\* by names: those of the modules are regular, and what is named like a directory of the request
\* is not replaced by another one.
LocalPurlsLeadToThePlace ==
    \A r \in {q \in Fresh : NamedByPath(packages[q])} : LET rows == packages[r] IN
        \A row \in rows : \A d \in Used(row) :
            row.type \in {"gomod", "go-package"} /\ d.version.kind = "path" =>
                LET m == Module(rows, match_parent_module(row.name, ModuleNames(rows)))
                    directory == normpath(m.path \o d.version.parts)
                    purl == DepPurl(rows, row, d, RepoOf[r], RefOf[r])
                IN (HasParent(d.name, ModuleNames(rows)) =>
                        d.name = RepositoryName(rows) \o directory) =>
                    /\ purl.type = "golang"
                    /\ HasParent(purl.name, ModuleNames(rows))
                    /\ Place(rows, purl) = directory

\* The content manifest and the SBOM of a request name the same sources: Go modules, which have
\* no entry of their own in the manifest, and their dependencies are the only ones it may lack.
ManifestAndSbomAgree ==
    \A r \in Fresh :
        LET rows == packages[r]
            icm == image_contents(rows, RepoOf[r], RefOf[r])
            named == UNION {{e.purl} \cup e.dependencies \cup e.sources : e \in icm}
            components == {c.purl : c \in sbom_components(rows, RepoOf[r], RefOf[r])}
            goPurls == {to_purl(m, <<>>) : m \in ModuleRows(rows)}
                         \cup UNION {DepPurls(rows, m, Used(m), RepoOf[r], RefOf[r]) :
                                        m \in ModuleRows(rows)}
        IN /\ named \subseteq components
           /\ components \subseteq named \cup goPurls
           /\ \A p \in components : p.type # "PARENT"

\* What a test says of the content manifest: a request that is stale has one, with its packages
\* (test_fetch_request_content_manifest_go).
StaleManifestsAreFull ==
    Answered(200) /\ get.endpoint = "manifest" =>
        \A r \in get.ids : packages[r] # NoFile => found[r] = Rows(r)

=============================================================================
