----------------------------- MODULE JsResolve -----------------------------
(***************************************************************************)
(* fetch_npm_source and fetch_yarn_source: the packages of a request are   *)
(* resolved one after the other.  For each, the lock file is read entry by *)
(* entry, dependencies that are not from the registry are put into Nexus,  *)
(* every requirement on them is rewritten, and what earlier packages have  *)
(* not downloaded yet is downloaded into the bundle.                       *)
(*                                                                         *)
(* A project is one package directory of a request: its lock file, the     *)
(* requirements of its package.json and, for npm, the workspaces and the   *)
(* file dependencies that are allowed.                                     *)
(***************************************************************************)
EXTENDS NpmLock, YarnLock

CONSTANT Requests  \* sequences of projects, of one package manager each

\* A requirement stands in the key of one entry.  Entries differ in their names or versions, and
\* Git dependencies and URLs also in their source.
IsYarnLock(lock) ==
    /\ IsFiniteSet(lock)
    /\ \A e \in lock :
         /\ e \in [key : SUBSET Requirements, name : STRING, source : Sources, version : STRING,
                   needs : SUBSET Requirements]
         /\ IsFiniteSet(e.needs) /\ e.version \notin Sources
         /\ \A w \in e.key : w[1] = e.name /\ w[2] = "declared"
    /\ \A e, f \in lock :
         /\ e.key \cap f.key # {} => e = f
         /\ e.name = f.name /\ e.source = f.source /\ (ExternalEntry(e) \/ e.version = f.version)
                => e = f

ASSUME RequestsAssumption ==
    \A r \in Requests :
        /\ r # <<>> /\ r \in Seq({r[i] : i \in DOMAIN r})
        /\ \A i \in DOMAIN r :
             \/ r[i].manager = "npm" /\ IsLock(r[i].lock)
             \/ /\ r[i].manager = "yarn" /\ IsYarnLock(r[i].lock)
                /\ IsFiniteSet(r[i].manifests) /\ \A m \in r[i].manifests : IsFiniteSet(m.deps)

VARIABLES
    request,   \* the projects
    current,   \* the number of the project in progress
    at,        \* npm: the position in the lock file
    want,      \* npm: what the requirements in the lock file ask for, by path and name
    deps,      \* dependencies of the project found so far
    skip,      \* downloaded_deps: what the finished projects have downloaded
    bundle,    \* tarballs in the bundle
    results,   \* of the finished projects
    task       \* "resolve", "download", "done" or "failed"

vars == <<request, current, at, want, deps, skip, bundle, results, task>>

Project == request[current]
ManagerOf(project) == project.manager

-----------------------------------------------------------------------------
(* npm *)

NoWants(lock) ==
    [e \in UNION {{<<p, n>> : n \in lock[p].needs} : p \in DOMAIN lock} |-> AsDeclared]

\* The root package.json after get_package_and_deps: top_level_replacements go by child name.
NpmManifest(project) ==
    LET lock == project.lock
        tops == {p \in Packages(lock) : /\ IsTopLevel(lock, p)
                                        /\ lock[p].source \in External}
    IN [n \in project.manifest |->
          IF \E p \in tops : ChildName(lock, p) = n
          THEN InNexus(lock, CHOOSE p \in tops : ChildName(lock, p) = n)
          ELSE AsDeclared]

\* Entries that _get_deps sees: not the root, not links.
Listed(lock, i) ==
    /\ PathOrder[i] \in Packages(lock)
    /\ PathOrder[i] # <<>>

\* vet_file_dependency: the path is that of a workspace, or the name is allowed.
FileIsAllowed(project, path) ==
    path \in project.workspaces \/ PackageName(project.lock, path) \in project.allowed

Refused(project, path) ==
    \/ project.lock[path].source = "file" /\ ~FileIsAllowed(project, path)
    \/ project.lock[path].source \in Unsupported

\* replace_dependency_version in every package that depends on this one.
Rewrite(lock, path, old) ==
    [e \in DOMAIN old |->
       IF e[1] \in Dependents(lock, path) /\ e[2] = ChildName(lock, path)
       THEN InNexus(lock, path) ELSE old[e]]

Fail ==
    /\ task' = "failed"
    /\ UNCHANGED <<request, current, at, want, deps, skip, bundle, results>>

\* One entry of the lock file (_get_deps).
ReadNpmEntry ==
    /\ task = "resolve" /\ ManagerOf(Project) = "npm"
    /\ at < Len(PathOrder)
    /\ LET lock == Project.lock
           path == PathOrder[at + 1]
       IN /\ Listed(lock, at + 1) => ~Refused(Project, path)
          /\ want' = IF Listed(lock, at + 1) /\ lock[path].source \in External
                     THEN Rewrite(lock, path, want) ELSE want
          /\ deps' = IF Listed(lock, at + 1) THEN AddDep(deps, Reported(lock, path)) ELSE deps
    /\ at' = at + 1
    /\ UNCHANGED <<request, current, skip, bundle, results, task>>

\* An entry from a place that is not supported, or a file dependency that is not allowed.
RefuseNpmEntry ==
    /\ task = "resolve" /\ ManagerOf(Project) = "npm"
    /\ at < Len(PathOrder) /\ Listed(Project.lock, at + 1)
    /\ Refused(Project, PathOrder[at + 1])
    /\ Fail

\* An external dependency that cannot be cloned, verified, packed or found again in Nexus.
ConversionFails ==
    /\ task = "resolve"
    /\ IF ManagerOf(Project) = "npm"
       THEN /\ at < Len(PathOrder) /\ Listed(Project.lock, at + 1)
            /\ Project.lock[PathOrder[at + 1]].source \in External
       ELSE \E e \in Project.lock : ExternalEntry(e)
    /\ Fail

NpmLockIsRead ==
    /\ task = "resolve" /\ ManagerOf(Project) = "npm"
    /\ at = Len(PathOrder)
    /\ task' = "download"
    /\ UNCHANGED <<request, current, at, want, deps, skip, bundle, results>>

-----------------------------------------------------------------------------
(* yarn *)

\* yarn.lock as a whole; the entries do not depend on each other.
ReadYarnLock ==
    /\ task = "resolve" /\ ManagerOf(Project) = "yarn"
    /\ \A e \in Project.lock :
         /\ e.source \notin Unsupported
         /\ e.source = "file" => e.name \in Project.workspaces \cup Project.allowed
    /\ deps' = YarnDeps(Project.lock, Project.manifests, Project.workspaces)
    /\ task' = "download"
    /\ UNCHANGED <<request, current, at, want, skip, bundle, results>>

RefuseYarnLock ==
    /\ task = "resolve" /\ ManagerOf(Project) = "yarn"
    /\ \E e \in Project.lock :
         \/ e.source \in Unsupported
         \/ e.source = "file" /\ e.name \notin Project.workspaces \cup Project.allowed
    /\ Fail

-----------------------------------------------------------------------------
(* Downloads *)

\* The version that is downloaded: an external dependency has one in Nexus.
Identifier(dep) == <<dep.name, dep.version>>

\* Mutation: a package that was downloaded in another version is not downloaded.
ByName(found, already) ==
    {Identifier(d) : d \in {d \in found : /\ ~d.bundled /\ d.version # "file"
                                          /\ \A a \in already : a[1] # d.name}}

\* download_dependencies: all but bundled ones, files and what was downloaded before.
ToDownload(found, already) ==
    {Identifier(d) : d \in {d \in found : ~d.bundled /\ d.version # "file"}} \ already

\* The files that are returned; for npm only if they changed.
Result(project) ==
    IF ManagerOf(project) = "npm"
    THEN [deps |-> deps, lock |-> want, manifest |-> NpmManifest(project)]
    ELSE [deps |-> deps, lock |-> {NewEntry(project.lock, e) : e \in project.lock},
          manifest |-> NewManifest(project.lock, project.manifest)]

\* Mutation: everything found is taken for downloaded.
SkipFound(downloads) == skip \cup {Identifier(d) : d \in deps}

SkipAlso(downloads) == skip \cup downloads

\* All downloads at once, then the next project or the end of the task.
Download ==
    /\ task = "download"
    /\ LET downloads == ToDownload(deps, skip)
       IN /\ bundle' = bundle \cup downloads
          /\ skip' = SkipAlso(downloads)
    /\ results' = Append(results, Result(Project))
    /\ deps' = {} /\ at' = 0
    /\ IF current < Len(request)
       THEN /\ current' = current + 1
            /\ want' = IF ManagerOf(request[current + 1]) = "npm"
                       THEN NoWants(request[current + 1].lock) ELSE <<>>
            /\ task' = "resolve"
       ELSE /\ task' = "done" /\ want' = <<>>
            /\ UNCHANGED current
    /\ UNCHANGED request

\* get_dependencies raises the first error; the others may have been downloaded.  For yarn, a
\* package may also not be found afterwards (_set_proxy_resolved_urls).
DownloadFails ==
    /\ task = "download"
    /\ LET downloads == ToDownload(deps, skip)
       IN \E some \in SUBSET downloads :
            /\ some = downloads => ManagerOf(Project) = "yarn"
            /\ bundle' = bundle \cup some
    /\ task' = "failed"
    /\ UNCHANGED <<request, current, at, want, deps, skip, results>>

Init ==
    /\ request \in Requests
    /\ current = 1 /\ at = 0
    /\ want = IF ManagerOf(request[1]) = "npm" THEN NoWants(request[1].lock) ELSE <<>>
    /\ deps = {} /\ skip = {} /\ bundle = {}
    /\ results = <<>>
    /\ task = "resolve"

Next == \/ ReadNpmEntry \/ RefuseNpmEntry \/ ConversionFails \/ NpmLockIsRead
        \/ ReadYarnLock \/ RefuseYarnLock
        \/ Download \/ DownloadFails

JsSpec == Init /\ [][Next]_vars
-----------------------------------------------------------------------------
(* Properties *)

\* Reference: where Node finds a package, in the nearest of the node_modules directories that
\* are beside a directory or above it.
NodeFinds(lock, dir, name) ==
    LET In(k) == SubSeq(dir, 1, k) \o <<NM, name>>
        found == {k \in 0..Len(dir) : (k = 0 \/ dir[k] # NM) /\ In(k) \in DOMAIN lock}
    IN IF found = {} THEN NoPath
       ELSE Target(lock, In(CHOOSE k \in found : \A j \in found : j <= k))

\* What a requirement must ask for, by the directory it is made in.
MustAsk(lock, dir, name) ==
    LET found == NodeFinds(lock, dir, name)
    IN IF found # NoPath /\ lock[found].source \in External
       THEN InNexus(lock, found) ELSE AsDeclared

Finished(manager) ==
    {i \in DOMAIN results : ManagerOf(request[i]) = manager}

\* All values are in their sets; what is skipped is in the bundle, and the results are those of
\* the projects before the current one.
JsTypeOK ==
    /\ task \in {"resolve", "download", "done", "failed"}
    /\ current \in DOMAIN request
    /\ at \in 0..Len(PathOrder)
    /\ skip \subseteq bundle
    /\ Len(results) = IF task = "done" THEN current ELSE current - 1
    /\ \A d \in deps : d.bundled \in BOOLEAN /\ d.dev \in BOOLEAN

\* After an npm lock file is resolved, every requirement in it and in package.json asks for the
\* version in Nexus exactly if Node, looking upwards through the node_modules directories, finds
\* an external dependency for it: npm takes neither file for outdated.  Lock files in which a
\* package takes the place of another in the tree, because a directory has its name, are left out.
NpmLockAgrees ==
    \A i \in {i \in Finished("npm") : NamesAreApart(request[i].lock)} :
        LET lock == request[i].lock
        IN /\ \A e \in DOMAIN results[i].lock :
                e[1] \in Packages(lock) => results[i].lock[e] = MustAsk(lock, e[1], e[2])
           /\ \A n \in request[i].manifest : results[i].manifest[n] = MustAsk(lock, <<>>, n)

\* After a yarn.lock is resolved, every requirement of package.json and of an entry that an entry
\* met before is met by the new form of the same entry, and by no other.
YarnLockAgrees ==
    \A i \in Finished("yarn") :
        LET lock == request[i].lock
            new == results[i].lock
            FollowsTo(want1, want2) ==
                \A e \in EntryOf(lock, want1) :
                    EntryOf(new, want2) = {f \in new : f.name = e.name /\ f.version = e.version
                                                       /\ f.source = e.source}
        IN /\ \A w \in request[i].manifest.deps : \E v \in results[i].manifest.deps : FollowsTo(w, v)
           /\ \A w \in request[i].manifest.dev : \E v \in results[i].manifest.dev : FollowsTo(w, v)
           /\ \A e \in lock : \E f \in new :
                /\ f.name = e.name /\ f.version = e.version
                /\ \A w \in e.needs : \E v \in f.needs : v[1] = w[1] /\ FollowsTo(w, v)

\* A dependency is for development only if all its copies in the lock file are, or for yarn if
\* no set of entries closed under requirements that holds the runtime dependencies can do
\* without it.
DevMeansNotNeeded ==
    /\ \A i \in Finished("npm") : \A d \in results[i].deps :
         d.dev <=> LET lock == request[i].lock
                   IN \A p \in Packages(lock) \ {<<>>} :
                        SamePackage(d, Reported(lock, p)) => lock[p].dev
    /\ \A i \in Finished("yarn") : \A e \in request[i].lock :
         LET lock == request[i].lock
             roots == UNION {m.deps : m \in request[i].manifests}
             closed == {s \in SUBSET lock :
                          /\ \A w \in roots : EntryOf(lock, w) \subseteq s
                          /\ \A f \in s : \A w \in f.needs : EntryOf(lock, w) \subseteq s}
         IN \E d \in results[i].deps :
              /\ d.name = e.name
              /\ d.version = IF e.source = "registry" THEN e.version ELSE e.source
              /\ e.source # "file" => (d.dev <=> \E s \in closed : e \notin s)

\* When the task is done the bundle has every package of every lock file that no other package
\* bundles and that is not in the source, also those that an earlier project downloaded.
BundleServesEveryProject ==
    task = "done" =>
        \A i \in DOMAIN request :
            LET lock == request[i].lock
            IN IF ManagerOf(request[i]) = "npm"
               THEN \A p \in Packages(lock) \ {<<>>} :
                      lock[p].source \notin {"bundled", "file"} =>
                          <<PackageName(lock, p), ReportedVersion(lock[p])>> \in bundle
               ELSE \A e \in lock :
                      e.source # "file" =>
                          <<e.name, IF e.source = "registry" THEN e.version ELSE e.source>>
                              \in bundle

=============================================================================
