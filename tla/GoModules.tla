----------------------------- MODULE GoModules -----------------------------
(***************************************************************************)
(* fetch_gomod_source: the Go modules of a request are resolved one after  *)
(* the other, each with the go command in a temporary cache, and merged    *)
(* into one module cache in the bundle of the request.  The worker may die *)
(* anywhere; the broker then delivers the task again, and what the dead    *)
(* worker left in the source tree and in the bundle is still there.        *)
(***************************************************************************)
EXTENDS GoNames

CONSTANTS
    Dirs,          \* directories of the repository that can be asked for
    Versions,      \* the modules, each in a version, that come from the proxy
    Repositories,  \* what a repository may hold: [Dirs -> Module]
    TagSets,       \* the version tags it may have
    Asks,          \* what a request may ask for
    IgnoreMissing, \* cachito_gomod_ignore_missing_gomod_file
    Strict,        \* cachito_gomod_strict_vendor
    MaxTries,      \* cachito_gomod_download_max_tries
    NoVersion,     \* no version of a module
    MaxFailures,   \* bound: commands that fail
    MaxDeaths      \* bound: workers that die

Flags == {"none", "vendor", "check"}  \* gomod-vendor, gomod-vendor-check
VendorDirs == {"absent", "good", "stale files", "stale list"}

ASSUME MaxTriesAssumption == MaxTries \in Nat \ {0}
ASSUME BoundsAssumption == MaxFailures \in Nat /\ MaxDeaths \in Nat
ASSUME NoVersionAssumption == NoVersion \notin Versions
ASSUME ConfigAssumption == IgnoreMissing \in BOOLEAN /\ Strict \in BOOLEAN
ASSUME AsksAssumption ==
    /\ Asks \subseteq [paths : Seq(Dirs), flag : Flags, tidy : BOOLEAN, replaced : BOOLEAN]
    /\ \A a \in Asks : a.paths # <<>>
ASSUME RepositoriesAssumption ==
    \A r \in Repositories : \A d \in Dirs : r[d].vendor \in VendorDirs /\ r[d].major \in Nat

\* What go list prints: every package that is imported, each in one of the modules that are
\* reported as dependencies (go_list_deps "all" lists more than "./...") and named after it.
ASSUME ListingsAssumption ==
    \A r \in Repositories : \A d \in Dirs :
        /\ IsFiniteSet(r[d].needs) /\ IsFiniteSet(r[d].workspaces)
        /\ r[d].packages \in Seq(ToSet(r[d].packages))
        /\ \A m \in r[d].needs : /\ m.path \in Seq(STRING) /\ m.replace.path \in Seq(STRING)
                                /\ m.version.kind # "path"
        /\ \A w \in r[d].workspaces : w \in Seq(STRING)
        /\ \A p \in ToSet(r[d].packages) :
               /\ p.name \in Seq(STRING) /\ ".." \notin ToSet(p.name)
               /\ ~p.standard /\ ~p.main =>
                      p.module \in r[d].needs /\ contains_package(p.module.path, p.name)

\* It prints every package once, after all packages that it depends on, directly or not ("Deps").
ASSUME OrderAssumption ==
    \A r \in Repositories : \A d \in Dirs :
        LET pkgs == r[d].packages IN
        \A i \in DOMAIN pkgs :
            /\ \A j \in 1..(i - 1) : pkgs[j].name # pkgs[i].name
            /\ \A n \in pkgs[i].deps :
                   \E j \in 1..(i - 1) : pkgs[j].name = n /\ pkgs[j].deps \subseteq pkgs[i].deps

\* A version is <<major, minor, patch, prerelease, suffix>>: prerelease 9 is a release, 0 the
\* "-0." of a pseudo-version, suffix 1 the commit at the end of a pseudo-version.
TagVersions == Nat \X Nat \X Nat \X (1..9) \X {0}
ASSUME TagsAssumption ==
    \A T \in TagSets : /\ IsFiniteSet(T)
                       /\ T \subseteq [dir : Dirs, v : TagVersions,
                                       at : {"before", "commit", "after"}]

VARIABLES
    repo, tags, ask,  \* the repository and the request
    step, pos, tries, \* where the task is: in the module number pos
    gopath,           \* modules in the temporary cache
    mayChange,        \* _should_vendor_deps: changes in the vendor directory are allowed
    edited,           \* directories where go.mod was edited
    vendor,           \* the vendor directories of the source tree
    staged,           \* directories with intent-to-add entries in the Git index
    cache,            \* the files of the modules in the bundle
    copying,          \* the module whose file is being copied
    listed,           \* the modules that the "list" files in the bundle name
    version,          \* versions of the modules of the request
    packages,         \* rows added so far
    written,          \* rows in the packages file
    failures, deaths,
    broken            \* history: the command that failed last

inputVars == <<repo, tags, ask>>
treeVars == <<edited, vendor, staged>>
bundleVars == <<cache, listed>>
rowVars == <<packages, written>>
faultVars == <<failures, deaths, broken>>
vars == <<inputVars, step, pos, tries, gopath, mayChange, treeVars, bundleVars, copying,
          version, rowVars, faultVars>>

-----------------------------------------------------------------------------
(* Names and versions *)

\* _get_name_and_version: a replacement by a version has another name, one by a path has not.
NameAndVersion(mod) ==
    IF mod.replace.path = <<>>
    THEN [name |-> mod.path, version |-> mod.version]
    ELSE IF mod.replace.version.kind = "release"
         THEN [name |-> mod.replace.path, version |-> mod.replace.version]
         ELSE [name |-> mod.path, version |-> IF mod.replace.absolute
                                              THEN AbsolutePath(mod.replace.path)
                                              ELSE Path(mod.replace.path)]

ReplacedByPath(mod) == NameAndVersion(mod).version.kind = "path"

\* go list says where the package of a module is that is replaced by a directory.
ASSUME DirectoriesAssumption ==
    \A r \in Repositories : \A d \in Dirs : \A p \in ToSet(r[d].packages) :
        ~p.standard /\ ~p.main /\ ReplacedByPath(p.module) =>
            p.dir = normpath(d \o (p.module.replace.path \o path_to_subpackage(p.module.path, p.name)))

-----------------------------------------------------------------------------
(* Toolchains and versions *)

\* The minor version that decides; 20 stands for a missing line.
GoLine(mod) == IF mod.go = 0 THEN 20 ELSE mod.go
TargetGo(mod) ==
    IF mod.toolchain > GoLine(mod) THEN mod.toolchain ELSE GoLine(mod)

Supported(mod) == TargetGo(mod) <= 23

\* The order of versions.
Less(v, w) == \E i \in 1..5 : v[i] < w[i] /\ \A j \in 1..(i - 1) : v[j] = w[j]

HighestTag(found) == CHOOSE t \in found : \A u \in found : ~Less(t.v, u.v)

\* Mutation: the patch level stays.
SamePatch(v) ==
    IF v[4] < 9 THEN <<v[1], v[2], v[3], v[4], 1>> ELSE <<v[1], v[2], v[3], 0, 1>>

\* _get_golang_pseudo_version after a tag.
PseudoVersion(v) ==
    IF v[4] < 9 THEN <<v[1], v[2], v[3], v[4], 1>> ELSE <<v[1], v[2], v[3] + 1, 0, 1>>

Preferred(majors) == CHOOSE n \in majors : \A m \in majors : m <= n

\* get_golang_version: the tags on the commit first, then those before it; v1 before v0.
GolangVersion(dir, major) ==
    LET majors == IF major # 0 THEN {major} ELSE {0, 1}
        Found(where, n) == {t \in tags : t.dir = dir /\ t.at \in where /\ t.v[1] = n}
        on == {n \in majors : Found({"commit"}, n) # {}}
        before == {n \in majors : Found({"commit", "before"}, n) # {}}
    IN IF on # {} THEN HighestTag(Found({"commit"}, Preferred(on))).v
       ELSE IF before # {}
            THEN PseudoVersion(HighestTag(Found({"commit", "before"}, Preferred(before))).v)
            ELSE <<major, 0, 0, 0, 1>>

-----------------------------------------------------------------------------
(* What is reported for a module *)

\* _deduplicate_to_gomod_dicts: every name and version once, the other modules of a workspace too.
Deps(mod) == {NameAndVersion(m) : m \in mod.needs}
                 \cup {[name |-> w, version |-> MainVersion] : w \in mod.workspaces}

\* The packages of go list -deps, which lists a package after its dependencies.
Info(mod, name) == mod.packages[CHOOSE i \in DOMAIN mod.packages : mod.packages[i].name = name]

\* Mutation: in the order of the listing.
ForwardTop(mod) ==
    LET pkgs == mod.packages
        main_packages_deps[i \in 0..Len(pkgs)] ==
            IF i = 0 THEN {}
            ELSE main_packages_deps[i - 1] \cup
                     IF pkgs[i].main /\ pkgs[i].name \notin main_packages_deps[i - 1]
                     THEN pkgs[i].deps ELSE {}
    IN {pkgs[i].name : i \in {j \in DOMAIN pkgs :
            pkgs[j].main /\ pkgs[j].name \notin main_packages_deps[j - 1]}}

\* From the end of the listing: the packages that none of those taken before depends on.
TopPackages(mod) ==
    LET pkgs == mod.packages
        main_packages_deps[i \in 1..(Len(pkgs) + 1)] ==
            IF i > Len(pkgs) THEN {}
            ELSE main_packages_deps[i + 1] \cup
                     IF pkgs[i].main /\ pkgs[i].name \notin main_packages_deps[i + 1]
                     THEN pkgs[i].deps ELSE {}
    IN {pkgs[i].name : i \in {j \in DOMAIN pkgs :
            pkgs[j].main /\ pkgs[j].name \notin main_packages_deps[j + 1]}}

\* _set_full_local_dep_relpaths: from the module on to the package in it.
FullVersion(mod, name, v) ==
    LET local == {d.name : d \in {x \in Deps(mod) : x.version.kind = "path"}}
    IN IF v.kind # "path" THEN v
       ELSE Path(v.parts \o path_to_subpackage(match_parent_module(name, local), name))

PackageVersion(p) ==
    IF p.standard THEN NoneVersion
    ELSE IF p.main THEN MainVersion ELSE NameAndVersion(p.module).version

PackageDep(mod, name) ==
    [name |-> name, version |-> FullVersion(mod, name, PackageVersion(Info(mod, name)))]

Row(type, name, v, path, deps) ==
    [type |-> type, name |-> name, version |-> v, path |-> path, deps |-> deps]

ModuleRow(dir, mod) == Row("gomod", mod.name, version[dir], dir, Deps(mod))
PackageRow(dir, mod, name) ==
    Row("go-package", name, version[dir], dir \o path_to_subpackage(mod.name, name),
        {PackageDep(mod, d) : d \in Info(mod, name).deps})

\* add_package refuses a second package of the same name, type and version.
SameKey(r, s) == r.type = s.type /\ r.name = s.name /\ r.version = s.version

\* _vet_local_file_dep_paths, before the paths are completed.
LocalPathsAreFine(dir, mod) ==
    \A d \in Deps(mod) :
        /\ d.version.kind # "absolute"
        /\ d.version.kind = "path" => ".." \notin ToSet(normpath(dir \o d.version.parts))

\* _fail_if_parent_replacement_not_included, by names.
ParentsAreIncluded(rows) ==
    LET modules == {r.name : r \in {x \in rows : x.type = "gomod"}}
    IN \A r \in rows : \A d \in r.deps :
           d.version.kind = "path" /\ ".." \in ToSet(d.version.parts) =>
               \/ HasParent(d.name, modules)
               \/ HasParent(normpath(match_parent_module(r.name, modules) \o d.version.parts),
                            modules)

-----------------------------------------------------------------------------
(* The task *)

\* The module that is being processed.
here == ask.paths[pos]
this == repo[here]
Vendoring == ask.flag # "none"
Needed(m) == {x.id : x \in m.needs} \cap Versions

GoModInit ==
    /\ repo \in Repositories /\ tags \in TagSets /\ ask \in Asks
    /\ step = "check" /\ pos = 1 /\ tries = 0
    /\ gopath = {} /\ mayChange = FALSE
    /\ edited = {} /\ staged = {}
    /\ vendor = [d \in Dirs |-> repo[d].vendor]
    /\ cache = [v \in Versions |-> "absent"] /\ listed = {} /\ copying = NoVersion
    /\ version = [d \in Dirs |-> NoVersion]
    /\ packages = {} /\ written = {}
    /\ failures = 0 /\ deaths = 0 /\ broken = ""

\* After the dependencies are there.
AfterFetch ==
    IF ask.tidy \/ ask.replaced THEN "tidy" ELSE IF Vendoring THEN "list" ELSE "merge"

Goto(s) == step' = s /\ tries' = 0 /\ UNCHANGED <<inputVars, faultVars>>
At(s) == step = s

\* The go.mod files, then the replacements, before anything is done.
Check ==
    /\ At("check")
    /\ LET missing == {d \in ToSet(ask.paths) : ~repo[d].present}
       IN Goto(IF missing # {} THEN IF IgnoreMissing /\ Len(ask.paths) = 1
                                    THEN "skipped" ELSE "failed"
               ELSE IF Len(ask.paths) > 1 /\ ask.replaced THEN "failed" ELSE "edit")
    /\ UNCHANGED <<pos, gopath, mayChange, treeVars, bundleVars, copying, version, rowVars>>

\* The toolchain and the go mod edit commands, in an empty temporary cache.
Edit ==
    /\ At("edit")
    /\ gopath' = {}
    /\ IF Supported(this)
       THEN /\ edited' = IF ask.replaced THEN edited \cup {here} ELSE edited
            /\ Goto("decide")
       ELSE Goto("failed") /\ UNCHANGED edited
    /\ UNCHANGED <<pos, mayChange, vendor, staged, bundleVars, copying, version, rowVars>>

\* _should_vendor_deps and _vet_workspace_vendoring.
Decide ==
    /\ At("decide")
    /\ mayChange' = (ask.flag = "vendor" \/ (ask.flag = "check" /\ vendor[here] = "absent"))
    /\ Goto(IF Vendoring
            THEN IF this.workspacevendor THEN "failed" ELSE "vendor"
            ELSE IF Strict /\ vendor[here] # "absent" THEN "failed" ELSE "download")
    /\ UNCHANGED <<pos, gopath, treeVars, bundleVars, copying, version, rowVars>>

Vendor ==
    /\ At("vendor")
    /\ vendor' = [vendor EXCEPT ![here] = "good"]
    /\ Goto(IF mayChange THEN AfterFetch ELSE "stage")
    /\ UNCHANGED <<pos, gopath, mayChange, edited, staged, bundleVars, copying, version, rowVars>>

\* _vendor_changed: git add --intent-to-add, so that git diff sees new files.
Stage ==
    /\ At("stage")
    /\ staged' = staged \cup {here}
    /\ Goto("compare")
    /\ UNCHANGED <<pos, gopath, mayChange, edited, vendor, bundleVars, copying, version, rowVars>>

\* Mutation: only modules.txt is compared.
ListChanged(d) == repo[d].vendor \in {"absent", "stale list"} \/ d \in edited

\* modules.txt, then the names of all files.  Replacements change what is vendored.
VendorChanged(d) ==
    \/ repo[d].vendor \in {"absent", "stale list"} \/ d \in edited
    \/ repo[d].vendor = "stale files"

\* The index is reset whatever the comparison says.
Compare ==
    /\ At("compare")
    /\ staged' = staged \ {here}
    /\ Goto(IF VendorChanged(here) THEN "failed" ELSE AfterFetch)
    /\ UNCHANGED <<pos, gopath, mayChange, edited, vendor, bundleVars, copying, version, rowVars>>

Download ==
    /\ At("download")
    /\ gopath' = Needed(this)
    /\ Goto(AfterFetch)
    /\ UNCHANGED <<pos, mayChange, treeVars, bundleVars, copying, version, rowVars>>

\* go mod tidy when it is asked for or dependencies were replaced.
Tidy ==
    /\ At("tidy")
    /\ Goto(IF Vendoring THEN "list" ELSE "merge")
    /\ UNCHANGED <<pos, gopath, mayChange, treeVars, bundleVars, copying, version, rowVars>>

\* _merge_bundle_dirs: a file that is there is kept.
CopyBegins(v) ==
    /\ At("merge") /\ copying = NoVersion
    /\ v \in gopath /\ cache[v] = "absent"
    /\ cache' = [cache EXCEPT ![v] = "part"]
    /\ copying' = v
    /\ UNCHANGED <<inputVars, step, pos, tries, gopath, mayChange, treeVars, listed, version,
                   rowVars, faultVars>>

CopyEnds ==
    /\ copying # NoVersion
    /\ cache' = [cache EXCEPT ![copying] = "whole"]
    /\ copying' = NoVersion
    /\ UNCHANGED <<inputVars, step, pos, tries, gopath, mayChange, treeVars, listed, version,
                   rowVars, faultVars>>

\* Mutation: the list file is kept or replaced like any other file.
ReplaceList ==
    /\ At("merge") /\ copying = NoVersion
    /\ \A v \in gopath : cache[v] # "absent"
    /\ listed' = gopath
    /\ Goto("list")
    /\ UNCHANGED <<pos, gopath, mayChange, treeVars, cache, copying, version, rowVars>>

\* The "list" files are merged line by line.
MergeList ==
    /\ At("merge") /\ copying = NoVersion
    /\ \A v \in gopath : cache[v] # "absent"
    /\ listed' = listed \cup gopath
    /\ Goto("list")
    /\ UNCHANGED <<pos, gopath, mayChange, treeVars, cache, copying, version, rowVars>>

\* The module, its dependencies and its packages, with their versions.
List ==
    /\ At("list")
    /\ version' = [version EXCEPT ![here] = GolangVersion(here, this.major)]
    /\ Goto(IF LocalPathsAreFine(here, this) THEN "add" ELSE "failed")
    /\ UNCHANGED <<pos, gopath, mayChange, treeVars, bundleVars, copying, rowVars>>

NewRows == {ModuleRow(here, this)} \cup {PackageRow(here, this, p) : p \in TopPackages(this)}

\* Mutation: the position moves on after the last module too.
AddPastTheEnd ==
    /\ At("add")
    /\ packages' = packages \cup NewRows
    /\ pos' = pos + 1
    /\ Goto(IF pos < Len(ask.paths) THEN "edit" ELSE "write")
    /\ UNCHANGED <<gopath, mayChange, treeVars, bundleVars, copying, version, written>>

\* add_package for the module and each of its top packages.
Add ==
    /\ At("add")
    /\ IF \E r \in packages, s \in NewRows : SameKey(r, s)
       THEN Goto("failed") /\ UNCHANGED <<pos, packages>>
       ELSE /\ packages' = packages \cup NewRows
            /\ IF pos < Len(ask.paths) THEN pos' = pos + 1 /\ Goto("edit")
               ELSE UNCHANGED pos /\ Goto("write")
    /\ UNCHANGED <<gopath, mayChange, treeVars, bundleVars, copying, version, written>>

Write ==
    /\ At("write")
    /\ IF ParentsAreIncluded(packages)
       THEN written' = packages /\ Goto("done")
       ELSE Goto("failed") /\ UNCHANGED written
    /\ UNCHANGED <<pos, gopath, mayChange, treeVars, bundleVars, copying, version, packages>>

Commands == {"vendor", "download", "tidy", "list"}

\* Mutation: the downloads are not repeated.
FailAtOnce ==
    /\ step \in Commands /\ failures < MaxFailures
    /\ failures' = failures + 1 /\ broken' = step
    /\ step' = "failed" /\ UNCHANGED tries
    /\ UNCHANGED <<inputVars, pos, gopath, mayChange, treeVars, bundleVars, copying, version,
                   rowVars, deaths>>

\* A go command fails.  Only go mod download is repeated; a part may have been downloaded.
CommandFails ==
    /\ step \in Commands /\ failures < MaxFailures
    /\ failures' = failures + 1 /\ broken' = step
    /\ IF At("download") /\ tries + 1 < MaxTries
       THEN tries' = tries + 1 /\ UNCHANGED step
       ELSE step' = "failed" /\ UNCHANGED tries
    /\ UNCHANGED <<inputVars, pos, gopath, mayChange, treeVars, bundleVars, copying, version,
                   rowVars, deaths>>

Running == step \notin {"done", "failed", "skipped"}

\* The worker dies and the task starts again.  A list file that was being written may have
\* lost lines.
WorkerDies ==
    /\ Running /\ deaths < MaxDeaths
    /\ deaths' = deaths + 1
    /\ step' = "check" /\ pos' = 1 /\ tries' = 0
    /\ copying' = NoVersion
    /\ gopath' = {} /\ packages' = {}
    /\ listed' \in IF At("merge") /\ copying = NoVersion
                   THEN SUBSET (listed \cup gopath) ELSE {listed}
    /\ UNCHANGED <<inputVars, mayChange, treeVars, cache, version, written, failures, broken>>

GoModNext ==
    \/ Check \/ Edit \/ Decide \/ Vendor \/ Stage \/ Compare \/ Download \/ Tidy
    \/ \E v \in Versions : CopyBegins(v)
    \/ CopyEnds \/ MergeList \/ List \/ Add \/ Write
    \/ CommandFails \/ WorkerDies

GoModSpec == GoModInit /\ [][GoModNext]_vars

-----------------------------------------------------------------------------
(* Properties *)

GoModTypeOK ==
    /\ repo \in Repositories /\ tags \in TagSets /\ ask \in Asks
    /\ step \in {"check", "edit", "decide", "vendor", "stage", "compare", "download", "tidy",
                 "merge", "list", "add", "write", "done", "failed", "skipped"}
    /\ pos \in DOMAIN ask.paths
    /\ tries \in 0..(MaxTries - 1)
    /\ gopath \subseteq Versions
    /\ mayChange \in BOOLEAN
    /\ edited \subseteq Dirs /\ staged \subseteq Dirs
    /\ vendor \in [Dirs -> VendorDirs]
    /\ cache \in [Versions -> {"absent", "part", "whole"}]
    /\ copying \in Versions \cup {NoVersion}
    /\ listed \subseteq Versions
    /\ failures \in 0..MaxFailures /\ deaths \in 0..MaxDeaths

Asked == {ask.paths[i] : i \in DOMAIN ask.paths}
Done == step = "done"

\* The module cache serves every module of the request: whatever was merged first, and
\* after a restart in the middle of a merge, each needed version has its files and is in
\* the list file of its module.  With vendoring the cache is empty (README, "gomod
\* vendoring").
CacheServesEveryModule ==
    /\ Done /\ ~Vendoring => \A d \in Asked : \A v \in Needed(repo[d]) :
                                cache[v] # "absent" /\ v \in listed
    /\ Vendoring => \A v \in Versions : cache[v] = "absent"

\* Needed by the bundle, "overwriting any files that might already be present"
\* (_merge_bundle_dirs): no file of the cache is a part that a dead worker left.
CacheIsWhole == Done => \A v \in Versions : cache[v] # "part"

\* With gomod-vendor-check a request that succeeds delivers the vendor directories of the
\* commit where there are any, and an execution that ends in an orderly way leaves nothing
\* in the Git index, also when the comparison fails (_vendor_changed, "finally").
VendoringIsChecked ==
    /\ Done /\ ask.flag = "check" =>
           \A d \in Asked : repo[d].vendor # "absent" => vendor[d] = repo[d].vendor
    /\ Done \/ (step = "failed" /\ deaths = 0) => staged = {}

\* The version of a module sorts after every tag of its major version that the commit
\* contains, and, unless the commit has a tag, before each later tag that is greater than
\* those: the order of Go's pseudo-versions.
VersionsSortBetweenTags ==
    \A d \in Dirs : version[d] # NoVersion =>
        LET mine == {t \in tags : t.dir = d /\ t.v[1] = version[d][1]}
            contained == {t \in mine : t.at # "after"}
        IN /\ \A t \in contained : ~Less(version[d], t.v) \/ \E u \in mine : /\ u.at = "commit"
                                                                         /\ u.v = version[d]
           /\ \A t \in mine \ contained :
                  (\A u \in contained : Less(u.v, t.v) /\ u.at # "commit") => Less(version[d], t.v)

\* The module of the request that a package belongs to, by name (README, "Go package level
\* dependencies").
Reporter(name) ==
    CHOOSE d \in Asked :
        repo[d].name = match_parent_module(name, {repo[x].name : x \in Asked})

\* The packages that the listing of a module has of its workspace, and those of them that none of
\* the others depends on.
OwnPackages(mod) == {p \in ToSet(mod.packages) : p.main}
Roots(mod) == {p \in OwnPackages(mod) : \A q \in OwnPackages(mod) : p.name \notin q.deps}

\* The rows of packages are those of the roots of each module, no other one, and with their
\* dependencies they have all packages of the module: what resolve_gomod leaves out "is already
\* listed as a dependency".
PackagesAreReported ==
    LET rows == {r \in written : r.type = "go-package"}
    IN Done =>
        /\ rows = UNION {{PackageRow(d, repo[d], p.name) : p \in Roots(repo[d])} : d \in Asked}
        /\ \A d \in Asked : \A p \in OwnPackages(repo[d]) :
               \E r \in rows : /\ r.version = version[d]
                               /\ p.name = r.name \/ \E x \in r.deps : x.name = p.name

\* A module of the workspace lists it that is not the one it belongs to by name.
ListedElsewhere(name) ==
    \E d \in Asked : d # Reporter(name) /\ \E p \in OwnPackages(repo[d]) : p.name = name

\* No other module that is replaced by a directory has a longer name of which the package's name
\* is a continuation (match_parent_module takes the longest one, go list the one that has the
\* package).
InTheLongest(mod, p) ==
    \A m \in mod.needs : ReplacedByPath(m) /\ contains_package(m.path, p.name) =>
                            Len(m.path) <= Len(p.module.path)

\* The path reported for a package of a locally replaced module, taken from the module that
\* the reported package belongs to, is the directory of that package (docs/metadata.md; the purl
\* of the package is made from it).  A package that another module of the workspace lists is
\* reported with paths from that one.
LocalPackagesAreWhereTheySay ==
    \A r \in {x \in written : x.type = "go-package" /\ ~ListedElsewhere(x.name)} :
        \A x \in r.deps :
            x.version.kind = "path" =>
                \E p \in ToSet(repo[Reporter(r.name)].packages) :
                    /\ p.name = x.name
                    /\ InTheLongest(repo[Reporter(r.name)], p) =>
                           normpath(Reporter(r.name) \o x.version.parts) = p.dir

ListedTwice(d, e) ==
    /\ version[d] = version[e]
    /\ \/ repo[d].name = repo[e].name
       \/ TopPackages(repo[d]) \cap TopPackages(repo[e]) # {}

\* A request fails only if it is not acceptable or a command failed: more than once in a
\* row, if it was go mod download.  After a restart gomod-vendor-check also fails on a
\* vendor directory that the task itself has made (_should_vendor_deps asks whether there
\* is one in the source tree, not in the commit).  Two modules may list one package, or have
\* one name, and get one version: add_package refuses the second one.  The module above that
\* a replacement leads to is looked for by its name.
OnlyBadRequestsFail ==
    step = "failed" =>
        \/ \E d \in Asked : ~repo[d].present \/ ~Supported(repo[d])
        \/ Len(ask.paths) > 1 /\ (ask.replaced \/ Cardinality(Asked) < Len(ask.paths))
        \/ Vendoring /\ \E d \in Asked : repo[d].workspacevendor
        \/ ask.flag = "check" /\ \E d \in Asked : VendorChanged(d) /\ repo[d].vendor # "absent"
        \/ ~Vendoring /\ Strict /\ \E d \in Asked : repo[d].vendor # "absent"
        \/ \E d \in Asked : ~LocalPathsAreFine(d, repo[d])
        \/ \E d \in Asked : \E x \in Deps(repo[d]) :
               /\ x.version.kind = "path" /\ ".." \in ToSet(x.version.parts)
               /\ LET target == normpath(d \o x.version.parts)
                  IN target \notin Asked \/ repo[target].name # x.name
        \/ \E d, e \in Asked : d # e /\ ListedTwice(d, e)
        \/ failures > 0 /\ (broken = "download" => failures >= MaxTries)
        \/ deaths > 0 /\ ask.flag = "check"

=============================================================================
