-------------------------- MODULE ContentManifest --------------------------
(***************************************************************************)
(* What is reported of a request: the packages file that its task chain    *)
(* leaves behind, the list of all dependencies, the content manifest and   *)
(* the SBOM with their package URLs.                                       *)
(*                                                                         *)
(* A row is a package: [type, name, version, path, deps]; a dependency is  *)
(* [type, name, version, dev].  Names are sequences of parts.  Versions    *)
(* are those of GoNames, and Git(repo, ref), Url(u) and File(p).           *)
(***************************************************************************)
EXTENDS GoNames

CONSTANT DepOrder  \* all dependencies, in the order of _package_sort_key

Git(repo, ref) == [kind |-> "git", parts |-> Append(repo, ref)]
Url(u) == [kind |-> "url", parts |-> <<u>>]
File(p) == [kind |-> "file", parts |-> p]

-----------------------------------------------------------------------------
(* PackagesData *)

PackageKey(row) == <<row.name, row.type, row.version>>

\* add_package refuses a second package with the same key.
Clash(rows, more) ==
    \E r \in rows, m \in more : PackageKey(r) = PackageKey(m)

\* unique_packages: a package is dropped if it equals the one before it.
unique_packages(packages) ==
    FoldLeft(LAMBDA out, p : IF out # <<>> /\ Last(out) = p THEN out ELSE Append(out, p),
             <<>>, packages)

Rank(dep) == CHOOSE i \in DOMAIN DepOrder : DepOrder[i] = dep

\* The dependencies of all packages one after the other.
Gathered(rows) ==
    FoldSet(LAMBDA e, out : Append(out, e[2]), <<>>, UNION {{r} \X r.deps : r \in rows})

\* Mutation: not sorted before.
AsGathered(rows) == unique_packages(Gathered(rows))

\* Python's sort is stable: before a package stand those that are less, and the equal ones that
\* stood before it.
Before(packages, k) ==
    {j \in DOMAIN packages : \/ Rank(packages[j]) < Rank(packages[k])
                             \/ Rank(packages[j]) = Rank(packages[k]) /\ j < k}
sorted(packages) ==
    [i \in DOMAIN packages |->
        packages[CHOOSE k \in DOMAIN packages : Cardinality(Before(packages, k)) = i - 1]]

all_dependencies(rows) == unique_packages(sorted(Gathered(rows)))

-----------------------------------------------------------------------------
(* Package URLs *)

Purl(type, name, version, sub) ==
    [type |-> type, name |-> name, version |-> version, sub |-> sub]

\* PARENT_PURL_PLACEHOLDER with the path that is appended to it.
Placeholder(sub) == Purl("PARENT", <<>>, NoneVersion, sub)
replace_parent_purl_placeholder(purl, parent) ==
    IF purl.type = "PARENT" THEN [parent EXCEPT !.sub = purl.sub] ELSE purl

KnownHosts == {"github.com", "bitbucket.org"}

\* The type of a known host, or a generic purl with the URL.
to_vcs_purl(name, repo, ref) ==
    IF repo[1] \in KnownHosts
    THEN Purl(repo[1], Tail(repo), Release(ref), <<>>)
    ELSE Purl("generic", name, Git(repo, ref), <<>>)

to_git_purl(name, v) == to_vcs_purl(name, Front(v.parts), Last(v.parts))

\* to_purl; sub is the path that _to_purl_go and _to_purl_rubygems append.
to_purl(package, sub) ==
    LET v == package.version
    IN CASE package.type \in {"go-package", "gomod"} ->
              IF v.kind = "path" THEN Placeholder(sub)
              ELSE Purl("golang", package.name, v, <<>>)
         [] package.type \in {"npm", "yarn"} ->
              IF v.kind = "release" THEN Purl("npm", package.name, v, <<>>)
              ELSE IF v.kind = "git" THEN to_git_purl(package.name, v)
              ELSE Purl("generic", package.name, v, <<>>)
         [] package.type = "pip" ->
              IF v.kind = "release" THEN Purl("pypi", package.name, v, <<>>)
              ELSE IF v.kind = "git" THEN to_git_purl(package.name, v)
              ELSE Purl("generic", package.name, v, <<>>)
         [] package.type = "rubygems" ->
              IF v.kind = "path" THEN Placeholder(sub \o normpath(v.parts))
              ELSE IF v.kind = "git" THEN to_git_purl(package.name, v)
              ELSE Purl("gem", package.name, v, <<>>)
         [] package.type = "git-submodule" -> to_git_purl(package.name, v)

\* The purl of a package of the request: Go names say where they are, others need the path.
to_top_level_purl(row, repo, ref) ==
    IF row.type \in {"gomod", "go-package", "git-submodule"} THEN to_purl(row, <<>>)
    ELSE [to_vcs_purl(row.name, repo, ref) EXCEPT !.sub = row.path]

-----------------------------------------------------------------------------
(* Dependencies *)

ModuleRows(rows) == {r \in rows : r.type = "gomod"}
ModuleNames(rows) == {r.name : r \in ModuleRows(rows)}
Module(rows, name) == CHOOSE r \in ModuleRows(rows) : r.name = name
ModulePurl(rows, name) == to_purl(Module(rows, name), <<>>)

\* Relative to a module that is processed.
Within(rows, name) ==
    LET parent == match_parent_module(name, ModuleNames(rows))
    IN [ModulePurl(rows, parent) EXCEPT !.sub = path_to_subpackage(parent, name)]

\* Mutation: always the path from the module that uses the dependency.
FromUser(rows, row, dep) ==
    IF dep.version.kind # "path" THEN to_purl(dep, <<>>)
    ELSE [ModulePurl(rows, row.name) EXCEPT !.sub = dep.version.parts]

\* process_gomod: by the name of the dependency if a module has it, else by its path.
ModuleDepPurl(rows, row, dep) ==
    IF dep.version.kind # "path" THEN to_purl(dep, <<>>)
    ELSE IF HasParent(dep.name, ModuleNames(rows)) THEN Within(rows, dep.name)
    ELSE Within(rows, normpath(row.name \o dep.version.parts))

\* process_go_package and _get_local_go_package_dep_purl: a package of a module that is processed
\* has the version of that module, another one is found by its path from the module of the user.
PackageDepPurl(rows, row, dep) ==
    IF dep.version.kind # "path" THEN to_purl(dep, <<>>)
    ELSE IF HasParent(dep.name, ModuleNames(rows))
         THEN LET parent == match_parent_module(dep.name, ModuleNames(rows))
              IN to_purl([dep EXCEPT !.version = Module(rows, parent).version], <<>>)
         ELSE LET user == match_parent_module(row.name, ModuleNames(rows))
              IN Within(rows, normpath(user \o dep.version.parts))

\* process_rubygems_package: relative to the repository, through the path of the package.
GemDepPurl(row, dep, repo, ref) ==
    replace_parent_purl_placeholder(to_purl(dep, row.path), to_vcs_purl(<<Last(repo)>>, repo, ref))

DepPurl(rows, row, dep, repo, ref) ==
    CASE row.type = "gomod" -> ModuleDepPurl(rows, row, dep)
      [] row.type = "go-package" -> PackageDepPurl(rows, row, dep)
      [] row.type = "rubygems" -> GemDepPurl(row, dep, repo, ref)
      [] OTHER -> to_purl(dep, <<>>)

\* Dependencies of another type than the package are skipped.
Used(row) == {d \in row.deps : d.type = row.type}

-----------------------------------------------------------------------------
(* The content manifest and the SBOM *)

DepPurls(rows, row, deps, repo, ref) == {DepPurl(rows, row, d, repo, ref) : d \in deps}

\* The dependencies of the module a Go package is in (set_go_package_sources).
ModuleSources(rows, row, repo, ref) ==
    IF HasParent(row.name, ModuleNames(rows))
    THEN LET m == Module(rows, match_parent_module(row.name, ModuleNames(rows)))
         IN DepPurls(rows, m, Used(m), repo, ref)
    ELSE {}

\* One entry of image_contents; a Go package has all its dependencies, of no source of its own.
IcmEntry(rows, row, repo, ref) ==
    [purl |-> to_top_level_purl(row, repo, ref),
     dependencies |-> DepPurls(rows, row, IF row.type = "go-package" \/ row.type = "rubygems"
                                          THEN Used(row) ELSE {d \in Used(row) : ~d.dev},
                               repo, ref),
     sources |-> IF row.type = "go-package" THEN ModuleSources(rows, row, repo, ref)
                 ELSE DepPurls(rows, row, Used(row), repo, ref)]

\* to_json: Go modules have no entry of their own.
image_contents(rows, repo, ref) ==
    {IcmEntry(rows, r, repo, ref) : r \in rows \ ModuleRows(rows)}

Component(package, purl) == [name |-> package.name, version |-> package.version, purl |-> purl]

\* A local Go package of a processed module was given the version of the module on the way.
Reversioned(rows, row, dep) ==
    IF row.type = "go-package" /\ dep.version.kind = "path" /\ HasParent(dep.name, ModuleNames(rows))
    THEN [dep EXCEPT !.version =
            Module(rows, match_parent_module(dep.name, ModuleNames(rows))).version]
    ELSE dep

\* Mutation: the dependencies of Go modules are left out.
NoModuleDeps(rows, repo, ref) ==
    {Component(r, to_top_level_purl(r, repo, ref)) : r \in rows}
    \cup UNION {{Component(Reversioned(rows, r, d), DepPurl(rows, r, d, repo, ref)) :
                    d \in Used(r)} : r \in rows \ ModuleRows(rows)}

\* sbom_components_list, without its duplicates.
sbom_components(rows, repo, ref) ==
    {Component(r, to_top_level_purl(r, repo, ref)) : r \in rows}
    \cup UNION {{Component(Reversioned(rows, r, d), DepPurl(rows, r, d, repo, ref)) :
                    d \in Used(r)} : r \in rows}

=============================================================================
