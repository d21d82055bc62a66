------------------------------ MODULE NpmLock ------------------------------
(***************************************************************************)
(* package-lock.json, lockfileVersion 2 and 3: packages at paths, and      *)
(* which package meets which requirement.  Cachito puts dependencies that  *)
(* are not from the registry into Nexus and must then rewrite every        *)
(* requirement on them, in the lock file and in package.json.              *)
(*                                                                         *)
(* A path is the sequence of its parts, a scoped name one part.  A lock    *)
(* file is a function from paths to entries; the root is <<>>.             *)
(***************************************************************************)
EXTENDS Naturals, Sequences, FiniteSets

CONSTANTS PathOrder,  \* all paths of the lock files, in the order of a lock file
          NoPath      \* no package, not a link

ASSUME PathOrderAssumption ==
    /\ PathOrder \in Seq({PathOrder[i] : i \in DOMAIN PathOrder})
    /\ \A i, j \in DOMAIN PathOrder : i # j => PathOrder[i] # PathOrder[j]

NM == "node_modules"
LastPart(path) == path[Len(path)]
Up(path) == SubSeq(path, 1, Len(path) - 1)
Parts(path) == {path[i] : i \in DOMAIN path}

\* In a directory of the project that is no node_modules directory.
InDirectory(path) == NM \notin Parts(path)

Position(path) == CHOOSE i \in DOMAIN PathOrder : PathOrder[i] = path

IsLink(lock, path) == lock[path].link # NoPath
Target(lock, path) == IF IsLink(lock, path) THEN lock[path].link ELSE path

\* The entry's own name, or the last part of the path.
PackageName(lock, path) ==
    IF lock[path].name # "" THEN lock[path].name ELSE LastPart(path)

\* The name under which a package is a child in the tree: its alias.
ChildName(lock, path) == IF path = <<>> THEN lock[path].name ELSE LastPart(path)

-----------------------------------------------------------------------------
(* The tree of packages.  Its root is above the package of the project. *)

TreeRoot == <<"">>

\* _get_parent_node: the package whose node_modules directory the path is in.
NodeParent(lock, path) ==
    IF Up(path) = <<NM>> THEN TreeRoot ELSE Target(lock, Up(Up(path)))

\* _get_fsparent_node: the nearest package above in the file system.
FsParent(lock, path) ==
    LET above == {q \in DOMAIN lock \ {<<>>} : Len(q) < Len(path) /\ SubSeq(path, 1, Len(q)) = q}
    IN IF above = {} THEN TreeRoot
       ELSE CHOOSE q \in above : \A r \in above : Len(r) <= Len(q)

Parent(lock, path) ==
    IF InDirectory(path) THEN FsParent(lock, path) ELSE NodeParent(lock, path)

Packages(lock) == {p \in DOMAIN lock : ~IsLink(lock, p)}

\* The children of a node with a name: later packages replace earlier ones.
Child(lock, node, name) ==
    LET named == {p \in Packages(lock) : Parent(lock, p) = node /\ ChildName(lock, p) = name}
    IN IF named = {} THEN NoPath
       ELSE CHOOSE p \in named : \A q \in named : Position(q) <= Position(p)

IsTopLevel(lock, path) == Parent(lock, path) = TreeRoot

Nodes(lock) == Packages(lock) \cup {TreeRoot}

\* _resolve_node_dependency: among the children, then upwards.
Resolve(lock, node, name) ==
    LET resolve[n \in Nodes(lock)] ==
            IF Child(lock, n, name) # NoPath THEN Child(lock, n, name)
            ELSE IF n = TreeRoot THEN NoPath ELSE resolve[Parent(lock, n)]
    IN resolve[node]

\* Nodes that are still in the tree.
InTree(lock, node) ==
    LET inTree[n \in Nodes(lock)] ==
            \/ n = TreeRoot
            \/ /\ Child(lock, Parent(lock, n), ChildName(lock, n)) = n
               /\ inTree[Parent(lock, n)]
    IN inTree[node]

\* Mutation: only packages next to a dependency depend on it.
Siblings(lock, path) ==
    {p \in Packages(lock) : /\ InTree(lock, p)
                            /\ \E n \in lock[p].needs : Child(lock, Parent(lock, p), n) = path}

\* The packages that depend on a package (_resolve_dependent_packages).
Dependents(lock, path) ==
    {p \in Packages(lock) : /\ InTree(lock, p)
                            /\ \E n \in lock[p].needs : Resolve(lock, p, n) = path}

-----------------------------------------------------------------------------
(* Dependencies *)

\* The sources of dependencies; "git1" and "git2" are two commits.
External == {"git1", "git2", "url"}
Unsupported == {"elsewhere"}
Sources == {"registry", "bundled", "file"} \cup External \cup Unsupported

\* The "version" that is reported: a version, or the place the package is from.
ReportedVersion(entry) ==
    IF entry.source \in {"registry", "bundled"} THEN entry.version ELSE entry.source

\* Mutation: the copy that comes last says whether it is a dev dependency.
LastCopy(d, e) == e

\* Two copies of a package: it is bundled, or for development, if both are.
BothCopies(d, e) == [d EXCEPT !.bundled = @ /\ e.bundled, !.dev = @ /\ e.dev]

Reported(lock, path) ==
    LET entry == lock[path]
    IN [name |-> PackageName(lock, path), version |-> ReportedVersion(entry),
        bundled |-> entry.source = "bundled", dev |-> entry.dev]

SamePackage(d, e) == d.name = e.name /\ d.version = e.version

\* name_to_deps with one more dependency.
AddDep(deps, new) ==
    IF \E d \in deps : SamePackage(d, new)
    THEN {IF SamePackage(d, new) THEN BothCopies(d, new) ELSE d : d \in deps}
    ELSE deps \cup {new}

\* The lock files npm writes: a path is a directory of the project or of an entry that is a
\* package, with node_modules and a name; links lead to directories.  The packages in
\* directories, the project among them, are not downloaded.
IsLock(lock) ==
    /\ DOMAIN lock \subseteq Parts(PathOrder) \ {TreeRoot, NoPath}
    /\ \A p \in DOMAIN lock :
         /\ p \in Seq(STRING) /\ (p # <<>> => LastPart(p) # NM)
         /\ lock[p].source \in Sources /\ lock[p].version \notin Sources
         /\ lock[p].dev \in BOOLEAN
         /\ ~InDirectory(p) => \E q \in Packages(lock) \cup {<<>>} :
                                 p = q \o <<NM, LastPart(p)>>
         /\ InDirectory(p) => lock[p].source = "file"
         /\ IsLink(lock, p) => /\ ~InDirectory(p) /\ lock[p].source = "file"
                               /\ Target(lock, p) \in Packages(lock) /\ InDirectory(Target(lock, p))

\* No two packages are the same child of one node, and no external dependency has the name of a
\* directory of the project or of a link: the tree goes by names, and has directories in it.
NamesAreApart(lock) ==
    /\ \A p, q \in Packages(lock) :
         Parent(lock, p) = Parent(lock, q) /\ ChildName(lock, p) = ChildName(lock, q) => p = q
    /\ \A p \in Packages(lock), d \in DOMAIN lock :
         lock[p].source \in External /\ (InDirectory(d) \/ IsLink(lock, d)) =>
             ChildName(lock, p) # ChildName(lock, d)

\* What a requirement asks for after a dependency was put into Nexus.
InNexus(lock, path) == <<PackageName(lock, path), lock[path].source>>
AsDeclared == <<"", "">>

=============================================================================
