------------------------------ MODULE GoNames ------------------------------
(***************************************************************************)
(* Names of Go modules and packages, paths, and the versions that are      *)
(* reported.  Names and paths are sequences of their parts.  The root of   *)
(* the repository is <<>>.                                                 *)
(***************************************************************************)
EXTENDS Naturals, FiniteSets, SequencesExt

contains_package(parent, package) == IsPrefix(parent, package)

\* Mutation: the shortest module that contains the package.
FirstParent(package, modules) ==
    CHOOSE m \in modules : /\ contains_package(m, package)
                           /\ \A n \in modules : contains_package(n, package) => Len(n) >= Len(m)

HasParent(package, modules) == \E m \in modules : contains_package(m, package)

\* The longest one; only where HasParent holds.
match_parent_module(package, modules) ==
    CHOOSE m \in modules : /\ contains_package(m, package)
                           /\ \A n \in modules : contains_package(n, package) => Len(n) <= Len(m)

path_to_subpackage(parent, package) == SubSeq(package, Len(parent) + 1, Len(package))

\* os.path.normpath of a relative path: ".." takes the part before it away.
normpath(path) ==
    FoldLeft(LAMBDA out, part : IF part = ".." /\ out # <<>> /\ Last(out) # ".."
                                THEN Front(out) ELSE Append(out, part),
             <<>>, path)

\* The version of a dependency: a release, a path, or none for the standard library.
Release(v) == [kind |-> "release", parts |-> <<v>>]
Path(p) == [kind |-> "path", parts |-> p]
AbsolutePath(p) == [kind |-> "absolute", parts |-> p]
MainVersion == [kind |-> "main", parts |-> <<>>]
NoneVersion == [kind |-> "none", parts |-> <<>>]

=============================================================================
