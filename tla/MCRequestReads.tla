--------------------------- MODULE MCRequestReads ---------------------------
EXTENDS RequestReads, TLC

V1 == Release("v1")
Dep(type, name, version) == [type |-> type, name |-> name, version |-> version, dev |-> FALSE]
DevDep(type, name, version) == [Dep(type, name, version) EXCEPT !.dev = TRUE]
MCRow(type, name, path, deps) ==
    [type |-> type, name |-> name, version |-> V1, path |-> path, deps |-> deps]

\* Go: the modules x and x/a, a module of another name in staging/k, and x/b in b.
U == Dep("gomod", <<"u">>, V1)
K == Dep("gomod", <<"k8s", "k">>, Path(<<"staging", "k">>))
B == Dep("gomod", <<"x", "b">>, Path(<<"b">>))
BFromA == Dep("gomod", <<"x", "b">>, Path(<<"..", "b">>))
A == Dep("gomod", <<"x", "a">>, Path(<<"a">>))
BElsewhere == Dep("gomod", <<"x", "b">>, Path(<<"other">>))
GoDeps == {U, K, B, A}
KP == Dep("go-package", <<"k8s", "k", "p">>, Path(<<"staging", "k", "p">>))
BP == Dep("go-package", <<"x", "b", "p">>, Path(<<"b", "p">>))
BPFromA == Dep("go-package", <<"x", "b", "p">>, Path(<<"..", "b", "p">>))
AP == Dep("go-package", <<"x", "a", "p">>, Path(<<"a", "p">>))
Fmt == Dep("go-package", <<"fmt">>, NoneVersion)
XModule(deps) == MCRow("gomod", <<"x">>, <<>>, deps)
AModule(deps) == MCRow("gomod", <<"x", "a">>, <<"a">>, deps)
XPackage == MCRow("go-package", <<"x", "cmd">>, <<"cmd">>, {Fmt, KP, BP, AP})
APackage == MCRow("go-package", <<"x", "a", "p">>, <<"a", "p">>, {BPFromA, Fmt})
BModule == MCRow("gomod", <<"x", "b">>, <<"b">>, {U})
GoFiles == {{XModule(deps), XPackage} \cup more \cup b :
               deps \in {{U, K, B, A}, {U, B}}, b \in {{}, {BModule}},
               more \in {{}, {AModule({U}), APackage}, {AModule({BFromA, U})}}}
    \* x/b is in other, and k8s/k is a module of the request: here the names are misleading.
    \cup {{XModule({BElsewhere}), BModule},
          {XModule({K, B}), XPackage, MCRow("gomod", <<"k8s", "k">>, <<"staging", "k">>, {})}}

L == Dep("npm", <<"l">>, V1)
LDev == DevDep("npm", <<"l">>, V1)
LGit == Dep("npm", <<"l">>, Git(<<"github.com", "o", "l">>, "c1"))
NpmRow(name, path, deps) == MCRow("npm", name, path, deps)
NpmFiles == {{NpmRow(<<"n">>, <<>>, {LDev, LGit}), NpmRow(<<"m">>, <<"web">>, {L, LDev, LGit})}}

P == Dep("pip", <<"l">>, Url("https"))
PipFiles == {{MCRow("pip", <<"n">>, <<>>, {P, DevDep("pip", <<"l">>, V1)})}}

G == Dep("rubygems", <<"g">>, Path(<<"gems", "g">>))
R == Dep("rubygems", <<"r">>, Git(<<"gitlab.com", "o", "r">>, "c2"))
GemFiles == {{MCRow("rubygems", <<"app">>, p, {G, R})} : p \in {<<>>, <<"sub">>}}

Submodules == {{[MCRow("git-submodule", <<"s">>, <<"s">>, {}) EXCEPT
                    !.version = Git(<<"github.com", "o", "s">>, "c3")]}}

\* A second file that reports a package again.
Again == {{NpmRow(<<"m">>, <<"other">>, {L})}}

MCDepOrder == <<U, K, B, BElsewhere, BFromA, A, Fmt, KP, BP, BPFromA, AP, LGit, L, LDev, P,
                DevDep("pip", <<"l">>, V1), G, R>>
MCFileSets == <<{{g, n} : g \in GoFiles, n \in NpmFiles \cup GemFiles}
                  \cup {{n, p, s} : n \in NpmFiles, p \in PipFiles \cup Again, s \in Submodules},
                {{n} : n \in NpmFiles}>>
MCRepoOf == <<<<"github.com", "ns", "app">>, <<"example.com", "ns", "app">>>>
MCRefOf == <<"f1", "f2">>
=============================================================================
