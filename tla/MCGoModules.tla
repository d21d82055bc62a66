---------------------------- MODULE MCGoModules ----------------------------
EXTENDS GoModules, TLC

\* A repository with three modules: x, x/a in a and x/a/b in a/b.
Root == <<>>
A == <<"a">>
B == <<"a", "b">>
DirSet == {Root, A, B}

NoReplace == [path |-> <<>>, version |-> NoneVersion, absolute |-> FALSE]
Proxied(id, path) == [id |-> id, path |-> path, version |-> Release("v1"), replace |-> NoReplace]
Local(path, to) ==
    [id |-> "local", path |-> path, version |-> Release("v0"),
     replace |-> [path |-> to, version |-> NoneVersion, absolute |-> FALSE]]

u1 == Proxied("u1", <<"u">>)
w1 == [Proxied("w1", <<"w">>) EXCEPT !.replace = [@ EXCEPT !.path = <<"fork">>,
                                                        !.version = Release("v3")]]
VersionSet == {"u1", "w1"}

Std(name) == [name |-> name, standard |-> TRUE, main |-> FALSE, module |-> u1, deps |-> {},
              dir |-> <<>>]
Of(module, name, dir) == [name |-> name, standard |-> FALSE, main |-> FALSE, module |-> module,
                          deps |-> {}, dir |-> dir]
Own(name, deps) == [name |-> name, standard |-> FALSE, main |-> TRUE, module |-> u1,
                    deps |-> deps, dir |-> <<>>]

Plain(name, needs, listing) ==
    [present |-> TRUE, name |-> name, major |-> 0, go |-> 22, toolchain |-> 0,
     needs |-> needs, workspaces |-> {}, vendor |-> "absent", workspacevendor |-> FALSE,
     packages |-> listing]

LocalA == Local(<<"x", "a">>, <<"a">>)
LocalB == Local(<<"x", "a", "b">>, <<"a", "b">>)
RootModule ==
    Plain(<<"x">>, {u1, w1, LocalA, LocalB},
          <<Std(<<"fmt">>), Of(u1, <<"u", "p">>, <<>>), Of(w1, <<"w">>, <<>>),
            Of(LocalB, <<"x", "a", "b", "q">>, <<"a", "b", "q">>),
            Of(LocalA, <<"x", "a">>, <<"a">>),
            Own(<<"x", "lib">>, {<<"fmt">>, <<"x", "a", "b", "q">>}),
            Own(<<"x">>, {<<"fmt">>, <<"u", "p">>, <<"x", "lib">>, <<"x", "a", "b", "q">>,
                          <<"x", "a">>, <<"w">>}),
            Own(<<"x", "tool">>, {<<"x", "lib">>, <<"fmt">>, <<"x", "a", "b", "q">>})>>)

\* In a workspace with x/a, whose packages are of a main module too.
WorkspaceRoot ==
    [Plain(<<"x">>, {u1},
           <<Own(<<"x", "a">>, {}), Own(<<"x", "lib">>, {<<"x", "a">>}),
             Own(<<"x">>, {<<"x", "lib">>, <<"x", "a">>})>>)
     EXCEPT !.workspaces = {<<"x", "a">>}]

\* The same, with a package of x/a that nothing of x imports.
WorkspaceOfTwo == [WorkspaceRoot EXCEPT !.packages = <<Own(<<"x", "a">>, {}), Own(<<"x">>, {})>>]

\* The same, where a package of x/a is what needs a package of x.
WorkspaceOfUser ==
    [WorkspaceRoot EXCEPT
        !.packages = <<Own(<<"x", "lib">>, {}), Own(<<"x", "a">>, {<<"x", "lib">>})>>]

\* The same, where it needs a package of a module that the workspace replaces by a directory.
WorkspaceLocal ==
    [WorkspaceRoot EXCEPT
        !.needs = {Local(<<"y">>, <<"y">>)},
        !.packages = <<Of(Local(<<"y">>, <<"y">>), <<"y">>, <<"y">>), Own(<<"x", "a">>, {<<"y">>})>>]

\* x/a/c is replaced by c, which has no package q: x/a/c/q is a package of x/a.
NestedModule ==
    Plain(<<"x">>, {LocalA, Local(<<"x", "a", "c">>, <<"c">>)},
          <<Of(LocalA, <<"x", "a", "c", "q">>, <<"a", "c", "q">>),
            Own(<<"x">>, {<<"x", "a", "c", "q">>})>>)

AModule ==
    Plain(<<"x", "a">>, {w1, Local(<<"x">>, <<"..">>)},
          <<Of(Local(<<"x">>, <<"..">>), <<"x", "lib">>, <<"lib">>), Of(w1, <<"w">>, <<>>),
            Own(<<"x", "a">>, {<<"x", "lib">>, <<"w">>})>>)

BModule == Plain(<<"x", "a", "b">>, {u1}, <<Own(<<"x", "a", "b", "q">>, {})>>)
BWith(m) == [BModule EXCEPT !.needs = @ \cup {m}]

Mono(root, a, b) == [d \in DirSet |-> CASE d = Root -> root [] d = A -> a [] OTHER -> b]

Repos ==
    {Mono([RootModule EXCEPT !.vendor = v], AModule, BModule) : v \in VendorDirs}
    \cup {Mono(RootModule, [AModule EXCEPT !.vendor = v], BModule) : v \in {"good", "stale files"}}
    \cup {Mono(w, AModule, BModule) : w \in {WorkspaceLocal, WorkspaceOfTwo, WorkspaceOfUser,
                                             NestedModule}}
    \cup {Mono(WorkspaceRoot, AModule, b) :
            b \in {BWith(Local(<<"y">>, <<"..", "..", "c">>)),
                   BWith(Local(<<"y">>, <<"..", "..", "..", "c">>)),
                   BWith([Local(<<"y">>, <<"c">>) EXCEPT !.replace.absolute = TRUE]),
                   [BModule EXCEPT !.present = FALSE],
                   [BModule EXCEPT !.toolchain = 24],
                   [BModule EXCEPT !.workspacevendor = TRUE, !.major = 2]}}

Tag(dir, v, at) == [dir |-> dir, v |-> v, at |-> at]
Tags ==
    {{},
     {Tag(Root, <<0, 9, 0, 9, 0>>, "before"), Tag(Root, <<1, 2, 3, 9, 0>>, "before"),
      Tag(Root, <<1, 2, 4, 1, 0>>, "after"), Tag(A, <<1, 0, 0, 1, 0>>, "before"),
      Tag(A, <<1, 0, 0, 2, 0>>, "after"), Tag(B, <<2, 0, 0, 9, 0>>, "before")},
     {Tag(Root, <<0, 9, 0, 9, 0>>, "commit"), Tag(Root, <<0, 8, 0, 9, 0>>, "commit"),
      Tag(Root, <<0, 9, 1, 9, 0>>, "after"), Tag(A, <<1, 0, 0, 9, 0>>, "after")}}

Ask(paths, flag, tidy, replaced) ==
    [paths |-> paths, flag |-> flag, tidy |-> tidy, replaced |-> replaced]
AskSet ==
    {Ask(p, f, FALSE, FALSE) : p \in {<<Root>>, <<Root, A>>, <<A, Root>>, <<A>>, <<B>>, <<Root, B>>},
                               f \in Flags}
    \cup {Ask(<<Root>>, f, FALSE, TRUE) : f \in {"none", "check"}}
    \cup {Ask(<<Root, A>>, "none", FALSE, TRUE), Ask(<<Root, A>>, "vendor", TRUE, FALSE),
          Ask(<<Root, A>>, "none", TRUE, FALSE), Ask(<<A, A>>, "none", FALSE, FALSE)}
=============================================================================
