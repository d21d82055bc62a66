---------------------------- MODULE MCJsResolve ----------------------------
EXTENDS JsResolve, TLC

\* npm: packages a and b, b also below a and below the workspace w.
PA == <<NM, "a">>
PAB == <<NM, "a", NM, "b">>
PB == <<NM, "b">>
LinkW == <<NM, "w">>
PW == <<"packages", "w">>
PWB == <<"packages", "w", NM, "b">>
PDirB == <<"packages", "b">>
MCPathOrder == <<<<>>, PA, PAB, PB, LinkW, PDirB, PW, PWB>>

Entry(source, dev, needs) ==
    [name |-> "", source |-> source, version |-> "1", link |-> NoPath, dev |-> dev,
     needs |-> needs]
Only(path, entries) == {(path :> e) : e \in entries}
Maybe(path, entries) == {<<>>} \cup Only(path, entries)
Merge(s1, s2) == {f @@ g : f \in s1, g \in s2}

RootEntry(needs) == [Entry("file", FALSE, needs) EXCEPT !.name = "root"]
ALocks == Only(PA, {Entry(s, FALSE, {"b"}) : s \in {"registry", "git1"}})
ABLocks == Maybe(PAB, {Entry(s, d, {"a"}) : s \in {"registry", "bundled", "git2"}, d \in BOOLEAN})
BLocks == Maybe(PB, {Entry(s, d, {}) : s \in {"registry", "git1", "git2"}, d \in BOOLEAN}
                    \cup {[Entry("git1", FALSE, {}) EXCEPT !.name = "c"],
                          Entry("elsewhere", FALSE, {})})
Linked == {LinkW :> [Entry("file", FALSE, {}) EXCEPT !.link = PW]}
WLocks == {<<>>} \cup Merge(Linked, Merge(Only(PW, {Entry("file", FALSE, {"a", "b"})}),
                                          Maybe(PWB, {Entry("git1", FALSE, {}),
                                                      Entry("registry", TRUE, {"a"})})))

\* Version 2 and 3 lock files have an entry for the root, version 1 has none and no links.
Locks(needs) ==
    LET below == Merge(ALocks, Merge(ABLocks, BLocks))
    IN Merge({<<>> :> RootEntry(needs)}, Merge(below, WLocks)) \cup below

Npm(lock, workspaces, allowed) ==
    [manager |-> "npm", lock |-> lock, manifest |-> {"a", "b"}, workspaces |-> workspaces,
     allowed |-> allowed]

Second ==
    Npm((<<>> :> RootEntry({"a", "b"})) @@ (PA :> Entry("git1", FALSE, {}))
          @@ (PB :> Entry("git2", TRUE, {})), {}, {})

\* The package w is in the directory packages/b, which has the name of the dependency b.
SameName ==
    (PA :> Entry("registry", FALSE, {"b"})) @@ (PB :> Entry("git1", FALSE, {}))
    @@ (LinkW :> [Entry("file", FALSE, {}) EXCEPT !.link = PDirB])
    @@ (PDirB :> [Entry("file", FALSE, {}) EXCEPT !.name = "w"])

NpmRequests ==
    {<<Npm(SameName, {PDirB}, {})>>}
    \cup {<<Npm(lock, {PW}, {})>> : lock \in Locks({"a", "b"})}
    \cup {<<Npm(lock, {}, allowed), Second>> :
             lock \in Merge({<<>> :> RootEntry({"a", "b"})},
                            Merge(ALocks, Merge(ABLocks, {<<>>} \cup Merge(Linked,
                                     Only(PW, {Entry("file", FALSE, {"b"})}))))),
             allowed \in SUBSET {"w"}}

\* yarn: x, in one or two ranges, y from Git, z from a URL or the registry, and the workspace w.
X1 == Declared("x", "^1")
X2 == Declared("x", "^2")
YG == Declared("y", "git")
ZU == Declared("z", "url")
W == Declared("w", "*")
YarnEntry(key, name, source, needs) ==
    [key |-> key, name |-> name, source |-> source, version |-> "1", needs |-> needs]
YarnLocks ==
    {{YarnEntry(kx, "x", "registry", nx), YarnEntry({YG}, "y", "git1", ny),
      YarnEntry({ZU}, "z", sz, nz)} \cup w :
        kx \in {{X1}, {X1, X2}}, nx \in {{}, {YG}, {YG, ZU}, {ZU, W}}, ny \in SUBSET {X2, ZU},
        sz \in {"url", "registry", "elsewhere"}, nz \in {{}, {X1}},
        w \in {{}, {YarnEntry({W}, "w", "file", {ZU})}}}
Manifests == [deps : SUBSET {X1, YG} \cup {{W}}, dev : {{ZU}, {X1, YG}}]

YarnProject(lock, root, workspaces) ==
    [manager |-> "yarn", lock |-> lock, manifest |-> root,
     manifests |-> {root} \cup {[deps |-> {ZU}, dev |-> {X1}] : w \in workspaces},
     workspaces |-> workspaces, allowed |-> {}]

YarnRequests ==
    {<<YarnProject(lock, root, ws)>> : lock \in YarnLocks, root \in Manifests, ws \in {{}, {"w"}}}

MCRequests == NpmRequests \cup YarnRequests
=============================================================================
