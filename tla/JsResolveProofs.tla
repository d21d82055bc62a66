-------------------------- MODULE JsResolveProofs --------------------------
(***************************************************************************)
(* What fetch_npm_source and fetch_yarn_source have found, skipped,        *)
(* downloaded and rewritten at the end of each project of a request, for   *)
(* any number of projects and any lock files npm and yarn write.           *)
(*                                                                         *)
(* The invariant JsIInv says what is known of the entries read so far; the *)
(* last part shows that the tree of packages leads to what Node finds.     *)
(***************************************************************************)
EXTENDS JsResolve, FiniteSetTheorems, SequenceTheorems, WellFoundedInduction, TLAPS

Paths == {PathOrder[i] : i \in DOMAIN PathOrder}

IsDep(d) == d \in [name : {d.name}, version : {d.version}, bundled : BOOLEAN, dev : BOOLEAN]

IsProject(p) ==
    \/ p.manager = "npm" /\ IsLock(p.lock)
    \/ /\ p.manager = "yarn" /\ IsYarnLock(p.lock)
       /\ IsFiniteSet(p.manifests) /\ \A m \in p.manifests : IsFiniteSet(m.deps)

LEMMA RequestsTyped ==
    ASSUME NEW r \in Requests
    PROVE  /\ Len(r) \in Nat \ {0} /\ DOMAIN r = 1..Len(r)
           /\ \A i \in DOMAIN r : IsProject(r[i])
<1>1. r # <<>> /\ r \in Seq({r[i] : i \in DOMAIN r})
    BY RequestsAssumption
<1>2. Len(r) \in Nat /\ DOMAIN r = 1..Len(r)
    BY <1>1
<1>3. Len(r) # 0
    BY <1>1
<1> QED BY <1>2, <1>3, RequestsAssumption DEF IsProject

LEMMA OrderTyped == Len(PathOrder) \in Nat /\ DOMAIN PathOrder = 1..Len(PathOrder)
BY PathOrderAssumption

-----------------------------------------------------------------------------
(* What is found in an npm lock file *)

\* The entries of a lock file that are read when the position in it is n.
Read(lock, n) == {p \in Packages(lock) \ {<<>>} : \E i \in 1..n : PathOrder[i] = p}

\* What is found says of every package read whether all its copies are bundled or for development.
Found(lock, read, found) ==
    /\ \A d \in found : IsDep(d)
    /\ \A p \in read : \E d \in found : SamePackage(d, Reported(lock, p))
    /\ \A d \in found :
         /\ d.dev <=> \A p \in read : SamePackage(d, Reported(lock, p)) => lock[p].dev
         /\ d.bundled <=> \A p \in read :
                SamePackage(d, Reported(lock, p)) => lock[p].source = "bundled"

LEMMA NothingFound == ASSUME NEW lock PROVE Found(lock, {}, {})
BY DEF Found

LEMMA ReadNext ==
    ASSUME NEW lock, NEW n \in Nat, n < Len(PathOrder)
    PROVE  Read(lock, n + 1) = IF Listed(lock, n + 1) THEN Read(lock, n) \cup {PathOrder[n + 1]}
                               ELSE Read(lock, n)
<1>1. \A i : i \in 1..(n + 1) <=> i \in 1..n \/ i = n + 1
    OBVIOUS
<1> QED BY <1>1 DEF Read, Listed

LEMMA ReadNothing == ASSUME NEW lock PROVE Read(lock, 0) = {}
BY DEF Read

LEMMA AllRead ==
    ASSUME NEW lock, IsLock(lock)
    PROVE  Read(lock, Len(PathOrder)) = Packages(lock) \ {<<>>}
<1>1. \A p \in DOMAIN lock : \E i \in 1..Len(PathOrder) : PathOrder[i] = p
    BY OrderTyped DEF IsLock, Parts
<1> QED BY <1>1 DEF Read, Packages

LEMMA ReportedTyped ==
    ASSUME NEW lock, NEW path, lock[path].dev \in BOOLEAN
    PROVE  LET new == Reported(lock, path)
           IN IsDep(new) /\ new.dev = lock[path].dev /\ new.bundled = (lock[path].source = "bundled")
BY DEF Reported, IsDep

LEMMA MarkedTyped ==
    ASSUME NEW d, IsDep(d), NEW b \in BOOLEAN, NEW c \in BOOLEAN,
           NEW e, e = [d EXCEPT !.bundled = b, !.dev = c]
    PROVE  IsDep(e) /\ SamePackage(e, d) /\ e.bundled = b /\ e.dev = c
BY DEF IsDep, SamePackage

LEMMA BothCopiesTyped ==
    ASSUME NEW d, NEW e, IsDep(d), IsDep(e)
    PROVE  /\ IsDep(BothCopies(d, e)) /\ SamePackage(BothCopies(d, e), d)
           /\ BothCopies(d, e).dev = (d.dev /\ e.dev)
           /\ BothCopies(d, e).bundled = (d.bundled /\ e.bundled)
<1>1. PICK b \in BOOLEAN : b = (d.bundled /\ e.bundled)
    OBVIOUS
<1>2. PICK c \in BOOLEAN : c = (d.dev /\ e.dev)
    OBVIOUS
<1>3. BothCopies(d, e) = [d EXCEPT !.bundled = b, !.dev = c]
    BY <1>1, <1>2, Zenon DEF BothCopies
<1>4. PICK x : x = BothCopies(d, e) /\ x = [d EXCEPT !.bundled = b, !.dev = c]
    BY <1>3, Zenon
<1>5. IsDep(x) /\ SamePackage(x, d) /\ x.bundled = b /\ x.dev = c
    BY <1>4, MarkedTyped, Zenon
<1> QED BY <1>1, <1>2, <1>4, <1>5, Zenon

LEMMA FoundMore ==
    ASSUME NEW lock, NEW read, NEW found, Found(lock, read, found), NEW path, lock[path].dev \in BOOLEAN
    PROVE  Found(lock, read \cup {path}, AddDep(found, Reported(lock, path)))
<1> DEFINE new == Reported(lock, path)
           more == AddDep(found, new)
           Same(d, p) == SamePackage(d, Reported(lock, p))
           Counts(d, p) == Same(d, p) => lock[p].dev
           CountsB(d, p) == Same(d, p) => lock[p].source = "bundled"
<1>1. IsDep(new) /\ new.dev = lock[path].dev /\ new.bundled = (lock[path].source = "bundled")
      /\ SamePackage(new, new)
    BY ReportedTyped DEF SamePackage
<1>2. \A d \in found : IsDep(d)
    BY DEF Found
<1>3. SUFFICES /\ \A d \in more : IsDep(d)
               /\ \A p \in read \cup {path} : \E d \in more : Same(d, p)
               /\ \A d \in more : /\ d.dev <=> \A p \in read \cup {path} : Counts(d, p)
                                  /\ d.bundled <=> \A p \in read \cup {path} : CountsB(d, p)
    BY DEF Found
<1>4. \A d, e, f : SamePackage(d, e) => (SamePackage(d, f) <=> SamePackage(e, f))
    BY DEF SamePackage
<1>5. CASE \E d \in found : SamePackage(d, new)
    <2> DEFINE Merged(d) == IF SamePackage(d, new) THEN BothCopies(d, new) ELSE d
    <2>1. more = {Merged(d) : d \in found}
        BY <1>5 DEF AddDep
    <2>2. ASSUME NEW d \in found
          PROVE  /\ IsDep(Merged(d)) /\ SamePackage(Merged(d), d)
                 /\ Merged(d).dev <=> \A p \in read \cup {path} : Counts(Merged(d), p)
                 /\ Merged(d).bundled <=> \A p \in read \cup {path} : CountsB(Merged(d), p)
        <3>1. IsDep(Merged(d)) /\ SamePackage(Merged(d), d)
            BY <1>1, <1>2, BothCopiesTyped DEF SamePackage
        <3>2. \A p : Same(Merged(d), p) <=> Same(d, p)
            BY <1>4, <3>1
        <3>3. /\ d.dev <=> \A p \in read : Counts(d, p)
              /\ d.bundled <=> \A p \in read : CountsB(d, p)
            BY DEF Found
        <3>4. CASE SamePackage(d, new)
            <4>1. Merged(d).dev = (d.dev /\ new.dev) /\ Merged(d).bundled = (d.bundled /\ new.bundled)
                <5>1. Merged(d) = BothCopies(d, new)
                    BY <3>4
                <5> HIDE DEF Merged
                <5> QED BY <1>1, <1>2, <5>1, BothCopiesTyped
            <4>2. Merged(d).dev <=> d.dev /\ Counts(d, path)
                BY <1>1, <1>2, <3>4, <4>1 DEF IsDep
            <4>3. Merged(d).bundled <=> d.bundled /\ CountsB(d, path)
                BY <1>1, <1>2, <3>4, <4>1 DEF IsDep
            <4> HIDE DEF Merged, Same
            <4> QED BY <3>1, <3>2, <3>3, <4>2, <4>3
        <3>5. CASE ~SamePackage(d, new)
            <4>1. Merged(d) = d /\ ~Same(d, path)
                BY <3>5
            <4> HIDE DEF Merged, Same
            <4> QED BY <3>1, <3>3, <4>1
        <3> QED BY <3>4, <3>5
    <2>3. ASSUME NEW p \in read \cup {path} PROVE \E d \in more : Same(d, p)
        <3>1. PICK d \in found : Same(d, p)
            BY <1>5, <2>3 DEF Found
        <3>2. Same(Merged(d), p)
            BY <1>4, <2>2, <3>1
        <3> HIDE DEF Merged, Same
        <3> QED BY <2>1, <3>2
    <2> HIDE DEF Merged, Same, more
    <2> QED BY <2>1, <2>2, <2>3
<1>6. CASE ~\E d \in found : SamePackage(d, new)
    <2>1. more = found \cup {new}
        BY <1>6 DEF AddDep
    <2>2. \A p \in read : ~SamePackage(new, Reported(lock, p))
        BY <1>6 DEF Found, SamePackage
    <2>3. \A d \in found : ~Same(d, path)
        BY <1>6
    <2>4. new.dev <=> \A p \in read \cup {path} : Counts(new, p)
        BY <1>1, <2>2
    <2>5. new.bundled <=> \A p \in read \cup {path} : CountsB(new, p)
        BY <1>1, <2>2
    <2>6. \A d \in found : /\ d.dev <=> \A p \in read \cup {path} : Counts(d, p)
                           /\ d.bundled <=> \A p \in read \cup {path} : CountsB(d, p)
        BY <2>3 DEF Found
    <2>7. \A p \in read : \E d \in found : Same(d, p)
        BY DEF Found
    <2> HIDE DEF Same, more, new
    <2>8. Same(new, path)
        BY <1>1 DEF Same, new
    <2> QED BY <1>1, <1>2, <2>1, <2>4, <2>5, <2>6, <2>7, <2>8
<1> QED BY <1>5, <1>6

-----------------------------------------------------------------------------
(* What a project needs in the bundle *)

Id(name, version) == <<name, version>>

\* The packages of a project that must be in the bundle are among some downloads.
Served(project, downloads) ==
    /\ project.manager = "npm" =>
         \A p \in Packages(project.lock) \ {<<>>} :
             project.lock[p].source \notin {"bundled", "file"} =>
                 <<PackageName(project.lock, p), ReportedVersion(project.lock[p])>> \in downloads
    /\ project.manager = "yarn" =>
         \A e \in project.lock : e.source # "file" =>
             <<e.name, IF e.source = "registry" THEN e.version ELSE e.source>> \in downloads

LEMMA SourcesKnown ==
    /\ "bundled" \in Sources /\ "file" \in Sources /\ "registry" \in Sources
    /\ External \subseteq Sources /\ Unsupported \subseteq Sources
    /\ "bundled" \notin External /\ "file" \notin External
BY DEF Sources, External, Unsupported

LEMMA NpmServed ==
    ASSUME NEW project, project.manager = "npm", IsLock(project.lock), NEW found, NEW already,
           Found(project.lock, Packages(project.lock) \ {<<>>}, found)
    PROVE  Served(project, ToDownload(found, already) \cup already)
<1> DEFINE lock == project.lock
<1>1. SUFFICES ASSUME NEW p \in Packages(lock) \ {<<>>}, lock[p].source \notin {"bundled", "file"}
               PROVE  <<PackageName(lock, p), ReportedVersion(lock[p])>>
                          \in ToDownload(found, already) \cup already
    BY DEF Served
<1>2. PICK d \in found : SamePackage(d, Reported(lock, p))
    BY DEF Found
<1>3. d.name = PackageName(lock, p) /\ d.version = ReportedVersion(lock[p])
    BY <1>2 DEF SamePackage, Reported
<1>4. ~d.bundled
    BY <1>1, <1>2 DEF Found
<1>5. d.version # "file"
    <2>1. lock[p].version \notin Sources
        BY DEF IsLock, Packages
    <2> QED BY <1>1, <1>3, <2>1, SourcesKnown DEF ReportedVersion
<1> QED BY <1>3, <1>4, <1>5 DEF ToDownload, Identifier

LEMMA YarnServed ==
    ASSUME NEW project, project.manager = "yarn", IsYarnLock(project.lock), NEW already, NEW found,
           found = YarnDeps(project.lock, project.manifests, project.workspaces)
    PROVE  Served(project, ToDownload(found, already) \cup already)
<1>1. SUFFICES ASSUME NEW e \in project.lock, e.source # "file"
               PROVE  <<e.name, IF e.source = "registry" THEN e.version ELSE e.source>>
                          \in ToDownload(found, already) \cup already
    BY DEF Served
<1> DEFINE d == EntryDep(project.lock, project.manifests, e)
<1>2. /\ d.name = e.name /\ d.version = IF e.source = "registry" THEN e.version ELSE e.source
      /\ ~d.bundled
    BY DEF EntryDep
<1>3. d.version # "file"
    BY <1>1, <1>2, SourcesKnown DEF IsYarnLock
<1>4. d \in found
    <2> HIDE DEF d
    <2>1. d \in {EntryDep(project.lock, project.manifests, f) : f \in project.lock}
        BY DEF d
    <2> QED BY <1>3, <2>1 DEF YarnDeps
<1> HIDE DEF d
<1> QED BY <1>2, <1>3, <1>4 DEF ToDownload, Identifier

LEMMA YarnDepsTyped ==
    ASSUME NEW lock, NEW manifests, NEW workspaces, NEW d \in YarnDeps(lock, manifests, workspaces)
    PROVE  d.bundled \in BOOLEAN /\ d.dev \in BOOLEAN
<1>1. CASE \E e \in lock : d = EntryDep(lock, manifests, e)
    <2>1. PICK e \in lock : d = EntryDep(lock, manifests, e)
        BY <1>1
    <2>2. PICK b \in BOOLEAN : b = (e.key \cap NonDev(lock, manifests) = {})
        OBVIOUS
    <2>3. d = [name |-> e.name, bundled |-> FALSE,
               version |-> IF e.source = "registry" THEN e.version ELSE e.source, dev |-> b]
        BY <2>1, <2>2, Zenon DEF EntryDep
    <2> QED BY <2>3
<1>2. CASE d \in {[name |-> w, bundled |-> FALSE, version |-> "file", dev |-> FALSE] : w \in workspaces}
    <2>1. PICK w \in workspaces : d = [name |-> w, bundled |-> FALSE, version |-> "file", dev |-> FALSE]
        BY <1>2
    <2> QED BY <2>1
<1> QED BY <1>1, <1>2 DEF YarnDeps

-----------------------------------------------------------------------------
(* What the requirements in an npm lock file ask for *)

\* The package at q is put into Nexus, and the requirement w is on it.
Moves(lock, q, w) ==
    /\ lock[q].source \in External
    /\ w[1] \in Dependents(lock, q) /\ w[2] = ChildName(lock, q)

Asks(lock, read, wants) ==
    /\ DOMAIN wants = DOMAIN NoWants(lock)
    /\ \A w \in DOMAIN wants :
         \/ wants[w] = AsDeclared /\ \A q \in read : ~Moves(lock, q, w)
         \/ \E q \in read : Moves(lock, q, w) /\ wants[w] = InNexus(lock, q)

LEMMA AsksNothing == ASSUME NEW lock PROVE Asks(lock, {}, NoWants(lock))
BY DEF Asks, NoWants

LEMMA AsksMore ==
    ASSUME NEW lock, NEW read, NEW wants, Asks(lock, read, wants), NEW path
    PROVE  Asks(lock, read \cup {path},
                IF lock[path].source \in External THEN Rewrite(lock, path, wants) ELSE wants)
<1>1. CASE lock[path].source \in External
    <2> DEFINE new == Rewrite(lock, path, wants)
    <2>1. DOMAIN new = DOMAIN wants
        BY DEF Rewrite
    <2>2. ASSUME NEW w \in DOMAIN wants
          PROVE  new[w] = IF Moves(lock, path, w) THEN InNexus(lock, path) ELSE wants[w]
        BY <1>1 DEF Rewrite, Moves
    <2> HIDE DEF new
    <2> QED BY <1>1, <2>1, <2>2 DEF Asks, new
<1>2. CASE lock[path].source \notin External
    BY <1>2 DEF Asks, Moves
<1> QED BY <1>1, <1>2

-----------------------------------------------------------------------------
(* The invariant *)

LockOf(i) == request[i].lock
Dependencies(lock) == Packages(lock) \ {<<>>}

\* What is returned for a project.
Resolved(project, result) ==
    /\ project.manager = "npm" =>
         /\ Found(project.lock, Dependencies(project.lock), result.deps)
         /\ Asks(project.lock, Dependencies(project.lock), result.lock)
         /\ result.manifest = NpmManifest(project)
    /\ project.manager = "yarn" =>
         /\ result.deps = YarnDeps(project.lock, project.manifests, project.workspaces)
         /\ result.lock = {NewEntry(project.lock, e) : e \in project.lock}
         /\ result.manifest = NewManifest(project.lock, project.manifest)

\* What is known of the project in progress when the entries in read are read.
Resolving(project, read) ==
    /\ project.manager = "npm" =>
         /\ Found(project.lock, read, deps)
         /\ Asks(project.lock, read, want)
    /\ project.manager = "yarn" /\ task = "download" =>
         deps = YarnDeps(project.lock, project.manifests, project.workspaces)

ResultsOK ==
    /\ \E S : results \in Seq(S)
    /\ Len(results) = IF task = "done" THEN current ELSE current - 1
    /\ \A i \in DOMAIN results : Resolved(request[i], results[i]) /\ Served(request[i], skip)

JsIInv ==
    /\ request \in Requests
    /\ task \in {"resolve", "download", "done", "failed"}
    /\ current \in DOMAIN request /\ (task = "done" => current = Len(request))
    /\ at \in 0..Len(PathOrder)
    /\ skip \subseteq bundle
    /\ \A d \in deps : d.bundled \in BOOLEAN /\ d.dev \in BOOLEAN
    /\ task = "resolve" => Resolving(Project, Read(Project.lock, at))
    /\ task = "resolve" /\ Project.manager = "yarn" => deps = {}
    /\ task = "download" => Resolving(Project, Dependencies(Project.lock))
    /\ ResultsOK

LEMMA JsInit == Init => JsIInv
<1> SUFFICES ASSUME Init PROVE JsIInv
    OBVIOUS
<1>1. /\ request \in Requests /\ current = 1 /\ at = 0 /\ deps = {} /\ skip = {} /\ bundle = {}
      /\ results = <<>> /\ task = "resolve"
    BY DEF Init
<1>2. 1 \in DOMAIN request /\ 0 \in 0..Len(PathOrder)
    BY <1>1, RequestsTyped, OrderTyped
<1>3. ASSUME Project.manager = "npm"
      PROVE  Found(Project.lock, {}, deps) /\ Asks(Project.lock, {}, want)
    <2>1. want = NoWants(Project.lock)
        BY <1>1, <1>3 DEF Init, Project, ManagerOf
    <2> QED BY <1>1, <2>1, NothingFound, AsksNothing
<1>4. Resolving(Project, Read(Project.lock, at))
    BY <1>1, <1>3, ReadNothing DEF Resolving
<1>5. ResultsOK
    <2>1. results \in Seq({}) /\ Len(results) = 0 /\ DOMAIN results = {}
        BY <1>1
    <2> QED BY <1>1, <2>1 DEF ResultsOK
<1> QED BY <1>1, <1>2, <1>4, <1>5 DEF JsIInv

LEMMA ProjectTyped ==
    ASSUME JsIInv
    PROVE  /\ IsProject(Project) /\ current \in Nat \ {0} /\ DOMAIN request = 1..Len(request)
           /\ Len(request) \in Nat
BY RequestsTyped DEF JsIInv, Project

\* The results of finished projects stay what they are.
LEMMA ResultsStay ==
    ASSUME JsIInv, UNCHANGED <<request, current, skip, results>>, (task = "done") = (task' = "done")
    PROVE  ResultsOK'
BY DEF JsIInv, ResultsOK, Resolved, Served

LEMMA JsFails ==
    ASSUME JsIInv, task # "done", task' = "failed", bundle \subseteq bundle',
           UNCHANGED <<request, current, at, want, deps, skip, results>>
    PROVE  JsIInv'
<1>1. ResultsOK'
    BY ResultsStay
<1> QED BY <1>1 DEF JsIInv

LEMMA NpmEntryStep ==
    ASSUME JsIInv, ReadNpmEntry
    PROVE  JsIInv'
<1> DEFINE lock == Project.lock
           path == PathOrder[at + 1]
<1>1. /\ task = "resolve" /\ task' = "resolve" /\ Project.manager = "npm" /\ at' = at + 1
      /\ at < Len(PathOrder) /\ at \in Nat
      /\ UNCHANGED <<request, current, skip, bundle, results>> /\ Project' = Project
    BY OrderTyped DEF ReadNpmEntry, JsIInv, ManagerOf, Project
<1>2. IsLock(lock)
    BY <1>1, ProjectTyped DEF IsProject
<1>3. Found(lock, Read(lock, at), deps) /\ Asks(lock, Read(lock, at), want)
    BY <1>1 DEF JsIInv, Resolving
<1>4. Found(lock, Read(lock, at + 1), deps') /\ Asks(lock, Read(lock, at + 1), want')
    <2>1. CASE Listed(lock, at + 1)
        <3>1. path \in DOMAIN lock /\ lock[path].dev \in BOOLEAN
            BY <1>2, <2>1 DEF Listed, IsLock, Packages
        <3>2. Read(lock, at + 1) = Read(lock, at) \cup {path}
            BY <1>1, <2>1, ReadNext
        <3>3. /\ deps' = AddDep(deps, Reported(lock, path))
              /\ want' = IF lock[path].source \in External THEN Rewrite(lock, path, want) ELSE want
            BY <2>1 DEF ReadNpmEntry
        <3>4. Found(lock, Read(lock, at) \cup {path}, AddDep(deps, Reported(lock, path)))
            BY <1>3, <3>1, FoundMore
        <3>5. Asks(lock, Read(lock, at) \cup {path},
                   IF lock[path].source \in External THEN Rewrite(lock, path, want) ELSE want)
            BY <1>3, AsksMore
        <3> HIDE DEF lock, path
        <3> QED BY <3>2, <3>3, <3>4, <3>5
    <2>2. CASE ~Listed(lock, at + 1)
        <3>1. Read(lock, at + 1) = Read(lock, at)
            BY <1>1, <2>2, ReadNext
        <3>2. deps' = deps /\ want' = want
            BY <2>2 DEF ReadNpmEntry
        <3> QED BY <1>3, <3>1, <3>2
    <2> QED BY <2>1, <2>2
<1>5. \A d \in deps' : d.bundled \in BOOLEAN /\ d.dev \in BOOLEAN
    BY <1>4 DEF Found, IsDep
<1>6. ResultsOK'
    BY <1>1, ResultsStay
<1>7. Resolving(Project, Read(Project.lock, at))'
    BY <1>1, <1>4 DEF Resolving
<1>8. at' \in 0..Len(PathOrder)
    BY <1>1, OrderTyped
<1> QED BY <1>1, <1>5, <1>6, <1>7, <1>8 DEF JsIInv

LEMMA NpmReadStep ==
    ASSUME JsIInv, NpmLockIsRead
    PROVE  JsIInv'
<1>1. /\ task = "resolve" /\ task' = "download" /\ Project.manager = "npm" /\ at = Len(PathOrder)
      /\ UNCHANGED <<request, current, at, want, deps, skip, bundle, results>> /\ Project' = Project
    BY DEF NpmLockIsRead, ManagerOf, Project
<1>2. Read(Project.lock, at) = Dependencies(Project.lock)
    BY <1>1, AllRead, ProjectTyped DEF IsProject, Dependencies
<1>3. Resolving(Project, Dependencies(Project.lock))'
    BY <1>1, <1>2 DEF JsIInv, Resolving
<1>4. ResultsOK'
    BY <1>1, ResultsStay
<1> QED BY <1>1, <1>3, <1>4 DEF JsIInv

LEMMA YarnReadStep ==
    ASSUME JsIInv, ReadYarnLock
    PROVE  JsIInv'
<1>1. /\ task = "resolve" /\ task' = "download" /\ Project.manager = "yarn"
      /\ deps' = YarnDeps(Project.lock, Project.manifests, Project.workspaces)
      /\ UNCHANGED <<request, current, at, want, skip, bundle, results>> /\ Project' = Project
    BY DEF ReadYarnLock, ManagerOf, Project
<1>2. \A d \in deps' : d.bundled \in BOOLEAN /\ d.dev \in BOOLEAN
    BY <1>1, YarnDepsTyped
<1>3. Resolving(Project, Dependencies(Project.lock))'
    BY <1>1 DEF Resolving
<1>4. ResultsOK'
    BY <1>1, ResultsStay
<1> QED BY <1>1, <1>2, <1>3, <1>4 DEF JsIInv

LEMMA DownloadStep ==
    ASSUME JsIInv, Download
    PROVE  JsIInv'
<1> DEFINE downloads == ToDownload(deps, skip)
<1>1. /\ task = "download" /\ request' = request
      /\ bundle' = bundle \cup downloads /\ skip' = skip \cup downloads
      /\ results' = Append(results, Result(Project)) /\ deps' = {} /\ at' = 0
      /\ \/ /\ current < Len(request) /\ current' = current + 1 /\ task' = "resolve"
            /\ want' = IF ManagerOf(request[current + 1]) = "npm"
                       THEN NoWants(request[current + 1].lock) ELSE <<>>
         \/ /\ ~(current < Len(request)) /\ current' = current /\ task' = "done"
    BY DEF Download, SkipAlso
<1>2. /\ current \in 1..Len(request) /\ Len(request) \in Nat /\ DOMAIN request = 1..Len(request)
      /\ current' \in DOMAIN request' /\ (task' = "done" => current' = Len(request'))
      /\ at' \in 0..Len(PathOrder) /\ request' \in Requests
    BY <1>1, ProjectTyped, OrderTyped DEF JsIInv
<1>3. skip' \subseteq bundle'
    BY <1>1 DEF JsIInv
<1>4. IsProject(Project) /\ Resolving(Project, Dependencies(Project.lock))
    BY <1>1, ProjectTyped DEF JsIInv
<1>5. Served(Project, skip')
    <2>1. CASE Project.manager = "npm"
        <3>1. IsLock(Project.lock) /\ Found(Project.lock, Packages(Project.lock) \ {<<>>}, deps)
            BY <1>4, <2>1 DEF IsProject, Resolving, Dependencies
        <3>2. Served(Project, downloads \cup skip)
            BY <2>1, <3>1, NpmServed
        <3> QED BY <1>1, <3>2 DEF Served
    <2>2. CASE Project.manager = "yarn"
        <3>1. IsYarnLock(Project.lock)
            BY <1>4, <2>2 DEF IsProject
        <3>2. deps = YarnDeps(Project.lock, Project.manifests, Project.workspaces)
            BY <1>1, <1>4, <2>2 DEF Resolving
        <3>3. Served(Project, downloads \cup skip)
            BY <2>2, <3>1, <3>2, YarnServed
        <3> QED BY <1>1, <3>3 DEF Served
    <2> QED BY <1>4, <2>1, <2>2 DEF IsProject
<1>6. Resolved(Project, Result(Project))
    <2>1. CASE Project.manager = "npm"
        BY <1>4, <2>1 DEF Resolving, Resolved, Result, ManagerOf
    <2>2. CASE Project.manager = "yarn"
        BY <1>1, <1>4, <2>2 DEF Resolving, Resolved, Result, ManagerOf
    <2> QED BY <1>4, <2>1, <2>2 DEF IsProject
<1>7. ResultsOK'
    <2>1. PICK S : results \in Seq(S)
        BY DEF JsIInv, ResultsOK
    <2>2. Len(results) = current - 1
        BY <1>1 DEF JsIInv, ResultsOK
    <2> DEFINE T == S \cup {Result(Project)}
    <2>3. results \in Seq(T) /\ Result(Project) \in T
        BY <2>1
    <2> HIDE DEF T
    <2>4. /\ results' \in Seq(T) /\ Len(results') = current /\ DOMAIN results' = 1..current
          /\ \A i \in 1..current : results'[i] = IF i = current THEN Result(Project) ELSE results[i]
        BY <1>1, <1>2, <2>2, <2>3
    <2>5. \A i \in 1..current : i # current => i \in DOMAIN results
        BY <1>2, <2>1, <2>2
    <2>6. ASSUME NEW i \in 1..current PROVE Resolved(request[i], results'[i]) /\ Served(request[i], skip')
        <3>1. CASE i = current
            BY <1>5, <1>6, <2>4, <3>1 DEF Project
        <3>2. CASE i # current
            <4>1. Resolved(request[i], results[i]) /\ Served(request[i], skip) /\ results'[i] = results[i]
                BY <2>4, <2>5, <3>2 DEF JsIInv, ResultsOK
            <4>2. skip \subseteq skip'
                BY <1>1
            <4> QED BY <4>1, <4>2 DEF Served
        <3> QED BY <3>1, <3>2
    <2>7. Len(results') = IF task' = "done" THEN current' ELSE current' - 1
        BY <1>1, <1>2, <2>4
    <2>8. \A i \in DOMAIN results' : Resolved(request'[i], results'[i]) /\ Served(request'[i], skip')
        BY <1>1, <2>4, <2>6
    <2>9. ResultsOK' <=> /\ \E U : results' \in Seq(U)
                         /\ Len(results') = IF task' = "done" THEN current' ELSE current' - 1
                         /\ \A i \in DOMAIN results' : Resolved(request'[i], results'[i])
                                                       /\ Served(request'[i], skip')
        BY DEF ResultsOK, Resolved, Served
    <2> QED BY <2>4, <2>7, <2>8, <2>9
<1>8. CASE task' = "resolve"
    <2>1. current' = current + 1 /\ Project' = request[current + 1]
        BY <1>1, <1>8 DEF Project
    <2>2. ASSUME Project'.manager = "npm"
          PROVE  Found(Project'.lock, {}, deps') /\ Asks(Project'.lock, {}, want')
        <3>1. want' = NoWants(Project'.lock)
            BY <1>1, <1>8, <2>1, <2>2 DEF ManagerOf
        <3> QED BY <1>1, <3>1, NothingFound, AsksNothing
    <2>3. Resolving(Project, Read(Project.lock, at))'
        BY <1>1, <1>8, <2>2, ReadNothing DEF Resolving
    <2> QED BY <1>1, <1>2, <1>3, <1>7, <1>8, <2>3 DEF JsIInv
<1>9. CASE task' = "done"
    BY <1>1, <1>2, <1>3, <1>7, <1>9 DEF JsIInv
<1> QED BY <1>1, <1>8, <1>9

LEMMA JsNext ==
    ASSUME JsIInv, [Next]_vars
    PROVE  JsIInv'
<1>1. CASE ReadNpmEntry
    BY <1>1, NpmEntryStep
<1>2. CASE RefuseNpmEntry \/ ConversionFails \/ RefuseYarnLock
    BY <1>2, JsFails DEF RefuseNpmEntry, ConversionFails, RefuseYarnLock, Fail
<1>3. CASE NpmLockIsRead
    BY <1>3, NpmReadStep
<1>4. CASE ReadYarnLock
    BY <1>4, YarnReadStep
<1>5. CASE Download
    BY <1>5, DownloadStep
<1>6. CASE DownloadFails
    BY <1>6, JsFails DEF DownloadFails
<1>7. CASE UNCHANGED vars
    BY <1>7 DEF vars, JsIInv, ResultsOK, Resolved, Served, Resolving, Project
<1> QED BY <1>1, <1>2, <1>3, <1>4, <1>5, <1>6, <1>7 DEF Next

LEMMA JsInvariance == JsSpec => []JsIInv
BY JsInit, JsNext, PTL DEF JsSpec

\* Downloads, results and positions are in their sets, and each project has had its turn, for
\* any request (resolve_npm, resolve_yarn, fetch_npm_source, fetch_yarn_source).
THEOREM JsTypeCorrect == JsSpec => []JsTypeOK
<1>1. JsIInv => JsTypeOK
    BY DEF JsIInv, ResultsOK, JsTypeOK
<1> QED BY <1>1, JsInvariance, PTL

\* The bundle of a finished task has the packages of every lock file, also of the projects that
\* found most of theirs downloaded already (download_dependencies, downloaded_deps).
THEOREM BundleAlwaysServesEveryProject == JsSpec => []BundleServesEveryProject
<1>1. ASSUME JsIInv PROVE BundleServesEveryProject
    <2>1. SUFFICES ASSUME task = "done", NEW i \in DOMAIN request
                   PROVE  Served(request[i], bundle) /\ IsProject(request[i])
        BY DEF BundleServesEveryProject, Served, IsProject, ManagerOf
    <2>2. i \in DOMAIN results
        BY <1>1, <2>1, ProjectTyped DEF JsIInv, ResultsOK
    <2>3. Served(request[i], skip) /\ skip \subseteq bundle
        BY <1>1, <2>2 DEF JsIInv, ResultsOK
    <2> QED BY <1>1, <2>1, <2>3, RequestsTyped DEF Served, JsIInv
<1> QED BY <1>1, JsInvariance, PTL

-----------------------------------------------------------------------------
(* What is reachable in a yarn lock file *)

Closed(lock, wants) == Wants(lock, wants) \subseteq wants

LEMMA WantsGrow ==
    ASSUME NEW lock, NEW few, NEW many, few \subseteq many
    PROVE  Wants(lock, few) \subseteq Wants(lock, many)
BY DEF Wants, EntryOf

Follows(lock, all, reach) ==
    \A found \in SUBSET all :
        reach[found] = IF Closed(lock, found) THEN found ELSE reach[found \cup Wants(lock, found)]

\* Reachable is a function of the requirements found so far, which has a value for all of them:
\* what every closed set of requirements around them has.
LEMMA ReachableUnfolds ==
    ASSUME NEW lock, NEW wants,
           NEW all, all = wants \cup UNION {e.needs : e \in lock}
    PROVE  \E reach : Reachable(lock, wants) = reach[wants] /\ Follows(lock, all, reach)
<1> DEFINE Eq(f) == f = [found \in SUBSET all |-> IF Wants(lock, found) \subseteq found THEN found
                                                ELSE f[found \cup Wants(lock, found)]]
           around(found) == {w \in all : \A c \in SUBSET all :
                                found \subseteq c /\ Closed(lock, c) => w \in c}
           g == [found \in SUBSET all |-> around(found)]
<1>1. \A found : Wants(lock, found) \subseteq all
    BY DEF Wants, EntryOf
<1>2. ASSUME NEW found \in SUBSET all, Closed(lock, found) PROVE around(found) = found
    BY <1>2
<1>3. ASSUME NEW found \in SUBSET all
      PROVE  around(found) = around(found \cup Wants(lock, found))
    <2>1. ASSUME NEW c \in SUBSET all, Closed(lock, c), found \subseteq c
          PROVE  found \cup Wants(lock, found) \subseteq c
        BY <2>1, WantsGrow DEF Closed
    <2> QED BY <2>1
<1>4. Eq(g)
    <2>1. \A found \in SUBSET all :
              g[found] = IF Wants(lock, found) \subseteq found THEN found
                         ELSE g[found \cup Wants(lock, found)]
        <3>1. \A found \in SUBSET all : g[found] = around(found)
            OBVIOUS
        <3>2. \A found \in SUBSET all : found \cup Wants(lock, found) \in SUBSET all
            BY <1>1
        <3> HIDE DEF g, around
        <3> QED BY <1>2, <1>3, <3>1, <3>2 DEF Closed
    <2>2. g = [found \in SUBSET all |-> g[found]]
        OBVIOUS
    <2> HIDE DEF g
    <2> QED BY <2>1, <2>2
<1> DEFINE reach == CHOOSE f : Eq(f)
<1>5. Eq(reach)
    <2> HIDE DEF Eq, g
    <2> QED BY <1>4
<1>6. Reachable(lock, wants) = reach[wants]
    BY DEF Reachable
<1>7. ASSUME NEW found \in SUBSET all
      PROVE  reach[found] = IF Closed(lock, found) THEN found
                            ELSE reach[found \cup Wants(lock, found)]
    <2> HIDE DEF reach
    <2> QED BY <1>5 DEF Closed
<1> HIDE DEF reach
<1>8. Follows(lock, all, reach)
    BY <1>7 DEF Follows
<1> QED BY <1>6, <1>8

\* It has what it starts with, is closed, and is contained in every closed set around that.
Least(lock, found, reached) ==
    /\ found \subseteq reached /\ Closed(lock, reached)
    /\ \A c : found \subseteq c /\ Closed(lock, c) => reached \subseteq c

LEMMA ReachableIsLeast ==
    ASSUME NEW lock, NEW wants, IsFiniteSet(wants), IsFiniteSet(lock),
           \A e \in lock : IsFiniteSet(e.needs)
    PROVE  Least(lock, wants, Reachable(lock, wants))
<1>0. PICK all : all = wants \cup UNION {e.needs : e \in lock}
    OBVIOUS
<1>1. IsFiniteSet(all)
    <2>1. IsFiniteSet({e.needs : e \in lock})
        <3> DEFINE needs == [e \in lock |-> e.needs]
        <3>1. needs \in Surjection(lock, {needs[e] : e \in lock})
            BY DEF Surjection
        <3>3. IsFiniteSet({needs[e] : e \in lock})
            <4> HIDE DEF needs
            <4> QED BY <3>1, FS_Surjection
        <3>2. {needs[e] : e \in lock} = {e.needs : e \in lock}
            OBVIOUS
        <3> QED BY <3>2, <3>3
    <2>2. IsFiniteSet(UNION {e.needs : e \in lock})
        BY <2>1, FS_UNION
    <2> QED BY <1>0, <2>2, FS_Union
<1>2. PICK reach : Reachable(lock, wants) = reach[wants] /\ Follows(lock, all, reach)
    BY <1>0, ReachableUnfolds
<1>3. \A found : Wants(lock, found) \subseteq all
    BY <1>0 DEF Wants, EntryOf
<1> DEFINE Wrong == {found \in SUBSET all : ~Least(lock, found, reach[found])}
           Left(found) == all \ found
           A == {Left(found) : found \in Wrong}
           R == StrictSubsetOrdering(all)
<1>4. SUFFICES Wrong = {}
    BY <1>0, <1>2
<1>5. SUFFICES ASSUME Wrong # {} PROVE FALSE
    OBVIOUS
<1>6. IsWellFoundedOn(R, SUBSET all)
    BY <1>1, FS_StrictSubsetOrderingWellFounded, FS_FiniteSubsetsOfFinite
<1>7. A \subseteq SUBSET all /\ A # {}
    BY <1>5
<1>8. PICK a \in A : \A b \in A : <<b, a>> \notin R
    <2> HIDE DEF A, R
    <2> QED BY <1>6, <1>7, WFMin
<1>9. PICK found \in Wrong : a = Left(found)
    BY <1>8
<1>10. ~Closed(lock, found)
    <2>1. Closed(lock, found) => Least(lock, found, found)
        BY DEF Least
    <2> QED BY <1>2, <1>9, <2>1 DEF Follows
<1> DEFINE more == found \cup Wants(lock, found)
<1>11. more \in SUBSET all /\ found \subseteq more /\ more # found /\ reach[found] = reach[more]
    BY <1>2, <1>3, <1>9, <1>10 DEF Closed, Follows
<1>12. <<Left(more), a>> \in R
    <2>1. Left(more) \in SUBSET all /\ Left(found) \in SUBSET all
          /\ Left(more) \subseteq Left(found) /\ Left(more) # Left(found)
        BY <1>9, <1>11
    <2> HIDE DEF Left, more
    <2> QED BY <1>9, <2>1 DEF StrictSubsetOrdering
<1>13. more \notin Wrong
    BY <1>8, <1>12
<1>14. Least(lock, more, reach[more])
    BY <1>11, <1>13
<1>15. \A c : found \subseteq c /\ Closed(lock, c) => more \subseteq c
    BY WantsGrow DEF Closed
<1>16. Least(lock, found, reach[found])
    <2> HIDE DEF more, Wrong
    <2> QED BY <1>11, <1>14, <1>15 DEF Least
<1> QED BY <1>9, <1>16

\* Sets of entries that have the runtime dependencies and all that these depend on.
ClosedSets(lock, roots) ==
    {s \in SUBSET lock :
        /\ \A w \in roots : EntryOf(lock, w) \subseteq s
        /\ \A f \in s : \A w \in f.needs : EntryOf(lock, w) \subseteq s}

\* An entry is needed in production if one of its requirements is reachable from there: then,
\* and only then, every closed set of entries with the runtime dependencies has it.
LEMMA NotNeeded ==
    ASSUME NEW lock, NEW roots, NEW reached, Least(lock, roots, reached), NEW e \in lock
    PROVE  e.key \cap reached = {} <=> \E s \in ClosedSets(lock, roots) : e \notin s
<1> DEFINE closed == ClosedSets(lock, roots)
<1>1. ASSUME e.key \cap reached = {} PROVE \E s \in closed : e \notin s
    <2> DEFINE s == {f \in lock : f.key \cap reached # {}}
    <2>1. \A w \in roots : EntryOf(lock, w) \subseteq s
        BY DEF Least, EntryOf
    <2>2. ASSUME NEW f \in s, NEW w \in f.needs PROVE EntryOf(lock, w) \subseteq s
        <3>1. PICK v \in f.key : v \in reached
            OBVIOUS
        <3>2. f \in EntryOf(lock, v)
            BY <3>1 DEF EntryOf
        <3>3. w \in Wants(lock, reached)
            BY <2>2, <3>1, <3>2 DEF Wants
        <3>4. w \in reached
            BY <3>3 DEF Least, Closed
        <3> QED BY <3>4 DEF EntryOf
    <2>3. s \in SUBSET lock /\ e \notin s
        BY <1>1
    <2> HIDE DEF s
    <2> QED BY <2>1, <2>2, <2>3 DEF ClosedSets
<1>2. ASSUME NEW s \in closed, e \notin s PROVE e.key \cap reached = {}
    <2> DEFINE c == {w \in reached : EntryOf(lock, w) \subseteq s}
    <2>1. roots \subseteq c
        BY DEF Least, ClosedSets
    <2>2. Closed(lock, c)
        <3> SUFFICES ASSUME NEW w \in Wants(lock, c) PROVE w \in c
            BY DEF Closed
        <3>1. PICK v \in c : \E f \in EntryOf(lock, v) : w \in f.needs
            BY DEF Wants
        <3>2. PICK f \in s : w \in f.needs /\ f \in lock /\ f \in EntryOf(lock, v)
            BY <3>1 DEF EntryOf
        <3>3. EntryOf(lock, w) \subseteq s
            BY <3>2 DEF ClosedSets
        <3>4. w \in Wants(lock, reached)
            BY <3>1, <3>2 DEF Wants
        <3> QED BY <3>3, <3>4 DEF Least, Closed
    <2>3. reached \subseteq c
        <3> HIDE DEF c
        <3> QED BY <2>1, <2>2 DEF Least
    <2>4. ASSUME NEW w \in e.key \cap reached PROVE FALSE
        BY <1>2, <2>3, <2>4 DEF EntryOf
    <2> QED BY <2>4
<1> QED BY <1>1, <1>2

LEMMA ResultsAre ==
    ASSUME JsIInv, NEW i \in DOMAIN results
    PROVE  /\ i \in DOMAIN request /\ IsProject(request[i]) /\ Resolved(request[i], results[i])
<1>1. DOMAIN results = 1..Len(results) /\ Len(results) \in Nat /\ Len(results) <= current
    BY ProjectTyped DEF JsIInv, ResultsOK
<1>2. i \in DOMAIN request
    BY <1>1, ProjectTyped DEF JsIInv
<1> QED BY <1>2, RequestsTyped DEF JsIInv, ResultsOK

IsReported(d, e, closed) ==
    /\ d.name = e.name
    /\ d.version = IF e.source = "registry" THEN e.version ELSE e.source
    /\ e.source # "file" => (d.dev <=> \E s \in closed : e \notin s)

\* An entry of a yarn lock file is reported, and as one for development if it is not needed.
LEMMA YarnDevMeansNotNeeded ==
    ASSUME NEW lock, IsYarnLock(lock), NEW manifests, IsFiniteSet(manifests),
           \A m \in manifests : IsFiniteSet(m.deps),
           NEW workspaces, NEW found, found = YarnDeps(lock, manifests, workspaces),
           NEW e \in lock, NEW roots, roots = UNION {m.deps : m \in manifests}
    PROVE  \E d \in found : IsReported(d, e, ClosedSets(lock, roots))
<1> DEFINE closed == ClosedSets(lock, roots)
           d == EntryDep(lock, manifests, e)
           l == [name |-> e.name, bundled |-> FALSE, version |-> "file", dev |-> FALSE]
<1>1. IsFiniteSet(roots)
    <2> DEFINE deps_of == [m \in manifests |-> m.deps]
               sets == {deps_of[m] : m \in manifests}
    <2>1. deps_of \in Surjection(manifests, sets)
        BY DEF Surjection
    <2>2. IsFiniteSet(sets)
        <3> HIDE DEF deps_of
        <3> QED BY <2>1, FS_Surjection
    <2>3. sets = {m.deps : m \in manifests}
        OBVIOUS
    <2> HIDE DEF sets
    <2> QED BY <2>2, <2>3, FS_UNION
<1>2. Least(lock, roots, NonDev(lock, manifests))
    BY <1>1, ReachableIsLeast DEF NonDev, IsYarnLock
<1>3. /\ d.name = e.name /\ d.version = IF e.source = "registry" THEN e.version ELSE e.source
      /\ d.dev <=> e.key \cap NonDev(lock, manifests) = {}
    BY DEF EntryDep
<1>4. d.dev <=> \E s \in closed : e \notin s
    <2>1. e.key \cap NonDev(lock, manifests) = {} <=> \E s \in closed : e \notin s
        <3>1. PICK reached : reached = NonDev(lock, manifests)
            OBVIOUS
        <3>2. e.key \cap reached = {} <=> \E s \in ClosedSets(lock, roots) : e \notin s
            BY <1>2, <3>1, NotNeeded
        <3> QED BY <3>1, <3>2
    <2> HIDE DEF d
    <2> QED BY <1>3, <2>1
<1>5. d \in {EntryDep(lock, manifests, f) : f \in lock}
    OBVIOUS
<1>6. CASE d \in found
    <2> HIDE DEF d
    <2> QED BY <1>3, <1>4, <1>6 DEF IsReported
<1>7. CASE d \notin found
    <2> DEFINE Local(w) == [name |-> w, bundled |-> FALSE, version |-> "file", dev |-> FALSE]
    <2>1. PICK w \in workspaces : Local(w).name = d.name /\ Local(w).version = d.version
        <3> HIDE DEF d, Local
        <3>1. found = {x \in {EntryDep(lock, manifests, f) : f \in lock} :
                           ~\E y \in {Local(w) : w \in workspaces} :
                               y.name = x.name /\ y.version = x.version}
                      \cup {Local(w) : w \in workspaces}
            BY DEF YarnDeps, Local
        <3> QED BY <1>5, <1>7, <3>1
    <2>2. Local(w) \in found
        BY DEF YarnDeps
    <2>3. d.version = "file" /\ Local(w).name = e.name /\ Local(w).version = "file"
        BY <1>3, <2>1
    <2>4. e.source = "file"
        BY <1>3, <2>3, SourcesKnown DEF IsYarnLock
    <2> HIDE DEF d, Local
    <2> QED BY <1>3, <2>2, <2>3, <2>4 DEF IsReported
<1> QED BY <1>6, <1>7

\* What is reported as for development only is that: in every copy of an npm package, and in a
\* yarn.lock everything production can do without (AddDep, _find_non_dev_deps).
THEOREM DevAlwaysMeansNotNeeded == JsSpec => []DevMeansNotNeeded
<1>1. ASSUME JsIInv PROVE DevMeansNotNeeded
    <2>1. ASSUME NEW i \in Finished("npm"), NEW d \in results[i].deps
          PROVE  d.dev <=> LET lock == request[i].lock
                           IN \A p \in Packages(lock) \ {<<>>} :
                                SamePackage(d, Reported(lock, p)) => lock[p].dev
        <3>1. i \in DOMAIN results /\ request[i].manager = "npm"
            BY DEF Finished, ManagerOf
        <3>2. Resolved(request[i], results[i])
            BY <1>1, <3>1, ResultsAre
        <3> QED BY <3>1, <3>2 DEF Resolved, Found, Dependencies
    <2>2. ASSUME NEW i \in Finished("yarn"), NEW e \in request[i].lock
          PROVE  LET roots == UNION {m.deps : m \in request[i].manifests}
                 IN \E d \in results[i].deps : IsReported(d, e, ClosedSets(request[i].lock, roots))
        <3>1. i \in DOMAIN results /\ request[i].manager = "yarn"
            BY DEF Finished, ManagerOf
        <3>2. Resolved(request[i], results[i]) /\ IsProject(request[i])
            BY <1>1, <3>1, ResultsAre
        <3>3. /\ IsYarnLock(request[i].lock) /\ IsFiniteSet(request[i].manifests)
              /\ \A m \in request[i].manifests : IsFiniteSet(m.deps)
            BY <3>1, <3>2 DEF IsProject
        <3>4. results[i].deps = YarnDeps(request[i].lock, request[i].manifests,
                                         request[i].workspaces)
            BY <3>1, <3>2 DEF Resolved
        <3> QED BY <3>3, <3>4, YarnDevMeansNotNeeded
    <2> QED BY <2>1, <2>2 DEF DevMeansNotNeeded, IsReported, ClosedSets
<1> QED BY <1>1, JsInvariance, PTL

-----------------------------------------------------------------------------
(* Requirements on entries of a new yarn lock file *)

LEMMA NewEntryIs ==
    ASSUME NEW lock, IsYarnLock(lock), NEW e \in lock
    PROVE  LET new == NewEntry(lock, e)
           IN /\ new.name = e.name /\ new.version = e.version /\ new.source = e.source
              /\ new.needs = {Rewritten(lock, w) : w \in e.needs}
              /\ new.key = IF ExternalEntry(e) THEN {Replaced(e.name, e.source)} ELSE e.key
BY DEF NewEntry, IsYarnLock

LEMMA KeysAreDeclared ==
    ASSUME NEW lock, IsYarnLock(lock), NEW e \in lock, NEW w \in e.key
    PROVE  /\ w \in Requirements /\ w[1] = e.name
           /\ \A name, source : w # Replaced(name, source)
           /\ EntryOf(lock, w) = {e}
<1>1. w \in Requirements /\ w[1] = e.name /\ w[2] = "declared"
    BY DEF IsYarnLock
<1>2. \A name, source : w # Replaced(name, source)
    BY <1>1 DEF Replaced, Requirements
<1>3. EntryOf(lock, w) = {e}
    BY DEF EntryOf, IsYarnLock
<1> QED BY <1>1, <1>2, <1>3

LEMMA RewrittenIs ==
    ASSUME NEW lock, IsYarnLock(lock), NEW e \in lock, NEW w \in e.key
    PROVE  Rewritten(lock, w) = IF ExternalEntry(e) THEN Replaced(e.name, e.source) ELSE w
<1>1. EntryOf(lock, w) = {e} /\ w[1] = e.name
    BY KeysAreDeclared
<1>2. CASE ExternalEntry(e)
    <2>1. {f \in EntryOf(lock, w) : ExternalEntry(f)} = {e}
        BY <1>1, <1>2
    <2> QED BY <1>1, <1>2, <2>1 DEF Rewritten
<1>3. CASE ~ExternalEntry(e)
    <2>1. {f \in EntryOf(lock, w) : ExternalEntry(f)} = {}
        BY <1>1, <1>3
    <2> QED BY <1>3, <2>1 DEF Rewritten
<1> QED BY <1>2, <1>3

LEMMA RewrittenName ==
    ASSUME NEW lock, NEW w \in Requirements
    PROVE  Rewritten(lock, w)[1] = w[1]
BY DEF Rewritten, Replaced, Requirements

\* The new form of a requirement is met by the new form of the entry that met it, and by nothing
\* else that has its name, version and source.
LEMMA RewrittenFollows ==
    ASSUME NEW lock, IsYarnLock(lock), NEW new, new = {NewEntry(lock, e) : e \in lock},
           NEW w, NEW e \in EntryOf(lock, w)
    PROVE  EntryOf(new, Rewritten(lock, w)) =
               {f \in new : f.name = e.name /\ f.version = e.version /\ f.source = e.source}
<1>1. e \in lock /\ w \in e.key
    BY DEF EntryOf
<1>2. ASSUME NEW g \in lock PROVE Rewritten(lock, w) \in NewEntry(lock, g).key <=> g = e
    <2>1. NewEntry(lock, g).key = IF ExternalEntry(g) THEN {Replaced(g.name, g.source)} ELSE g.key
        BY NewEntryIs
    <2>2. Rewritten(lock, w) = IF ExternalEntry(e) THEN Replaced(e.name, e.source) ELSE w
        BY <1>1, RewrittenIs
    <2>3. \A v \in g.key : \A name, source : v # Replaced(name, source)
        BY KeysAreDeclared
    <2>4. \A name, source : w # Replaced(name, source)
        BY <1>1, KeysAreDeclared
    <2>5. w \in g.key => g = e
        BY <1>1 DEF IsYarnLock
    <2>6. \A n1, s1, n2, s2 : Replaced(n1, s1) = Replaced(n2, s2) => n1 = n2 /\ s1 = s2
        BY DEF Replaced
    <2>7. g.name = e.name /\ g.source = e.source /\ ExternalEntry(e) => g = e
        BY <1>1 DEF IsYarnLock
    <2>8. CASE ExternalEntry(e)
        BY <1>1, <2>1, <2>2, <2>3, <2>6, <2>7, <2>8
    <2>9. CASE ~ExternalEntry(e)
        BY <1>1, <2>1, <2>2, <2>4, <2>5, <2>9
    <2> QED BY <2>8, <2>9
<1>3. ASSUME NEW g \in lock
      PROVE  /\ NewEntry(lock, g).name = e.name /\ NewEntry(lock, g).version = e.version
             /\ NewEntry(lock, g).source = e.source
             <=> g = e
    <2>1. g.name = e.name /\ g.source = e.source /\ g.version = e.version => g = e
        BY <1>1 DEF IsYarnLock
    <2>2. /\ NewEntry(lock, g).name = g.name /\ NewEntry(lock, g).version = g.version
          /\ NewEntry(lock, g).source = g.source
        BY NewEntryIs
    <2> QED BY <2>1, <2>2
<1>4. \A f \in new : \E g \in lock : f = NewEntry(lock, g)
    OBVIOUS
<1> QED BY <1>2, <1>3, <1>4 DEF EntryOf

\* In the files that are returned for a yarn project every requirement leads to the entry it led
\* to (_replace_deps_in_yarn_lock, _replace_deps_in_package_json).
THEOREM YarnLockAlwaysAgrees == JsSpec => []YarnLockAgrees
<1>1. ASSUME JsIInv PROVE YarnLockAgrees
    <2> SUFFICES ASSUME NEW i \in Finished("yarn")
                 PROVE  LET lock == request[i].lock
                            new == results[i].lock
                            FollowsTo(want1, want2) ==
                                \A e \in EntryOf(lock, want1) :
                                    EntryOf(new, want2) = {f \in new : f.name = e.name /\ f.version = e.version
                                                                       /\ f.source = e.source}
                        IN /\ \A w \in request[i].manifest.deps : \E v \in results[i].manifest.deps : FollowsTo(w, v)
                           /\ \A w \in request[i].manifest.dev : \E v \in results[i].manifest.dev : FollowsTo(w, v)
                           /\ \A e \in lock : \E f \in new :
                                /\ f.name = e.name /\ f.version = e.version
                                /\ \A w \in e.needs : \E v \in f.needs : v[1] = w[1] /\ FollowsTo(w, v)
        BY DEF YarnLockAgrees
    <2> DEFINE lock == request[i].lock
               new == results[i].lock
               FollowsTo(want1, want2) ==
                   \A e \in EntryOf(lock, want1) :
                       EntryOf(new, want2) = {f \in new : f.name = e.name /\ f.version = e.version
                                                          /\ f.source = e.source}
    <2>1. i \in DOMAIN results /\ request[i].manager = "yarn"
        BY DEF Finished, ManagerOf
    <2>2. Resolved(request[i], results[i]) /\ IsYarnLock(lock)
        BY <1>1, <2>1, ResultsAre DEF IsProject
    <2>3. new = {NewEntry(lock, e) : e \in lock}
          /\ results[i].manifest = NewManifest(lock, request[i].manifest)
        BY <2>1, <2>2 DEF Resolved
    <2>4. \A w : FollowsTo(w, Rewritten(lock, w))
        BY <2>2, <2>3, RewrittenFollows
    <2>5. /\ results[i].manifest.deps = {Rewritten(lock, w) : w \in request[i].manifest.deps}
          /\ results[i].manifest.dev = {Rewritten(lock, w) : w \in request[i].manifest.dev}
        BY <2>3 DEF NewManifest
    <2>6. ASSUME NEW e \in lock
          PROVE  \E f \in new : /\ f.name = e.name /\ f.version = e.version
                                /\ \A w \in e.needs : \E v \in f.needs : v[1] = w[1] /\ FollowsTo(w, v)
        <3>1. NewEntry(lock, e) \in new
            BY <2>3
        <3>2. /\ NewEntry(lock, e).name = e.name /\ NewEntry(lock, e).version = e.version
              /\ NewEntry(lock, e).needs = {Rewritten(lock, w) : w \in e.needs}
            BY <2>2, NewEntryIs
        <3>3. \A w \in e.needs : Rewritten(lock, w)[1] = w[1]
            BY <2>2, RewrittenName DEF IsYarnLock
        <3> HIDE DEF FollowsTo, new, lock
        <3> QED BY <2>4, <3>1, <3>2, <3>3
    <2>7. /\ \A w \in request[i].manifest.deps : \E v \in results[i].manifest.deps : FollowsTo(w, v)
          /\ \A w \in request[i].manifest.dev : \E v \in results[i].manifest.dev : FollowsTo(w, v)
        <3> HIDE DEF FollowsTo, lock
        <3> QED BY <2>4, <2>5
    <2> QED BY <2>6, <2>7
<1> QED BY <1>1, JsInvariance, PTL

-----------------------------------------------------------------------------
(* Sequences and sets of numbers *)

\* The parts of a path below a directory.
LEMMA Below ==
    ASSUME NEW S, NEW q \in Seq(S), NEW a \in S, NEW b \in S, NEW p, p = q \o <<a, b>>
    PROVE  /\ p \in Seq(S) /\ p # <<>> /\ Len(p) = Len(q) + 2 /\ p[Len(q) + 2] = b
           /\ p[Len(q) + 1] = a /\ a \in Parts(p)
           /\ \A k \in 1..Len(q) : p[k] = q[k]
           /\ Up(Up(p)) = q /\ (Up(p) = <<a>> <=> q = <<>>)
<1>1. p \in Seq(S) /\ Len(p) = Len(q) + 2 /\ Len(q) \in Nat /\ DOMAIN p = 1..Len(p)
    OBVIOUS
<1>2. p[Len(q) + 1] = a /\ p[Len(q) + 2] = b /\ \A k \in 1..Len(q) : p[k] = q[k]
    OBVIOUS
<1>3. a \in Parts(p)
    BY <1>1, <1>2 DEF Parts
<1>4. Up(p) \in Seq(S) /\ Len(Up(p)) = Len(q) + 1 /\ \A k \in 1..(Len(q) + 1) : Up(p)[k] = p[k]
    BY <1>1, SubSeqProperties DEF Up
<1>5. PICK u \in Seq(S) : u = Up(p) /\ Len(u) = Len(q) + 1 /\ \A k \in 1..(Len(q) + 1) : u[k] = p[k]
    BY <1>4
<1>6. Up(u) \in Seq(S) /\ Len(Up(u)) = Len(q) /\ \A k \in 1..Len(q) : Up(u)[k] = u[k]
    BY <1>1, <1>5, SubSeqProperties DEF Up
<1>7. Up(Up(p)) = q
    <2>1. PICK v \in Seq(S) : v = Up(u) /\ Len(v) = Len(q) /\ \A k \in 1..Len(q) : v[k] = u[k]
        BY <1>6
    <2>2. \A k \in 1..Len(q) : v[k] = q[k]
        <3> SUFFICES ASSUME NEW k \in 1..Len(q) PROVE v[k] = q[k]
            OBVIOUS
        <3>1. k \in 1..(Len(q) + 1)
            BY <1>1
        <3>2. u[k] = p[k]
            BY <1>5, <3>1
        <3>3. p[k] = q[k]
            BY <1>2
        <3> QED BY <2>1, <3>2, <3>3
    <2>3. v = q
        BY <2>1, <2>2, SeqEqual
    <2> QED BY <1>5, <2>1, <2>3
<1>8. Up(p) = <<a>> <=> q = <<>>
    <2>1. <<a>> \in Seq(S) /\ Len(<<a>>) = 1 /\ <<a>>[1] = a
        OBVIOUS
    <2>2. q = <<>> <=> Len(q) = 0
        OBVIOUS
    <2>3. ASSUME Len(q) = 0 PROVE u = <<a>>
        <3>1. Len(u) = 1 /\ u[1] = a
            BY <1>2, <1>5, <2>3
        <3>2. \A k \in 1..Len(u) : u[k] = <<a>>[k]
            BY <2>1, <3>1
        <3> QED BY <1>5, <2>1, <3>1, <3>2, SeqEqual
    <2> QED BY <1>1, <1>5, <2>1, <2>2, <2>3
<1>9. p # <<>>
    BY <1>1
<1> QED BY <1>1, <1>2, <1>3, <1>7, <1>8, <1>9

\* A bounded set of numbers has a greatest one.
LEMMA Greatest ==
    ASSUME NEW S \in SUBSET Nat, S # {}, NEW n \in Nat, \A k \in S : k <= n
    PROVE  \E m \in S : \A k \in S : k <= m
<1> DEFINE Above(m) == {k \in S : k > m}
           A == {Above(m) : m \in S}
           R == StrictSubsetOrdering(S)
<1>1. IsFiniteSet(S)
    <2>1. S \subseteq 0..n /\ IsFiniteSet(0..n)
        BY FS_Interval
    <2> QED BY <2>1, FS_Subset
<1>2. IsWellFoundedOn(R, SUBSET S)
    BY <1>1, FS_StrictSubsetOrderingWellFounded, FS_FiniteSubsetsOfFinite
<1>3. A \subseteq SUBSET S /\ A # {}
    OBVIOUS
<1>4. PICK a \in A : \A b \in A : <<b, a>> \notin R
    <2> HIDE DEF A, R
    <2> QED BY <1>2, <1>3, WFMin
<1>5. PICK m \in S : a = Above(m)
    BY <1>4
<1>6. ASSUME NEW k \in S PROVE k <= m
    <2> SUFFICES ASSUME k > m PROVE FALSE
        OBVIOUS
    <2>1. Above(k) \subseteq Above(m) /\ k \in Above(m) /\ k \notin Above(k)
        <3>1. k \in Nat /\ m \in Nat
            OBVIOUS
        <3>2. \A j \in S : j > k => j > m
            BY <3>1
        <3>3. ~(k > k)
            BY <3>1
        <3> QED BY <3>2, <3>3
    <2>2. Above(k) \in A /\ Above(k) \in SUBSET S /\ Above(m) \in SUBSET S
        OBVIOUS
    <2>3. <<Above(k), a>> \in R
        <3> HIDE DEF Above
        <3> QED BY <1>5, <2>1, <2>2 DEF StrictSubsetOrdering
    <2> QED BY <1>4, <2>2, <2>3
<1> QED BY <1>5, <1>6

LEMMA Smallest ==
    ASSUME NEW S \in SUBSET Nat, S # {}
    PROVE  \E m \in S : \A k \in S : m <= k
<1>1. PICK n \in S : TRUE
    OBVIOUS
<1> DEFINE T == {n - k : k \in {k \in S : k <= n}}
<1>2. T \in SUBSET Nat /\ T # {} /\ \A t \in T : t <= n
    OBVIOUS
<1>3. PICK t \in T : \A u \in T : u <= t
    <2> HIDE DEF T
    <2> QED BY <1>1, <1>2, Greatest
<1>4. PICK m \in S : m <= n /\ t = n - m
    OBVIOUS
<1>5. ASSUME NEW k \in S PROVE m <= k
    <2>1. CASE k <= n
        <3>1. n - k \in T
            BY <2>1
        <3>2. n - k <= n - m
            <4> HIDE DEF T
            <4> QED BY <1>3, <1>4, <3>1
        <3> QED BY <3>2
    <2>2. CASE k > n
        BY <1>4, <2>2
    <2> QED BY <2>1, <2>2
<1> QED BY <1>5

LEMMA Prefix ==
    ASSUME NEW S, NEW s \in Seq(S), NEW k \in 0..Len(s)
    PROVE  /\ SubSeq(s, 1, k) \in Seq(S) /\ Len(SubSeq(s, 1, k)) = k
           /\ \A i \in 1..k : SubSeq(s, 1, k)[i] = s[i]
           /\ k = Len(s) => SubSeq(s, 1, k) = s
<1>1. k \in Nat /\ \A i \in 1..k : s[i] \in S
    OBVIOUS
<1>2. /\ SubSeq(s, 1, k) \in Seq(S) /\ Len(SubSeq(s, 1, k)) = k
      /\ \A i \in 1..k : SubSeq(s, 1, k)[i] = s[i]
    <2>1. Len(SubSeq(s, 1, k)) = IF 1 <= k THEN k - 1 + 1 ELSE 0
        BY <1>1, SubSeqProperties
    <2>2. \A i \in 1..(k - 1 + 1) : SubSeq(s, 1, k)[i] = s[1 + i - 1]
        BY <1>1, SubSeqProperties
    <2> QED BY <1>1, <2>1, <2>2, SubSeqProperties
<1> QED BY <1>2, SubSeqFull

LEMMA PrefixOfPrefix ==
    ASSUME NEW S, NEW s \in Seq(S), NEW n \in 0..Len(s), NEW k \in 0..n
    PROVE  SubSeq(SubSeq(s, 1, n), 1, k) = SubSeq(s, 1, k)
<1>1. PICK r \in Seq(S) : r = SubSeq(s, 1, n) /\ Len(r) = n /\ \A i \in 1..n : r[i] = s[i]
    BY Prefix
<1>2. k \in 0..Len(r) /\ k \in 0..Len(s)
    BY <1>1
<1>3. PICK t \in Seq(S) : t = SubSeq(r, 1, k) /\ Len(t) = k /\ \A i \in 1..k : t[i] = r[i]
    BY <1>2, Prefix
<1>4. PICK u \in Seq(S) : u = SubSeq(s, 1, k) /\ Len(u) = k /\ \A i \in 1..k : u[i] = s[i]
    BY <1>2, Prefix
<1>5. \A i \in 1..k : t[i] = u[i]
    <2> SUFFICES ASSUME NEW i \in 1..k PROVE t[i] = u[i]
        OBVIOUS
    <2>1. i \in 1..n
        OBVIOUS
    <2> QED BY <1>1, <1>3, <1>4, <2>1
<1>6. t = u
    BY <1>3, <1>4, <1>5, SeqEqual
<1> QED BY <1>1, <1>3, <1>4, <1>6

-----------------------------------------------------------------------------
(* Paths of a lock file *)

\* Where the search begins in the file system, and the node for the first parts of a path.
At(node) == IF node = TreeRoot THEN <<>> ELSE node
Node(dir, k) == IF k = 0 THEN TreeRoot ELSE SubSeq(dir, 1, k)

Names == STRING \cup {NM}
Dirs(lock) == Packages(lock) \cup {<<>>}

LEMMA PathTyped ==
    ASSUME NEW lock, IsLock(lock), NEW p \in DOMAIN lock \cup {<<>>}
    PROVE  /\ p \in Seq(Names) /\ Len(p) \in Nat
           /\ p \in DOMAIN lock => p # TreeRoot /\ p # NoPath
           /\ p # <<>> => Len(p) > 0 /\ LastPart(p) \in STRING /\ p[Len(p)] # NM
<1>1. p \in Seq(STRING)
    <2>1. p \in DOMAIN lock => p \in Seq(STRING)
        BY DEF IsLock
    <2>2. <<>> \in Seq(STRING)
        OBVIOUS
    <2> QED BY <2>1, <2>2
<1>2. p \in Seq(Names) /\ Len(p) \in Nat
    BY <1>1, SeqMonotonic DEF Names
<1>3. p # <<>> => Len(p) > 0
    BY <1>1
<1>4. p # <<>> => LastPart(p) \in STRING
    BY <1>1, <1>3 DEF LastPart
<1>5. p # <<>> => p[Len(p)] # NM
    BY DEF IsLock, LastPart
<1>6. p \in DOMAIN lock => p # TreeRoot /\ p # NoPath
    BY DEF IsLock
<1> QED BY <1>2, <1>3, <1>4, <1>5, <1>6

\* An entry in a node_modules directory.
LEMMA InModules ==
    ASSUME NEW lock, IsLock(lock), NEW p \in DOMAIN lock, ~InDirectory(p)
    PROVE  \E q \in Dirs(lock) :
             /\ p = q \o <<NM, LastPart(p)>> /\ p # <<>> /\ Len(p) = Len(q) + 2
             /\ SubSeq(p, 1, Len(q)) = q /\ p[Len(q) + 1] = NM
             /\ Up(Up(p)) = q /\ (Up(p) = <<NM>> <=> q = <<>>)
<1>1. PICK q \in Dirs(lock) : p = q \o <<NM, LastPart(p)>>
    BY DEF IsLock, Dirs
<1>2. q \in Seq(Names) /\ Len(q) \in Nat
    BY PathTyped DEF Dirs, Packages
<1>3. p # <<>>
    BY DEF InDirectory, Parts
<1>4. NM \in Names /\ LastPart(p) \in Names
    BY <1>3, PathTyped DEF Names
<1>5. /\ p \in Seq(Names) /\ Len(p) = Len(q) + 2 /\ p[Len(q) + 1] = NM
      /\ \A k \in 1..Len(q) : p[k] = q[k]
      /\ Up(Up(p)) = q /\ (Up(p) = <<NM>> <=> q = <<>>)
    BY <1>1, <1>2, <1>4, Below
<1>6. SubSeq(p, 1, Len(q)) = q
    <2>1. Len(q) \in 0..Len(p)
        BY <1>2, <1>5
    <2>2. PICK t \in Seq(Names) : t = SubSeq(p, 1, Len(q)) /\ Len(t) = Len(q)
                                  /\ \A i \in 1..Len(q) : t[i] = p[i]
        BY <1>5, <2>1, Prefix
    <2>3. \A i \in 1..Len(t) : t[i] = q[i]
        BY <1>5, <2>2
    <2>4. t = q
        BY <1>2, <2>2, <2>3, SeqEqual
    <2> QED BY <2>2, <2>4
<1> QED BY <1>1, <1>3, <1>5, <1>6

LEMMA TargetIs ==
    ASSUME NEW lock, NEW p \in Packages(lock)
    PROVE  Target(lock, p) = p
BY DEF Packages, Target

\* The parent of a package is the nearest package above it in the file system.
LEMMA ParentIs ==
    ASSUME NEW lock, IsLock(lock), NEW p \in Packages(lock), p # <<>>
    PROVE  LET r == At(Parent(lock, p))
           IN /\ Parent(lock, p) \in Nodes(lock) \ {<<>>}
              /\ r \in Dirs(lock) /\ Len(r) < Len(p) /\ SubSeq(p, 1, Len(r)) = r
              /\ r = <<>> <=> Parent(lock, p) = TreeRoot
              /\ \A k \in (Len(r) + 1)..(Len(p) - 1) : SubSeq(p, 1, k) \notin Packages(lock)
<1>1. p \in DOMAIN lock /\ p \in Seq(Names) /\ Len(p) \in Nat
    BY PathTyped DEF Packages
<1>2. TreeRoot # <<>> /\ TreeRoot \notin DOMAIN lock
    BY DEF TreeRoot, IsLock
<1>3. CASE InDirectory(p)
    <2> DEFINE above == {q \in DOMAIN lock \ {<<>>} : Len(q) < Len(p) /\ SubSeq(p, 1, Len(q)) = q}
    <2>1. Parent(lock, p) = IF above = {} THEN TreeRoot
                            ELSE CHOOSE q \in above : \A r \in above : Len(r) <= Len(q)
        BY <1>3 DEF InDirectory, Parent, FsParent
    <2>2. ASSUME NEW k \in 1..(Len(p) - 1), SubSeq(p, 1, k) \in Packages(lock)
          PROVE  SubSeq(p, 1, k) \in above /\ Len(SubSeq(p, 1, k)) = k
        <3>1. k \in 0..Len(p)
            BY <1>1
        <3>2. Len(SubSeq(p, 1, k)) = k /\ SubSeq(p, 1, k) # <<>>
            BY <1>1, <3>1, Prefix
        <3>3. k < Len(p)
            BY <1>1
        <3> QED BY <2>2, <3>2, <3>3 DEF Packages
    <2>3. CASE above = {}
        <3>1. Parent(lock, p) = TreeRoot
            BY <2>1, <2>3
        <3>2. At(Parent(lock, p)) = <<>> /\ Len(<<>>) = 0 /\ SubSeq(p, 1, 0) = <<>>
            BY <1>1, <3>1, SubSeqEmpty DEF At
        <3>3. Len(p) > 0
            BY <1>1, PathTyped
        <3>4. \A k \in (0 + 1)..(Len(p) - 1) : SubSeq(p, 1, k) \notin Packages(lock)
            <4> SUFFICES ASSUME NEW k \in (0 + 1)..(Len(p) - 1), SubSeq(p, 1, k) \in Packages(lock)
                         PROVE  FALSE
                OBVIOUS
            <4>1. k \in 1..(Len(p) - 1)
                OBVIOUS
            <4> HIDE DEF above
            <4> QED BY <2>2, <2>3, <4>1
        <3> HIDE DEF above
        <3> QED BY <1>2, <3>1, <3>2, <3>3, <3>4 DEF Nodes, Dirs
    <2>4. CASE above # {}
        <3> DEFINE Lens == {Len(q) : q \in above}
        <3>1. \A q \in above : q \in Seq(Names) /\ Len(q) \in Nat /\ Len(q) < Len(p) /\ Len(q) > 0
            BY PathTyped
        <3>2. Lens \in SUBSET Nat /\ Lens # {} /\ \A k \in Lens : k <= Len(p)
            <4> HIDE DEF above
            <4> QED BY <1>1, <2>4, <3>1
        <3>3. PICK m \in Lens : \A k \in Lens : k <= m
            <4> HIDE DEF Lens
            <4> QED BY <1>1, <3>2, Greatest
        <3>4. \E q \in above : \A r \in above : Len(r) <= Len(q)
            BY <3>3
        <3> DEFINE r == Parent(lock, p)
        <3>5. r \in above /\ \A q \in above : Len(q) <= Len(r)
            <4> HIDE DEF above, r
            <4>1. r = CHOOSE q \in above : \A x \in above : Len(x) <= Len(q)
                BY <2>1, <2>4 DEF r
            <4> QED BY <3>4, <4>1
        <3>6. r \in DOMAIN lock /\ r # <<>> /\ Len(r) < Len(p) /\ SubSeq(p, 1, Len(r)) = r
              /\ Len(r) \in Nat
            BY <3>1, <3>5
        <3>7. InDirectory(r)
            <4> SUFFICES ASSUME NEW i \in 1..Len(r), r[i] = NM PROVE FALSE
                <5>1. DOMAIN r = 1..Len(r)
                    BY <3>1, <3>5
                <5> HIDE DEF r
                <5> QED BY <5>1 DEF InDirectory, Parts
            <4>1. Len(r) \in 0..Len(p)
                BY <1>1, <3>6
            <4>2. SubSeq(p, 1, Len(r))[i] = p[i]
                BY <1>1, <4>1, Prefix
            <4>3. p[i] = NM /\ i \in DOMAIN p
                BY <1>1, <3>6, <4>2
            <4> QED BY <1>3, <4>3 DEF InDirectory, Parts
        <3>8. r \in Packages(lock)
            BY <3>6, <3>7 DEF Packages, IsLock
        <3>9. At(r) = r
            BY <1>2, <3>6 DEF At
        <3>10. ASSUME NEW k \in (Len(r) + 1)..(Len(p) - 1), SubSeq(p, 1, k) \in Packages(lock)
               PROVE  FALSE
            <4>1. k \in 1..(Len(p) - 1)
                BY <3>6
            <4>2. SubSeq(p, 1, k) \in above /\ Len(SubSeq(p, 1, k)) = k
                BY <2>2, <3>10, <4>1
            <4> HIDE DEF above, r
            <4>3. k <= Len(r)
                BY <3>5, <4>2
            <4> QED BY <3>6, <4>3
        <3> HIDE DEF above, Lens
        <3> QED BY <1>2, <3>6, <3>8, <3>9, <3>10 DEF Nodes, Dirs
    <2> QED BY <2>3, <2>4
<1>4. CASE ~InDirectory(p)
    <2>1. PICK q \in Dirs(lock) :
             /\ Len(p) = Len(q) + 2 /\ SubSeq(p, 1, Len(q)) = q /\ p[Len(q) + 1] = NM
             /\ Up(Up(p)) = q /\ (Up(p) = <<NM>> <=> q = <<>>)
        BY <1>1, <1>4, InModules
    <2>2. Len(q) \in Nat /\ q # TreeRoot
        BY <1>2, PathTyped DEF Dirs, Packages
    <2>3. Parent(lock, p) = IF q = <<>> THEN TreeRoot ELSE q
        BY <1>4, <2>1, TargetIs DEF InDirectory, Parent, NodeParent, Dirs
    <2>4. At(Parent(lock, p)) = q
        BY <2>2, <2>3 DEF At
    <2>5. ASSUME NEW k \in (Len(q) + 1)..(Len(p) - 1) PROVE SubSeq(p, 1, k) \notin Packages(lock)
        <3>1. k = Len(q) + 1 /\ k \in 0..Len(p) /\ k > 0
            BY <2>1, <2>2
        <3>2. /\ SubSeq(p, 1, k) \in Seq(Names) /\ Len(SubSeq(p, 1, k)) = k
              /\ SubSeq(p, 1, k)[k] = p[k]
            BY <1>1, <3>1, Prefix
        <3>3. SubSeq(p, 1, k) # <<>>
            BY <3>1, <3>2
        <3>4. SubSeq(p, 1, k)[Len(SubSeq(p, 1, k))] = NM
            BY <2>1, <3>1, <3>2
        <3> QED BY <3>3, <3>4, PathTyped DEF Packages
    <2> QED BY <1>2, <2>1, <2>2, <2>3, <2>4, <2>5 DEF Nodes, Dirs
<1> QED BY <1>3, <1>4

LEMMA RootParent ==
    ASSUME NEW lock, IsLock(lock)
    PROVE  Parent(lock, <<>>) = TreeRoot
<1>1. InDirectory(<<>>)
    BY DEF InDirectory, Parts
<1>2. \A q \in DOMAIN lock : ~(Len(q) < Len(<<>>))
    BY PathTyped
<1> QED BY <1>1, <1>2 DEF Parent, FsParent

-----------------------------------------------------------------------------
(* What requirements resolve to *)

LEMMA ChildIs ==
    ASSUME NEW lock, IsLock(lock), NamesAreApart(lock), NEW node, NEW name
    PROVE  /\ \A p \in Packages(lock) : Parent(lock, p) = node /\ ChildName(lock, p) = name =>
                Child(lock, node, name) = p
           /\ LET c == Child(lock, node, name)
              IN c # NoPath => /\ c \in Packages(lock) /\ Parent(lock, c) = node
                               /\ ChildName(lock, c) = name
<1> DEFINE named == {p \in Packages(lock) : Parent(lock, p) = node /\ ChildName(lock, p) = name}
           c == Child(lock, node, name)
<1>1. c = IF named = {} THEN NoPath
          ELSE CHOOSE p \in named : \A q \in named : Position(q) <= Position(p)
    BY DEF Child
<1>2. \A p, q \in named : p = q
    BY DEF NamesAreApart
<1>3. \A p \in named : Position(p) \in Nat
    <2> SUFFICES ASSUME NEW p \in DOMAIN lock PROVE Position(p) \in Nat
        BY DEF Packages
    <2>1. \E i \in DOMAIN PathOrder : PathOrder[i] = p
        BY DEF IsLock, Parts
    <2>2. Position(p) \in DOMAIN PathOrder
        BY <2>1 DEF Position
    <2> QED BY <2>2, OrderTyped
<1>4. ASSUME NEW p \in named PROVE c = p
    <2>1. \A q \in named : Position(q) <= Position(p)
        <3> HIDE DEF named
        <3> QED BY <1>2, <1>3
    <2>2. c = CHOOSE x \in named : \A q \in named : Position(q) <= Position(x)
        <3> HIDE DEF named
        <3> QED BY <1>1
    <2>3. c \in named
        <3> HIDE DEF named, c
        <3> QED BY <2>1, <2>2
    <2> HIDE DEF named, c
    <2> QED BY <1>2, <2>3
<1>5. c # NoPath => \E p \in named : TRUE
    <2> HIDE DEF named, c
    <2> QED BY <1>1
<1>6. c # NoPath => c \in named
    <2> HIDE DEF named, c
    <2> QED BY <1>4, <1>5
<1> QED BY <1>4, <1>6

\* Every package is in the tree.
LEMMA AllInTree ==
    ASSUME NEW lock, IsLock(lock), NamesAreApart(lock), NEW p \in Packages(lock)
    PROVE  InTree(lock, p)
<1> DEFINE Tree(f) ==
               f = [n \in Nodes(lock) |->
                       \/ n = TreeRoot
                       \/ /\ Child(lock, Parent(lock, n), ChildName(lock, n)) = n
                          /\ f[Parent(lock, n)]]
           all == [n \in Nodes(lock) |-> TRUE]
           f == CHOOSE f : Tree(f)
<1>1. InTree(lock, p) <=> f[p]
    BY DEF InTree
<1>2. Tree(all)
    <2> SUFFICES ASSUME NEW n \in Nodes(lock), n # TreeRoot
                 PROVE  /\ Child(lock, Parent(lock, n), ChildName(lock, n)) = n
                        /\ all[Parent(lock, n)]
        OBVIOUS
    <2>1. n \in Packages(lock)
        BY DEF Nodes
    <2>2. Parent(lock, n) \in Nodes(lock)
        BY <2>1, ParentIs, RootParent DEF Nodes
    <2> QED BY <2>1, <2>2, ChildIs
<1>3. Tree(f)
    <2> HIDE DEF all, Tree
    <2> QED BY <1>2
<1>4. f[TreeRoot]
    BY <1>3 DEF Nodes
<1>5. \A n \in Packages(lock) : f[n] <=> f[Parent(lock, n)]
    <2> SUFFICES ASSUME NEW n \in Packages(lock) PROVE f[n] <=> f[Parent(lock, n)]
        OBVIOUS
    <2>1. n \in Nodes(lock) /\ n # TreeRoot
        BY PathTyped DEF Nodes, Packages
    <2>2. Child(lock, Parent(lock, n), ChildName(lock, n)) = n
        BY ChildIs
    <2> HIDE DEF f
    <2> QED BY <1>3, <2>1, <2>2
<1> HIDE DEF f, Tree
<1>6. SUFFICES ASSUME ~f[p] PROVE FALSE
    BY <1>1
<1> DEFINE bad == {n \in Packages(lock) : ~f[n]}
           Lens == {Len(n) : n \in bad}
<1>7. Lens \subseteq Nat /\ Lens # {}
    BY <1>6, PathTyped DEF Packages
<1>8. PICK n \in bad : \A m \in bad : Len(n) <= Len(m)
    <2>1. PICK l \in Lens : \A k \in Lens : l <= k
        <3> HIDE DEF Lens
        <3> QED BY <1>7, Smallest
    <2> QED BY <2>1
<1>9. n # <<>>
    BY <1>4, <1>5, RootParent
<1>10. Parent(lock, n) # TreeRoot
    BY <1>4, <1>5
<1>11. Parent(lock, n) \in bad /\ Len(Parent(lock, n)) < Len(n)
    BY <1>5, <1>9, <1>10, ParentIs DEF Nodes, At
<1>12. Len(n) \in Nat /\ Len(Parent(lock, n)) \in Nat
    BY <1>11, PathTyped DEF Packages
<1> QED BY <1>8, <1>11, <1>12

\* The places above a directory where a node has a child with a name, and the nearest of them.
Offers(lock, dir, name) ==
    {k \in 0..Len(dir) : /\ k = 0 \/ SubSeq(dir, 1, k) \in Packages(lock)
                         /\ Child(lock, Node(dir, k), name) # NoPath}

Last(S) == CHOOSE k \in S : \A j \in S : j <= k

Nearest(lock, dir, name) ==
    IF Offers(lock, dir, name) = {} THEN NoPath
    ELSE Child(lock, Node(dir, Last(Offers(lock, dir, name))), name)

LEMMA LastIs ==
    ASSUME NEW n \in Nat, NEW S \in SUBSET (0..n), S # {}
    PROVE  Last(S) \in S /\ \A j \in S : j <= Last(S)
<1>1. \E k \in S : \A j \in S : j <= k
    <2>1. S \in SUBSET Nat /\ \A k \in S : k <= n
        OBVIOUS
    <2> QED BY <2>1, Greatest
<1> QED BY <1>1 DEF Last

LEMMA LastIsGreatest ==
    ASSUME NEW n \in Nat, NEW S \in SUBSET (0..n), n \in S
    PROVE  Last(S) = n
<1>1. Last(S) \in S /\ \A j \in S : j <= Last(S)
    BY LastIs
<1>2. Last(S) \in 0..n /\ n <= Last(S)
    BY <1>1
<1> QED BY <1>2

\* In the root directory the nearest place is the root of the tree.
LEMMA NearestOfRoot ==
    ASSUME NEW lock, NEW name
    PROVE  Nearest(lock, <<>>, name) = Child(lock, TreeRoot, name)
<1>1. \A k \in 0..Len(<<>>) : k = 0
    OBVIOUS
<1>2. 0 \in 0..Len(<<>>)
    OBVIOUS
<1>3. Node(<<>>, 0) = TreeRoot
    BY DEF Node
<1>4. CASE Child(lock, TreeRoot, name) = NoPath
    BY <1>1, <1>3, <1>4 DEF Nearest, Offers
<1>5. CASE Child(lock, TreeRoot, name) # NoPath
    <2>1. Offers(lock, <<>>, name) = {0}
        BY <1>1, <1>2, <1>3, <1>5 DEF Offers
    <2>2. Last({0}) = 0
        BY LastIsGreatest
    <2> QED BY <1>3, <2>1, <2>2 DEF Nearest
<1> QED BY <1>4, <1>5

\* A package that has no such child looks where its parent does.
LEMMA NearestAbove ==
    ASSUME NEW lock, IsLock(lock), NEW p \in Packages(lock), p # <<>>, NEW name
    PROVE  Nearest(lock, p, name) = IF Child(lock, p, name) # NoPath THEN Child(lock, p, name)
                                    ELSE Nearest(lock, At(Parent(lock, p)), name)
<1> DEFINE n == Len(p)
<1>1. p \in Seq(Names) /\ n \in Nat /\ n > 0 /\ SubSeq(p, 1, n) = p
    BY PathTyped, SubSeqFull DEF Packages
<1>2. Node(p, n) = p
    BY <1>1 DEF Node
<1>3. Offers(lock, p, name) \in SUBSET (0..n)
    BY DEF Offers
<1>4. CASE Child(lock, p, name) # NoPath
    <2>1. n \in Offers(lock, p, name)
        <3>1. n \in 0..Len(p)
            BY <1>1
        <3> QED BY <1>1, <1>2, <1>4, <3>1 DEF Offers
    <2>2. Last(Offers(lock, p, name)) = n
        BY <1>1, <1>3, <2>1, LastIsGreatest
    <2> QED BY <1>2, <1>4, <2>1, <2>2 DEF Nearest
<1>5. CASE Child(lock, p, name) = NoPath
    <2>1. PICK r \in Dirs(lock) :
             /\ r = At(Parent(lock, p)) /\ Len(r) < n /\ SubSeq(p, 1, Len(r)) = r
             /\ \A k \in (Len(r) + 1)..(n - 1) : SubSeq(p, 1, k) \notin Packages(lock)
        BY ParentIs
    <2>2. Len(r) \in Nat
        BY PathTyped DEF Dirs, Packages
    <2>3. ASSUME NEW k \in 0..Len(r)
          PROVE  SubSeq(r, 1, k) = SubSeq(p, 1, k) /\ Node(r, k) = Node(p, k)
        <3>1. Len(r) \in 0..Len(p)
            BY <1>1, <2>1, <2>2
        <3>2. SubSeq(SubSeq(p, 1, Len(r)), 1, k) = SubSeq(p, 1, k)
            BY <1>1, <3>1, PrefixOfPrefix
        <3> QED BY <2>1, <3>2 DEF Node
    <2>4. ASSUME NEW k \in Offers(lock, p, name) PROVE k \in 0..Len(r)
        <3>1. k \in 0..n /\ (k = 0 \/ SubSeq(p, 1, k) \in Packages(lock))
              /\ Child(lock, Node(p, k), name) # NoPath
            BY DEF Offers
        <3>2. k # n
            BY <1>2, <1>5, <3>1
        <3>3. k \notin (Len(r) + 1)..(n - 1) \/ k = 0
            BY <2>1, <3>1
        <3>4. k < n /\ k \in Nat
            <4>1. k \in 0..n /\ k # n
                BY <3>1, <3>2
            <4> HIDE DEF n
            <4> QED BY <1>1, <4>1
        <3>5. k <= Len(r)
            BY <1>1, <2>2, <3>3, <3>4
        <3> QED BY <2>2, <3>4, <3>5
    <2>5. ASSUME NEW k \in 0..Len(r)
          PROVE  k \in Offers(lock, p, name) <=> k \in Offers(lock, r, name)
        <3>1. k \in 0..n
            BY <1>1, <2>1, <2>2
        <3> QED BY <2>3, <3>1 DEF Offers
    <2>6. \A k \in Offers(lock, r, name) : k \in 0..Len(r)
        BY DEF Offers
    <2>7. Offers(lock, p, name) = Offers(lock, r, name)
        BY <2>4, <2>5, <2>6
    <2>8. CASE Offers(lock, r, name) = {}
        BY <1>5, <2>1, <2>7, <2>8 DEF Nearest
    <2>9. CASE Offers(lock, r, name) # {}
        <3>1. Offers(lock, r, name) \in SUBSET (0..Len(r))
            BY <2>6
        <3>2. Last(Offers(lock, r, name)) \in 0..Len(r)
            BY <2>2, <2>9, <3>1, LastIs
        <3>3. Node(r, Last(Offers(lock, r, name))) = Node(p, Last(Offers(lock, r, name)))
            BY <2>3, <3>2
        <3> QED BY <1>5, <2>1, <2>7, <2>9, <3>3 DEF Nearest
    <2> QED BY <2>8, <2>9
<1> QED BY <1>4, <1>5

\* _resolve_node_dependency finds what the nearest place has.
LEMMA ResolvesToNearest ==
    ASSUME NEW lock, IsLock(lock), NamesAreApart(lock), NEW p \in Packages(lock), NEW name
    PROVE  Resolve(lock, p, name) = Nearest(lock, p, name)
<1> DEFINE Search(f) ==
               f = [n \in Nodes(lock) |->
                       IF Child(lock, n, name) # NoPath THEN Child(lock, n, name)
                       ELSE IF n = TreeRoot THEN NoPath ELSE f[Parent(lock, n)]]
           near == [n \in Nodes(lock) |-> Nearest(lock, At(n), name)]
           f == CHOOSE f : Search(f)
<1>1. Resolve(lock, p, name) = f[p]
    BY DEF Resolve
<1>2. ASSUME NEW n \in Packages(lock)
      PROVE  /\ n \in Nodes(lock) /\ n # TreeRoot /\ At(n) = n /\ Parent(lock, n) \in Nodes(lock)
             /\ Nearest(lock, n, name) = IF Child(lock, n, name) # NoPath THEN Child(lock, n, name)
                                         ELSE Nearest(lock, At(Parent(lock, n)), name)
    <2>1. n # TreeRoot /\ At(n) = n
        BY PathTyped DEF Packages, At
    <2>2. CASE n = <<>>
        <3>1. Parent(lock, n) = TreeRoot /\ At(TreeRoot) = <<>>
            BY <2>2, RootParent DEF At
        <3>2. Child(lock, <<>>, name) = NoPath
            <4>1. \A c \in Packages(lock) : Parent(lock, c) # <<>>
                <5>1. TreeRoot # <<>>
                    BY DEF TreeRoot
                <5> QED BY <5>1, ParentIs, RootParent
            <4> QED BY <4>1, ChildIs
        <3> QED BY <2>1, <2>2, <3>1, <3>2, NearestOfRoot DEF Nodes
    <2>3. CASE n # <<>>
        BY <2>1, <2>3, ParentIs, NearestAbove DEF Nodes
    <2> QED BY <2>2, <2>3
<1>3. Search(near)
    <2> SUFFICES ASSUME NEW n \in Nodes(lock)
                 PROVE  near[n] = IF Child(lock, n, name) # NoPath THEN Child(lock, n, name)
                                  ELSE IF n = TreeRoot THEN NoPath ELSE near[Parent(lock, n)]
        BY Zenon
    <2>1. CASE n = TreeRoot
        BY <2>1, NearestOfRoot DEF At
    <2>2. CASE n # TreeRoot
        <3>1. n \in Packages(lock)
            BY <2>2 DEF Nodes
        <3> QED BY <1>2, <2>2, <3>1
    <2> QED BY <2>1, <2>2
<1>4. Search(f)
    <2> HIDE DEF near, Search
    <2> QED BY <1>3
<1>5. f[TreeRoot] = near[TreeRoot]
    <2>1. TreeRoot \in Nodes(lock)
        BY DEF Nodes
    <2> HIDE DEF f, near
    <2> QED BY <1>3, <1>4, <2>1
<1>6. ASSUME NEW n \in Packages(lock), f[Parent(lock, n)] = near[Parent(lock, n)]
      PROVE  f[n] = near[n]
    <2>1. n \in Nodes(lock) /\ n # TreeRoot
        BY <1>2
    <2> HIDE DEF f, near
    <2> QED BY <1>3, <1>4, <1>6, <2>1
<1>7. near[p] = Nearest(lock, p, name)
    BY <1>2
<1> HIDE DEF f, Search, near
<1>8. SUFFICES ASSUME f[p] # near[p] PROVE FALSE
    BY <1>1, <1>7
<1> DEFINE bad == {n \in Packages(lock) : f[n] # near[n]}
           Lens == {Len(n) : n \in bad}
<1>9. Lens \subseteq Nat /\ Lens # {}
    BY <1>8, PathTyped DEF Packages
<1>10. PICK n \in bad : \A m \in bad : Len(n) <= Len(m)
    <2>1. PICK l \in Lens : \A k \in Lens : l <= k
        <3> HIDE DEF Lens
        <3> QED BY <1>9, Smallest
    <2> QED BY <2>1
<1>11. Parent(lock, n) # TreeRoot
    BY <1>5, <1>6
<1>12. n # <<>>
    BY <1>11, RootParent
<1>13. Parent(lock, n) \in bad /\ Len(Parent(lock, n)) < Len(n)
    BY <1>6, <1>11, <1>12, ParentIs DEF Nodes, At
<1>14. Len(n) \in Nat /\ Len(Parent(lock, n)) \in Nat
    BY <1>13, PathTyped DEF Packages
<1> QED BY <1>10, <1>13, <1>14

-----------------------------------------------------------------------------
(* Where Node finds packages *)

\* The paths Node tries, and where there is something.
In(dir, k, name) == SubSeq(dir, 1, k) \o <<NM, name>>

Seen(lock, dir, name) ==
    {k \in 0..Len(dir) : (k = 0 \/ dir[k] # NM) /\ In(dir, k, name) \in DOMAIN lock}

LEMMA NodeFindsLast ==
    ASSUME NEW lock, NEW dir, NEW name
    PROVE  NodeFinds(lock, dir, name) =
               IF Seen(lock, dir, name) = {} THEN NoPath
               ELSE Target(lock, In(dir, Last(Seen(lock, dir, name)), name))
BY DEF NodeFinds, Seen, In, Last

LEMMA TriedPath ==
    ASSUME NEW lock, IsLock(lock), NEW dir \in Dirs(lock), NEW name, NEW k \in 0..Len(dir)
    PROVE  LET q == SubSeq(dir, 1, k)
               p == In(dir, k, name)
           IN /\ q \in Seq(Names) /\ Len(q) = k /\ Len(p) = k + 2
              /\ p # <<>> /\ LastPart(p) = name /\ ~InDirectory(p)
              /\ \A i \in 1..k : p[i] = q[i]
<1> DEFINE q == SubSeq(dir, 1, k)
           p == In(dir, k, name)
           S == Names \cup {name}
<1>1. dir \in Seq(Names) /\ Len(dir) \in Nat
    BY PathTyped DEF Dirs, Packages
<1>2. q \in Seq(Names) /\ Len(q) = k
    BY <1>1, Prefix
<1>3. NM \in S /\ name \in S /\ Names \subseteq S
    BY DEF Names
<1>4. p = q \o <<NM, name>>
    BY DEF In
<1> HIDE DEF p, q, S
<1>5. q \in Seq(S)
    BY <1>2, <1>3, SeqMonotonic
<1>6. /\ p # <<>> /\ Len(p) = Len(q) + 2 /\ LastPart(p) = name /\ NM \in Parts(p)
      /\ \A i \in 1..Len(q) : p[i] = q[i]
    <2>1. p # <<>> /\ Len(p) = Len(q) + 2
        BY <1>3, <1>4, <1>5, Below
    <2>2. p[Len(q) + 2] = name
        BY <1>3, <1>4, <1>5
    <2>3. NM \in Parts(p)
        BY <1>3, <1>4, <1>5, Below
    <2>4. \A i \in 1..Len(q) : p[i] = q[i]
        BY <1>3, <1>4, <1>5, Below
    <2> QED BY <2>1, <2>2, <2>3, <2>4 DEF LastPart
<1> QED BY <1>2, <1>6 DEF InDirectory, q, p

\* A package in a node_modules directory is the child of the package the directory belongs to.
LEMMA ModuleParent ==
    ASSUME NEW lock, IsLock(lock), NEW p \in Packages(lock), ~InDirectory(p)
    PROVE  \E q \in Dirs(lock) :
             /\ p = q \o <<NM, ChildName(lock, p)>> /\ Len(p) = Len(q) + 2
             /\ p # <<>> /\ ChildName(lock, p) = LastPart(p) /\ SubSeq(p, 1, Len(q)) = q
             /\ Parent(lock, p) = IF q = <<>> THEN TreeRoot ELSE q
<1>1. PICK q \in Dirs(lock) :
         /\ p = q \o <<NM, LastPart(p)>> /\ p # <<>> /\ Len(p) = Len(q) + 2
         /\ SubSeq(p, 1, Len(q)) = q
         /\ Up(Up(p)) = q /\ (Up(p) = <<NM>> <=> q = <<>>)
    BY InModules DEF Packages
<1>2. Parent(lock, p) = IF q = <<>> THEN TreeRoot ELSE q
    BY <1>1, TargetIs DEF InDirectory, Parent, NodeParent, Dirs
<1>3. ChildName(lock, p) = LastPart(p)
    BY <1>1 DEF ChildName
<1> QED BY <1>1, <1>2, <1>3

\* A name that neither a directory of the project nor a link has.
IsApart(lock, name) ==
    \A d \in DOMAIN lock : InDirectory(d) \/ IsLink(lock, d) => ChildName(lock, d) # name

\* What Node tries is what the tree has there.
LEMMA SeenIsOffered ==
    ASSUME NEW lock, IsLock(lock), NamesAreApart(lock), NEW dir \in Dirs(lock),
           NEW name, IsApart(lock, name), NEW k \in 0..Len(dir)
    PROVE  /\ k \in Seen(lock, dir, name) <=> k \in Offers(lock, dir, name)
           /\ k \in Seen(lock, dir, name) =>
                /\ Child(lock, Node(dir, k), name) = In(dir, k, name)
                /\ Target(lock, In(dir, k, name)) = In(dir, k, name)
<1> DEFINE q == SubSeq(dir, 1, k)
           p == In(dir, k, name)
<1>1. /\ q \in Seq(Names) /\ Len(q) = k /\ Len(p) = k + 2
      /\ p # <<>> /\ LastPart(p) = name /\ ~InDirectory(p)
      /\ \A i \in 1..k : p[i] = q[i]
    BY TriedPath
<1>2. /\ dir \in Seq(Names) /\ Len(dir) \in Nat /\ \A i \in 1..k : q[i] = dir[i]
    BY PathTyped, Prefix DEF Dirs, Packages
<1>3. k \in Nat /\ (k = 0 <=> q = <<>>)
    BY <1>1, <1>2
<1>4. p = q \o <<NM, name>>
    BY DEF In
<1>5. ASSUME k \in Seen(lock, dir, name)
      PROVE  /\ k \in Offers(lock, dir, name)
             /\ Child(lock, Node(dir, k), name) = p /\ Target(lock, p) = p
    <2>1. p \in DOMAIN lock
        BY <1>5 DEF Seen
    <2>2. ChildName(lock, p) = name /\ ~IsLink(lock, p)
        <3> HIDE DEF p
        <3> QED BY <1>1, <2>1 DEF ChildName, IsApart
    <2>3. p \in Packages(lock)
        BY <2>1, <2>2 DEF Packages
    <2>4. PICK r \in Dirs(lock) :
             /\ Len(p) = Len(r) + 2 /\ SubSeq(p, 1, Len(r)) = r
             /\ Parent(lock, p) = IF r = <<>> THEN TreeRoot ELSE r
        <3> HIDE DEF p
        <3> QED BY <1>1, <2>3, ModuleParent
    <2>5. r = q
        <3> HIDE DEF p, q
        <3>1. Len(r) = k
            <4>1. Len(r) \in Nat
                BY PathTyped DEF Dirs, Packages
            <4>2. Len(p) = k + 2 /\ Len(p) = Len(r) + 2
                BY <1>1, <2>4
            <4> QED BY <1>3, <4>1, <4>2
        <3>2. r \in Seq(Names)
            BY PathTyped DEF Dirs, Packages
        <3>3. p \in Seq(Names) /\ k \in 0..Len(p)
            BY <1>1, <1>3, <2>1, PathTyped
        <3>4. \A i \in 1..k : r[i] = p[i]
            BY <2>4, <3>1, <3>3, Prefix
        <3> QED BY <1>1, <3>1, <3>2, <3>4, SeqEqual
    <2>6. Parent(lock, p) = Node(dir, k)
        BY <1>3, <2>4, <2>5 DEF Node
    <2>7. Child(lock, Node(dir, k), name) = p
        <3> HIDE DEF p
        <3> QED BY <2>2, <2>3, <2>6, ChildIs
    <2>8. p # NoPath
        <3> HIDE DEF p
        <3> QED BY <2>1, PathTyped
    <2>9. k = 0 \/ q \in Packages(lock)
        BY <1>3, <2>5 DEF Dirs
    <2> HIDE DEF p
    <2> QED BY <2>3, <2>7, <2>8, <2>9, TargetIs DEF Offers
<1>6. ASSUME k \in Offers(lock, dir, name) PROVE k \in Seen(lock, dir, name)
    <2> DEFINE c == Child(lock, Node(dir, k), name)
    <2>1. (k = 0 \/ q \in Packages(lock)) /\ c # NoPath
        BY <1>6 DEF Offers
    <2>2. c \in Packages(lock) /\ Parent(lock, c) = Node(dir, k) /\ ChildName(lock, c) = name
        BY <2>1, ChildIs
    <2> HIDE DEF c
    <2>3. ~InDirectory(c)
        BY <2>2 DEF IsApart, Packages
    <2>4. PICK r \in Dirs(lock) :
             /\ c = r \o <<NM, name>> /\ Parent(lock, c) = IF r = <<>> THEN TreeRoot ELSE r
        BY <2>2, <2>3, ModuleParent
    <2>5. r # TreeRoot /\ q # TreeRoot
        <3>1. TreeRoot # <<>>
            BY DEF TreeRoot
        <3>2. \A x \in Dirs(lock) : x # TreeRoot
            BY <3>1, PathTyped DEF Dirs, Packages
        <3>3. q \in Dirs(lock)
            BY <1>3, <2>1 DEF Dirs
        <3> QED BY <3>2, <3>3
    <2>6. r = q
        BY <1>3, <2>2, <2>4, <2>5 DEF Node
    <2>7. p \in DOMAIN lock
        BY <1>4, <2>2, <2>4, <2>6 DEF Packages
    <2>8. k = 0 \/ dir[k] # NM
        <3> SUFFICES ASSUME k # 0 PROVE dir[k] # NM
            OBVIOUS
        <3>1. q \in DOMAIN lock /\ q # <<>>
            BY <1>3, <2>1 DEF Packages
        <3>2. q[k] # NM
            BY <1>1, <3>1, PathTyped
        <3>3. k \in 1..k
            BY <1>3
        <3> QED BY <1>2, <3>2, <3>3
    <2> QED BY <2>7, <2>8 DEF Seen
<1> QED BY <1>5, <1>6

LEMMA FindsNearest ==
    ASSUME NEW lock, IsLock(lock), NamesAreApart(lock), NEW dir \in Dirs(lock),
           NEW name, IsApart(lock, name)
    PROVE  NodeFinds(lock, dir, name) = Nearest(lock, dir, name)
<1>1. Seen(lock, dir, name) = Offers(lock, dir, name)
    <2>1. \A k \in Seen(lock, dir, name) : k \in 0..Len(dir)
        BY DEF Seen
    <2>2. \A k \in Offers(lock, dir, name) : k \in 0..Len(dir)
        BY DEF Offers
    <2>3. \A k \in 0..Len(dir) : k \in Seen(lock, dir, name) <=> k \in Offers(lock, dir, name)
        BY SeenIsOffered
    <2> QED BY <2>1, <2>2, <2>3
<1>2. CASE Seen(lock, dir, name) = {}
    BY <1>1, <1>2, NodeFindsLast DEF Nearest
<1>3. CASE Seen(lock, dir, name) # {}
    <2> DEFINE k == Last(Seen(lock, dir, name))
    <2>1. Len(dir) \in Nat /\ Seen(lock, dir, name) \in SUBSET (0..Len(dir))
        BY PathTyped DEF Dirs, Packages, Seen
    <2>2. k \in Seen(lock, dir, name) /\ k \in 0..Len(dir)
        BY <1>3, <2>1, LastIs
    <2>3. /\ Child(lock, Node(dir, k), name) = In(dir, k, name)
          /\ Target(lock, In(dir, k, name)) = In(dir, k, name)
        <3> HIDE DEF k
        <3> QED BY <2>2, SeenIsOffered
    <2> QED BY <1>1, <1>3, <2>3, NodeFindsLast DEF Nearest
<1> QED BY <1>2, <1>3

LEMMA NearestIs ==
    ASSUME NEW lock, IsLock(lock), NamesAreApart(lock), NEW dir, NEW name,
           NEW r, r = Nearest(lock, dir, name), r # NoPath
    PROVE  r \in Packages(lock) /\ ChildName(lock, r) = name
BY ChildIs DEF Nearest

\* What Node finds is a package that is not external if a directory or a link has the name.
LEMMA FoundIs ==
    ASSUME NEW lock, IsLock(lock), NamesAreApart(lock), NEW dir \in Dirs(lock), NEW name,
           NEW f, f = NodeFinds(lock, dir, name), f # NoPath, ~IsApart(lock, name)
    PROVE  lock[f].source \notin External
<1> DEFINE k == Last(Seen(lock, dir, name))
           p == In(dir, k, name)
<1>1. f = Target(lock, p) /\ Seen(lock, dir, name) # {}
    BY NodeFindsLast
<1>2. Len(dir) \in Nat /\ Seen(lock, dir, name) \in SUBSET (0..Len(dir))
    BY PathTyped DEF Dirs, Packages, Seen
<1>3. k \in Seen(lock, dir, name) /\ k \in 0..Len(dir)
    BY <1>1, <1>2, LastIs
<1>4. p \in DOMAIN lock /\ p # <<>> /\ LastPart(p) = name
    <2> HIDE DEF k
    <2> QED BY <1>3, TriedPath DEF Seen
<1> HIDE DEF p
<1>5. CASE IsLink(lock, p)
    <2>1. Target(lock, p) \in Packages(lock) /\ InDirectory(Target(lock, p))
        BY <1>4, <1>5 DEF IsLock
    <2>2. lock[f].source = "file"
        BY <1>1, <2>1 DEF IsLock, Packages
    <2> QED BY <2>2, SourcesKnown
<1>6. CASE ~IsLink(lock, p)
    <2>1. f = p /\ p \in Packages(lock) /\ ChildName(lock, p) = name
        BY <1>1, <1>4, <1>6 DEF Target, Packages, ChildName
    <2> QED BY <2>1 DEF IsApart, NamesAreApart
<1> QED BY <1>5, <1>6

\* What a requirement must ask for, in terms of the tree.
LEMMA MustAskNearest ==
    ASSUME NEW lock, IsLock(lock), NamesAreApart(lock), NEW dir \in Dirs(lock), NEW name,
           NEW r, r = Nearest(lock, dir, name)
    PROVE  MustAsk(lock, dir, name) = IF r # NoPath /\ lock[r].source \in External
                                      THEN InNexus(lock, r) ELSE AsDeclared
<1>1. CASE IsApart(lock, name)
    BY <1>1, FindsNearest DEF MustAsk
<1>2. CASE ~IsApart(lock, name)
    <2>1. r # NoPath => lock[r].source \notin External
        BY <1>2, NearestIs DEF IsApart, NamesAreApart
    <2>2. LET f == NodeFinds(lock, dir, name) IN f # NoPath => lock[f].source \notin External
        BY <1>2, FoundIs
    <2> QED BY <2>1, <2>2 DEF MustAsk
<1> QED BY <1>1, <1>2

LEMMA MovesIs ==
    ASSUME NEW lock, IsLock(lock), NamesAreApart(lock), NEW p \in Packages(lock),
           NEW name \in lock[p].needs, NEW q \in Packages(lock)
    PROVE  Moves(lock, q, <<p, name>>)
               <=> lock[q].source \in External /\ Nearest(lock, p, name) = q
<1>1. q # NoPath
    BY PathTyped DEF Packages
<1>2. \A n : Resolve(lock, p, n) = Nearest(lock, p, n)
    BY ResolvesToNearest
<1>3. \A n : Nearest(lock, p, n) = q => ChildName(lock, q) = n
    BY <1>1, NearestIs
<1>4. p \in Dependents(lock, q) <=> \E n \in lock[p].needs : Nearest(lock, p, n) = q
    BY <1>2, AllInTree DEF Dependents
<1> QED BY <1>3, <1>4 DEF Moves

LEMMA RequirementsAsk ==
    ASSUME NEW lock, IsLock(lock), NamesAreApart(lock), NEW wants,
           Asks(lock, Dependencies(lock), wants), NEW w \in DOMAIN wants, w[1] \in Packages(lock)
    PROVE  wants[w] = MustAsk(lock, w[1], w[2])
<1>1. PICK p \in DOMAIN lock : \E n \in lock[p].needs : w = <<p, n>>
    BY DEF Asks, NoWants
<1>2. PICK name \in lock[p].needs : w = <<p, name>>
    BY <1>1
<1>3. p \in Packages(lock) /\ p \in Dirs(lock)
    BY <1>2 DEF Dirs
<1> DEFINE r == Nearest(lock, p, name)
<1>4. MustAsk(lock, p, name) = IF r # NoPath /\ lock[r].source \in External
                               THEN InNexus(lock, r) ELSE AsDeclared
    BY <1>3, MustAskNearest
<1>5. \A q \in Packages(lock) : Moves(lock, q, w) <=> lock[q].source \in External /\ r = q
    BY <1>2, <1>3, MovesIs
<1>6. r # NoPath => r \in Packages(lock)
    BY NearestIs
<1>7. ASSUME r # NoPath, lock[r].source \in External PROVE r \in Dependencies(lock)
    <2>1. r # <<>>
        <3> SUFFICES ASSUME r = <<>> PROVE FALSE
            OBVIOUS
        <3>1. InDirectory(<<>>)
            BY DEF InDirectory, Parts
        <3>2. lock[r].source = "file"
            BY <1>6, <1>7, <3>1 DEF IsLock, Packages
        <3> QED BY <1>7, <3>2, SourcesKnown
    <2> QED BY <1>6, <1>7, <2>1 DEF Dependencies
<1>8. \A q \in Dependencies(lock) : q \in Packages(lock) /\ q # NoPath
    BY PathTyped DEF Dependencies, Packages
<1> HIDE DEF r
<1>9. wants[w] = IF r # NoPath /\ lock[r].source \in External THEN InNexus(lock, r) ELSE AsDeclared
    BY <1>5, <1>7, <1>8 DEF Asks
<1> QED BY <1>2, <1>4, <1>9

LEMMA ManifestAsks ==
    ASSUME NEW project, IsLock(project.lock), NamesAreApart(project.lock),
           NEW name \in project.manifest
    PROVE  NpmManifest(project)[name] = MustAsk(project.lock, <<>>, name)
<1> DEFINE lock == project.lock
           tops == {p \in Packages(lock) : IsTopLevel(lock, p) /\ lock[p].source \in External}
           r == Nearest(lock, <<>>, name)
<1>1. r = Child(lock, TreeRoot, name)
    BY NearestOfRoot
<1>2. NpmManifest(project)[name] =
          IF \E p \in tops : ChildName(lock, p) = name
          THEN InNexus(lock, CHOOSE p \in tops : ChildName(lock, p) = name)
          ELSE AsDeclared
    BY DEF NpmManifest
<1>3. MustAsk(lock, <<>>, name) = IF r # NoPath /\ lock[r].source \in External
                                 THEN InNexus(lock, r) ELSE AsDeclared
    BY MustAskNearest DEF Dirs
<1>4. \A p \in tops : ChildName(lock, p) = name =>
          p = r /\ r # NoPath /\ lock[r].source \in External
    BY <1>1, ChildIs, PathTyped DEF IsTopLevel, Packages
<1>5. r # NoPath /\ lock[r].source \in External => r \in tops /\ ChildName(lock, r) = name
    BY <1>1, ChildIs DEF IsTopLevel
<1> HIDE DEF tops, r, lock
<1> QED BY <1>2, <1>3, <1>4, <1>5 DEF lock

\* In the files that are returned for an npm project a requirement asks for the version in Nexus
\* exactly if it leads to an external dependency (_resolve_dependent_packages).
THEOREM NpmLockAlwaysAgrees == JsSpec => []NpmLockAgrees
<1>1. ASSUME JsIInv PROVE NpmLockAgrees
    <2> SUFFICES ASSUME NEW i \in Finished("npm"), NamesAreApart(request[i].lock)
                 PROVE  LET lock == request[i].lock
                        IN /\ \A e \in DOMAIN results[i].lock :
                                e[1] \in Packages(lock) =>
                                    results[i].lock[e] = MustAsk(lock, e[1], e[2])
                           /\ \A n \in request[i].manifest :
                                results[i].manifest[n] = MustAsk(lock, <<>>, n)
        BY DEF NpmLockAgrees
    <2>1. i \in DOMAIN results /\ request[i].manager = "npm"
        BY DEF Finished, ManagerOf
    <2>2. Resolved(request[i], results[i]) /\ IsLock(request[i].lock)
        BY <1>1, <2>1, ResultsAre DEF IsProject
    <2>3. /\ Asks(request[i].lock, Dependencies(request[i].lock), results[i].lock)
          /\ results[i].manifest = NpmManifest(request[i])
        BY <2>1, <2>2 DEF Resolved
    <2> QED BY <2>2, <2>3, RequirementsAsk, ManifestAsks
<1> QED BY <1>1, JsInvariance, PTL

=============================================================================
