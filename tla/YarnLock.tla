------------------------------ MODULE YarnLock ------------------------------
(***************************************************************************)
(* yarn.lock: entries that say what the requirements of package.json and   *)
(* of other entries resolve to.  A requirement is a name, where to look    *)
(* for it and a range; an entry has one or several of them as its key.     *)
(***************************************************************************)
EXTENDS Naturals, FiniteSets

Requirements == STRING \X STRING \X STRING
Declared(name, range) == <<name, "declared", range>>
Replaced(name, source) == <<name, "nexus", source>>

\* Requirements that no entry has as a key are met by workspaces.
EntryOf(lock, want) == {e \in lock : want \in e.key}

Wants(lock, wants) == UNION {e.needs : e \in UNION {EntryOf(lock, w) : w \in wants}}

\* Mutation: only the dependencies of the packages themselves.
DirectOnly(lock, wants) == wants \cup Wants(lock, wants)

\* _add_reachable_deps for all roots: until nothing is added.
Reachable(lock, wants) ==
    LET all == wants \cup UNION {e.needs : e \in lock}
        reach[found \in SUBSET all] ==
            IF Wants(lock, found) \subseteq found THEN found
            ELSE reach[found \cup Wants(lock, found)]
    IN reach[wants]

\* _find_non_dev_deps: from everything but devDependencies, of the workspaces too.
NonDev(lock, manifests) == Reachable(lock, UNION {m.deps : m \in manifests})

ExternalEntry(entry) == entry.source \notin {"registry", "file"}

\* _match_to_new_version: a requirement on a replaced entry asks for the version in Nexus.
Rewritten(lock, want) ==
    LET replaced == {e \in EntryOf(lock, want) : ExternalEntry(e)}
    IN IF replaced = {} THEN want ELSE Replaced(want[1], (CHOOSE e \in replaced : TRUE).source)

\* Mutation: the keys of the lock file stay.
OldKey(lock, entry) == [entry EXCEPT !.needs = {Rewritten(lock, w) : w \in @}]

\* An entry in the new lock file, its key included.
NewEntry(lock, entry) ==
    [entry EXCEPT !.key = IF ExternalEntry(entry) THEN {Replaced(entry.name, entry.source)} ELSE @,
                  !.needs = {Rewritten(lock, w) : w \in @}]

\* The requirements of the root package.json in the new package.json.
NewManifest(lock, manifest) ==
    [deps |-> {Rewritten(lock, w) : w \in manifest.deps},
     dev |-> {Rewritten(lock, w) : w \in manifest.dev}]

\* What is reported for an entry: a dev dependency if no requirement in its key is reachable.
EntryDep(lock, manifests, entry) ==
    [name |-> entry.name, bundled |-> FALSE,
     version |-> IF entry.source = "registry" THEN entry.version ELSE entry.source,
     dev |-> entry.key \cap NonDev(lock, manifests) = {}]

\* deps_by_id, the workspaces last.
YarnDeps(lock, manifests, workspaces) ==
    LET local == {[name |-> w, bundled |-> FALSE, version |-> "file", dev |-> FALSE] :
                  w \in workspaces}
    IN {d \in {EntryDep(lock, manifests, e) : e \in lock} :
            ~\E l \in local : l.name = d.name /\ l.version = d.version} \cup local

=============================================================================
