----------------------------- MODULE ScmArchive -----------------------------
(***************************************************************************)
(* The long-term storage of source archives: Git.fetch_source of           *)
(* cachito/workers/scm.py, run by the fetch_app_source tasks of several    *)
(* workers on one repository, and the prune_archives script.               *)
(*                                                                         *)
(* The archives are shared by all workers through the file system, with no *)
(* lock: a worker looks whether the archive it needs exists, verifies it,  *)
(* makes it from an older one or from a clone, links it into place, and    *)
(* unpacks it; any other worker and the script may add or remove archives  *)
(* between two of these steps.                                             *)
(***************************************************************************)
EXTENDS Naturals, FiniteSets

CONSTANTS
    Fetchers,    \* workers that run fetch_app_source
    Commits,     \* references of the repository
    Idle,        \* a worker with nothing to fetch; the script between two archives
    Missing,     \* an archive that does not exist
    FaultKinds,  \* the faults of a behaviour: see Fault
    MaxFaults    \* bound: faults in a behaviour

\* An archive is named <ref>.tar.gz or <ref>-with-submodules.tar.gz.
Archives == [ref : Commits, submodules : BOOLEAN]

\* truncated: it ends too early     garbled: it is not a tar file, or does not decompress
\* broken: it can be extracted, but git fsck fails on what it holds
Damage == {"truncated", "garbled", "broken"}
Content == [health : {"good"} \cup Damage,
            strays : BOOLEAN]   \* it holds submodules of another commit
Intact == [health |-> "good", strays |-> FALSE]

\* look .. unpack: the next step of the worker      done, failed: how the task ended
Steps == {"look", "verify", "list", "stat", "update", "clone", "link", "check", "remove",
          "unpack", "done", "failed"}

Fetch == [needs  : Archives,
          step   : Steps,
          listed : SUBSET Archives,              \* previous archives still to be tried
          built  : Content \cup {Missing},       \* the temporary archive
          cloned : BOOLEAN,                      \* it was made from a clone
          met    : BOOLEAN,                      \* the archive was found and is invalid
          sources : Content \cup {Missing}]      \* what was unpacked for the request

ASSUME ScmIdleAssumption == Idle \notin Fetch \cup Archives
ASSUME MissingAssumption == Missing \notin Content
ASSUME ScmFaultAssumption == FaultKinds \subseteq {"disk", "git", "timeout", "crash", "prune"}
ASSUME ScmBoundAssumption == MaxFaults \in Nat

VARIABLES
    archive,  \* what each archive holds
    fetcher,  \* what each worker is doing
    recent,   \* references with a request younger than the age the script is called with
    pruner,   \* the archive the script is about to delete
    faults    \* faults so far

scmVars == <<archive, fetcher, recent, pruner, faults>>

ScmTypeOK ==
    /\ archive \in [Archives -> Content \cup {Missing}]
    /\ fetcher \in [Fetchers -> Fetch \cup {Idle}]
    /\ recent \subseteq Commits
    /\ pruner \in Archives \cup {Idle}
    /\ faults \in 0..MaxFaults

ScmInit ==
    /\ archive = [a \in Archives |-> Missing]
    /\ fetcher = [p \in Fetchers |-> Idle]
    /\ recent = {}
    /\ pruner = Idle
    /\ faults = 0

Exists(a) == archive[a] # Missing
Busy(p) == fetcher[p] # Idle
Doing(p, step) == Busy(p) /\ fetcher[p].step = step
Becomes(p, fetch) == fetcher' = [fetcher EXCEPT ![p] = fetch]
Goto(p, step) == Becomes(p, [fetcher[p] EXCEPT !.step = step])

Fault(kind) ==
    /\ kind \in FaultKinds /\ faults < MaxFaults
    /\ faults' = faults + 1

\* How _verify_archive ends: it returns, it raises an error its callers handle (no archive,
\* no tar file, zlib.error, git fsck), or it lets one pass (EOFError).
Verdict(a) ==
    CASE ~Exists(a) -> "invalid"
      [] Exists(a) /\ archive[a].health = "good" -> "valid"
      [] Exists(a) /\ archive[a].health = "truncated" -> "uncaught"
      [] OTHER -> "invalid"

\* A verification with that verdict.  git fsck may exceed cachito_subprocess_timeout.
Verified(p, verdict) ==
    \/ verdict = Verdict(fetcher[p].needs) /\ UNCHANGED faults
    \/ /\ verdict = "invalid" /\ Verdict(fetcher[p].needs) = "valid"
       /\ Fault("timeout")

-----------------------------------------------------------------------------
(* fetch_source *)

\* A request for the reference was created; its first task starts.
StartFetch(p, a) ==
    /\ fetcher[p] = Idle
    /\ Becomes(p,
           [needs |-> a, step |-> "look", listed |-> {}, built |-> Missing,
            cloned |-> FALSE, met |-> FALSE, sources |-> Missing])
    /\ recent' = recent \cup {a.ref}
    /\ UNCHANGED <<archive, pruner, faults>>

Look(p) ==
    /\ Doing(p, "look")
    /\ Goto(p, IF Exists(fetcher[p].needs) THEN "verify" ELSE "list")
    /\ UNCHANGED <<archive, faults>>

Verify(p) ==
    /\ Doing(p, "verify")
    /\ \/ Verified(p, "valid") /\ Goto(p, "unpack")
       \/ Verified(p, "uncaught") /\ Goto(p, "failed")
       \/ /\ Verified(p, "invalid")
          /\ Becomes(p, [fetcher[p] EXCEPT !.step = "list", !.met = TRUE])
    /\ UNCHANGED archive

\* The names in the directory, the archives with submodules among them.
List(p) ==
    /\ Doing(p, "list")
    /\ Becomes(p, [fetcher[p] EXCEPT !.step = "stat",
                                     !.listed = {a \in Archives : Exists(a)}])
    /\ UNCHANGED <<archive, faults>>

\* Mutation: the list holds references, not archives.
PreviousRefs(listed) == {a.ref : a \in listed}

\* Mutation: submodules are thought to do no harm.
AnyPrevious(listed) == listed

\* Archives with submodules are not used: nothing removes the submodules from them.
PlainPrevious(listed) == {a \in listed : ~a.submodules}

\* The names are sorted by the time of their last change, which an archive that is gone does
\* not have.  The order is left open: "anyone is ok".
Stat(p) ==
    /\ Doing(p, "stat")
    /\ IF \A a \in fetcher[p].listed : Exists(a)
       THEN Becomes(p, [fetcher[p] EXCEPT !.step = "update", !.listed = PlainPrevious(@)])
       ELSE Goto(p, "failed")
    /\ UNCHANGED <<archive, faults>>

\* How update_and_archive goes on with a previous archive: an archive is built, the
\* exception is one fetch_source handles by trying the next, or it is any other.
UpdateResults(content) ==
    CASE content = Missing -> {"next"}
      [] content # Missing /\ content.health = "good" -> {"good"}
      [] content # Missing /\ content.health = "truncated" -> {"raise"}
      [] content # Missing /\ content.health = "garbled" -> {"next", "raise"}
      [] OTHER -> {"next", "raise", "good", "broken"}

Update(p) ==
    /\ Doing(p, "update")
    /\ \E a \in fetcher[p].listed : \E result \in UpdateResults(archive[a]) :
          CASE result = "next" -> Becomes(p, [fetcher[p] EXCEPT !.listed = @ \ {a}])
            [] result = "raise" -> Goto(p, "failed")
            [] OTHER -> LET strays == a.submodules \/ archive[a].strays
                        IN /\ Becomes(p, [fetcher[p] EXCEPT
                                !.step = "link", !.cloned = FALSE, !.listed = @ \ {a},
                                !.built = [health |-> result, strays |-> strays]])
    /\ UNCHANGED <<archive, faults>>

NoneIsLeft(p) ==
    /\ Doing(p, "update") /\ fetcher[p].listed = {}
    /\ Goto(p, "clone")
    /\ UNCHANGED <<archive, faults>>

Clone(p) ==
    /\ Doing(p, "clone")
    /\ Becomes(p, [fetcher[p] EXCEPT !.step = "link", !.cloned = TRUE, !.built = Intact])
    /\ UNCHANGED <<archive, faults>>

\* The remote, the checkout of the reference or its submodules fail.
GitFails(p) ==
    /\ \/ Doing(p, "clone")
       \/ Doing(p, "update") /\ fetcher[p].listed # {}
    /\ Fault("git")
    /\ Goto(p, "failed")
    /\ UNCHANGED archive

-----------------------------------------------------------------------------
(* _create_archive *)

\* Mutation: the error of os.link is not handled.
LinkOrFail(p) ==
    LET a == fetcher[p].needs
    IN /\ Doing(p, "link")
       /\ archive' = [archive EXCEPT ![a] = IF Exists(a) THEN @ ELSE fetcher[p].built]
       /\ Becomes(p, [fetcher[p] EXCEPT !.step = IF Exists(a) THEN "failed" ELSE "check",
                                        !.built = Missing])
       /\ UNCHANGED faults

\* The temporary archive gets its name, unless another worker was faster: its archive is
\* taken then.
Link(p) ==
    LET a == fetcher[p].needs
    IN /\ Doing(p, "link")
       /\ archive' = [archive EXCEPT ![a] = IF Exists(a) THEN @ ELSE fetcher[p].built]
       /\ Becomes(p, [fetcher[p] EXCEPT !.step = "check", !.built = Missing])
       /\ UNCHANGED faults

Check(p) ==
    /\ Doing(p, "check")
    /\ \/ Verified(p, "valid") /\ Goto(p, "unpack")
       \/ Verified(p, "uncaught") /\ Goto(p, "failed")
       \/ Verified(p, "invalid") /\ Goto(p, "remove")
    /\ UNCHANGED archive

\* The invalid archive is unlinked and the task fails.  If it is gone already, the loop over
\* the previous archives takes the error of os.unlink for one of a previous archive.
Remove(p) ==
    LET a == fetcher[p].needs
    IN /\ Doing(p, "remove")
       /\ archive' = [archive EXCEPT ![a] = Missing]
       /\ Goto(p, IF Exists(a) \/ fetcher[p].cloned THEN "failed" ELSE "update")
       /\ UNCHANGED faults

-----------------------------------------------------------------------------
(* The rest of fetch_app_source *)

Unpack(p) ==
    LET content == archive[fetcher[p].needs]
    IN /\ Doing(p, "unpack")
       /\ IF content # Missing /\ content.health \in {"good", "broken"}
          THEN Becomes(p, [fetcher[p] EXCEPT !.step = "done", !.sources = content])
          ELSE Goto(p, "failed")
       /\ UNCHANGED <<archive, faults>>

EndFetch(p) ==
    /\ Doing(p, "done") \/ Doing(p, "failed")
    /\ Becomes(p, Idle)
    /\ UNCHANGED <<archive, faults>>

\* The temporary files of the worker are never looked at again.
FetcherDies(p) ==
    /\ Busy(p) /\ Fault("crash")
    /\ Becomes(p, Idle)
    /\ UNCHANGED archive

FetchStep(p) ==
    /\ \/ Look(p)
       \/ Verify(p)
       \/ List(p)
       \/ Stat(p)
       \/ Update(p)
       \/ NoneIsLeft(p)
       \/ Clone(p)
       \/ GitFails(p)
       \/ Link(p)
       \/ Check(p)
       \/ Remove(p)
       \/ Unpack(p)
       \/ EndFetch(p)
       \/ FetcherDies(p)
    /\ UNCHANGED <<recent, pruner>>

-----------------------------------------------------------------------------
(* The storage and the prune_archives script *)

\* The storage damages an archive, but not between its verification and its use.
DamageArchive(a) ==
    /\ \A p \in Fetchers : Doing(p, "unpack") => fetcher[p].needs # a
    /\ Exists(a) /\ archive[a].health = "good"
    /\ Fault("disk")
    /\ \E damage \in Damage : archive' = [archive EXCEPT ![a].health = damage]
    /\ UNCHANGED <<fetcher, recent, pruner>>

\* The latest request for the reference becomes too old.  No task runs for that long.
GrowOld(c) ==
    /\ c \in recent
    /\ \A p \in Fetchers : Busy(p) => fetcher[p].needs.ref # c
    /\ recent' = recent \ {c}
    /\ UNCHANGED <<archive, fetcher, pruner, faults>>

\* The script asks the API for the latest request of an archive it found; the answer is old.
FindStale(a) ==
    /\ "prune" \in FaultKinds
    /\ pruner = Idle /\ Exists(a) /\ a.ref \notin recent
    /\ pruner' = a
    /\ UNCHANGED <<archive, fetcher, recent, faults>>

\* Fetches in progress may be hit: that counts as a fault.
Prune ==
    /\ pruner # Idle
    /\ IF \E p \in Fetchers : Busy(p) THEN Fault("prune") ELSE UNCHANGED faults
    /\ archive' = [archive EXCEPT ![pruner] = Missing]
    /\ pruner' = Idle
    /\ UNCHANGED <<fetcher, recent>>

ScmNext ==
    \/ \E p \in Fetchers : FetchStep(p) \/ \E a \in Archives : StartFetch(p, a)
    \/ \E a \in Archives : DamageArchive(a) \/ FindStale(a)
    \/ \E c \in Commits : GrowOld(c)
    \/ Prune

ScmSpec == ScmInit /\ [][ScmNext]_scmVars

-----------------------------------------------------------------------------
(* Properties *)

\* A request gets the sources of its own commit, without the submodules of another one,
\* although archives are made from each other, shared, damaged and removed (fetch_source).
SourcesOfOneCommit ==
    \A p \in Fetchers : Doing(p, "done") => ~fetcher[p].sources.strays

\* Sharing alone never fails a request: workers that make the same archive at the same time
\* all get it ("It should be safe to proceed", _create_archive).
SharingIsSafe == \A p \in Fetchers : Doing(p, "failed") => faults > 0

\* A fetch that meets an invalid archive makes it anew, if this is all that goes wrong
\* ("is invalid and will be re-created", fetch_source).
InvalidIsRecreated ==
    \A p \in Fetchers : Doing(p, "failed") => ~(fetcher[p].met /\ faults = 1)

=============================================================================
