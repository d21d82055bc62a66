---------------------------- MODULE NexusStaging ----------------------------
(***************************************************************************)
(* The dependencies of a request on their way into Nexus.  Tasks of the    *)
(* package managers download them, upload what does not come from a        *)
(* registry to a repository that all requests share, and fill the          *)
(* repositories of the request.  Nexus lets a component be uploaded once   *)
(* (ALLOW_ONCE) and adds it to its search index later.                     *)
(*                                                                         *)
(* A job goes through its dependencies several times; a pass is one loop   *)
(* of the code over them.                                                  *)
(***************************************************************************)
EXTENDS Naturals, Sequences

CONSTANTS
    Executions,  \* executions of fetch tasks
    Requests,
    Components,  \* the names under which Nexus keeps dependencies
    Kind,        \* where a dependency comes from
    Jobs,        \* what a request may ask for: a manager and a list of dependencies
    Shared,      \* the repositories that keep what is not from a registry
    Idle,        \* no execution
    Tries,       \* attempts of the searches that are repeated, per step
    OrientProxy, \* cachito_nexus_proxy_is_orient_db: raw names have no slash there
    MaxFaults    \* bound: faults in a behaviour

Registry == {"pypi", "GEM", "js_registry"}
Raw == {"vcs", "url", "GIT"}
JsExternal == {"js_git", "js_url"}
Hashed == {"url", "js_url"}   \* the lock file has a checksum

Managers == {"pip", "rubygems", "js"}
Passes(manager) ==
    CASE manager = "pip" -> <<"get", "push", "address">>
      [] manager = "rubygems" -> <<"get", "push", "prepare">>
      [] manager = "js" -> <<"host", "download">>

KindsOf(manager) ==
    CASE manager = "pip" -> {"pypi", "vcs", "url"}
      [] manager = "rubygems" -> {"GEM", "GIT"}
      [] manager = "js" -> {"js_registry"} \cup JsExternal

PassNames == {"get", "push", "address", "prepare", "host", "download"}
Steps == {"search", "fetch", "load", "upload", "confirm", "push", "look", "address",
          "prepare", "download"}

ASSUME KindAssumption == Kind \in [Components -> Registry \cup Raw \cup JsExternal]
ASSUME JobsAssumption ==
    /\ Jobs \subseteq [manager : Managers, deps : Seq(Components)]
    /\ \A j \in Jobs : \A i \in DOMAIN j.deps : Kind[j.deps[i]] \in KindsOf(j.manager)
ASSUME SharedAssumption == Shared \notin Requests
ASSUME TriesAssumption == Tries \in [Steps -> Nat \ {0}]
ASSUME MaxFaultsAssumption == MaxFaults \in Nat /\ OrientProxy \in BOOLEAN
ASSUME IdleAssumption ==
    Idle \notin [req : Requests, pos : Nat \X Nat, step : Steps \cup {"done", "failed"},
                 tries : Nat]

VARIABLES
    stored,     \* what each repository holds under a name
    indexed,    \* the names a search in a repository finds
    altered,    \* dependencies whose original location offers something else now
    job,        \* what a request asks for
    todo,       \* requests whose task waits for a worker
    exec,       \* where each execution is
    file,       \* the downloads in the bundle directory of a request
    unpacked,   \* the Git dependencies unpacked there
    redelivered, \* history: requests whose task was delivered again while it ran
    missed,     \* history: a search did not find what was stored
    faults      \* faults so far

nexusVars == <<stored, indexed>>
dirVars == <<file, unpacked>>
vars == <<nexusVars, altered, job, todo, exec, dirVars, redelivered, missed, faults>>

Repos == Requests \cup {Shared}
Contents == {"absent", "locked", "altered"}
Execution == [req : Requests, pos : Nat \X Nat, step : Steps \cup {"done", "failed"},
              tries : Nat]

StagingTypeOK ==
    /\ stored \in [Repos -> [Components -> Contents]]
    /\ indexed \in [Repos -> SUBSET Components]
    /\ altered \subseteq Components
    /\ job \in [Requests -> Jobs]
    /\ todo \subseteq Requests
    /\ exec \in [Executions -> Execution \cup {Idle}]
    /\ file \in [Requests -> [Components -> Contents]]
    /\ unpacked \in [Requests -> SUBSET Components]
    /\ redelivered \subseteq Requests
    /\ missed \in BOOLEAN
    /\ faults \in 0..MaxFaults

StagingInit ==
    /\ stored = [p \in Repos |-> [c \in Components |-> "absent"]]
    /\ indexed = [p \in Repos |-> {}]
    /\ altered = {}
    /\ job \in [Requests -> Jobs]
    /\ todo = Requests
    /\ exec = [e \in Executions |-> Idle]
    /\ file = [r \in Requests |-> [c \in Components |-> "absent"]]
    /\ unpacked = [r \in Requests |-> {}]
    /\ redelivered = {}
    /\ missed = FALSE
    /\ faults = 0

-----------------------------------------------------------------------------
(* The way of an execution through its job *)

Deps(r) == job[r].deps

\* The first step of a pass for a kind of dependency, or "skip".
First(pass, kind) ==
    CASE pass = "get" /\ kind \in Registry -> "fetch"
      [] pass = "get" /\ kind \in Raw -> "search"
      [] pass = "push" /\ kind \in {"pypi", "vcs", "url", "GEM"} -> "push"
      [] pass = "address" /\ kind \in {"vcs", "url"} -> "address"
      [] pass = "prepare" /\ kind = "GIT" -> "prepare"
      [] pass = "host" /\ kind \in JsExternal -> "search"
      [] pass = "download" -> "download"
      [] OTHER -> "skip"

StepAt(r, p) == First(Passes(job[r].manager)[p[1]], Kind[Deps(r)[p[2]]])

\* Mutation: the passes do not leave out the dependencies they are not about.
AllPlaces(r) == (DOMAIN Passes(job[r].manager)) \X (DOMAIN Deps(r))

\* Where the request has something to do: a pass and a dependency.
Places(r) ==
    {p \in (DOMAIN Passes(job[r].manager)) \X (DOMAIN Deps(r)) : StepAt(r, p) # "skip"}

Before(p, q) == p[1] < q[1] \/ (p[1] = q[1] /\ p[2] < q[2])

NextPlaces(r, p) ==
    {q \in Places(r) : Before(p, q) /\ \A x \in Places(r) : ~(Before(p, x) /\ Before(x, q))}

\* An execution for r that is done with place p.
After(e, r, p) ==
    IF NextPlaces(r, p) = {}
    THEN exec' = [exec EXCEPT ![e] = [req |-> r, pos |-> p, step |-> "done", tries |-> 0]]
    ELSE \E q \in NextPlaces(r, p) :
             exec' = [exec EXCEPT ![e] =
                          [req |-> r, pos |-> q, step |-> StepAt(r, q), tries |-> 0]]

Runs(e) == exec[e] # Idle /\ exec[e].step \in Steps
At(e, step) == exec[e] # Idle /\ exec[e].step = step
Req(e) == exec[e].req
Comp(e) == Deps(Req(e))[exec[e].pos[2]]

Advance(e) == After(e, Req(e), exec[e].pos)
Goto(e, step) == exec' = [exec EXCEPT ![e].step = step, ![e].tries = 0]
Fail(e) == Goto(e, "failed")

Start(e) ==
    /\ exec[e] = Idle
    /\ \E r \in todo :
           /\ After(e, r, <<0, 0>>)
           /\ todo' = todo \ {r}
    /\ UNCHANGED <<nexusVars, altered, job, dirVars, redelivered, missed, faults>>

-----------------------------------------------------------------------------
(* Searching *)

Missed(repo, c) == missed' = (missed \/ stored[repo][c] # "absent")

\* Attempt number tries + 1 of get_component_info_from_nexus; `seen` says whether the name
\* that is asked for can be found at all.
Attempt(e, repo, seen, found, given_up) ==
    IF seen /\ Comp(e) \in indexed[repo]
    THEN found /\ UNCHANGED missed
    ELSE /\ Missed(repo, Comp(e))
         /\ IF exec[e].tries + 1 < Tries[exec[e].step]
            THEN exec' = [exec EXCEPT ![e].tries = @ + 1]
            ELSE given_up

\* Is it in the shared repository?  A script dependency that is there needs nothing more.
Search(e) ==
    /\ At(e, "search")
    /\ Attempt(e, Shared, TRUE,
               IF Kind[Comp(e)] \in JsExternal THEN Advance(e) ELSE Goto(e, "load"),
               Goto(e, "fetch"))
    /\ UNCHANGED <<nexusVars, altered, job, todo, dirVars, redelivered, faults>>

\* The upload of a script dependency is over when a search finds it.
Confirm(e) ==
    /\ At(e, "confirm")
    /\ Attempt(e, Shared, TRUE, Advance(e), Fail(e))
    /\ UNCHANGED <<nexusVars, altered, job, todo, dirVars, redelivered, faults>>

\* Mutation: any upload that fails is taken for one that was done before.
LookTrusting(e) ==
    /\ At(e, "look")
    /\ Attempt(e, Req(e), TRUE, Advance(e), Advance(e))
    /\ UNCHANGED <<nexusVars, altered, job, todo, dirVars, redelivered, faults>>

\* An upload to the repository of the request failed: was it there before?  The name is not
\* adapted to OrientDB.
Look(e) ==
    /\ At(e, "look")
    /\ Attempt(e, Req(e), ~OrientProxy \/ Kind[Comp(e)] \notin Raw, Advance(e), Fail(e))
    /\ UNCHANGED <<nexusVars, altered, job, todo, dirVars, redelivered, faults>>

\* The location of a raw component goes into the requirement file offered to the user.
Address(e) ==
    /\ At(e, "address")
    /\ Attempt(e, Req(e), TRUE, Advance(e), Fail(e))
    /\ UNCHANGED <<nexusVars, altered, job, todo, dirVars, redelivered, faults>>

-----------------------------------------------------------------------------
(* Downloads and uploads *)

\* Mutation: the checksum is compared after the upload.
AcceptedBlindly(c, content) == TRUE

\* The checksum of the lock file is compared after the download.
Accepted(c, content) == Kind[c] \in Hashed => content = "locked"

\* The dependency is written into the bundle directory, then verified.
Write(e, content) ==
    /\ file' = [file EXCEPT ![Req(e)][Comp(e)] = content]
    /\ IF ~Accepted(Comp(e), content) THEN Fail(e)
       ELSE IF Kind[Comp(e)] \in Registry \/ At(e, "load") THEN Advance(e)
       ELSE Goto(e, "upload")

Original(c) == IF c \in altered THEN "altered" ELSE "locked"

\* From the original location: a proxy of a registry, Git, or a URL.
Fetch(e) ==
    /\ At(e, "fetch")
    /\ Write(e, Original(Comp(e)))
    /\ UNCHANGED <<nexusVars, altered, job, todo, unpacked, redelivered, missed, faults>>

\* From the shared repository.
Load(e) ==
    /\ At(e, "load")
    /\ Write(e, stored[Shared][Comp(e)])
    /\ UNCHANGED <<nexusVars, altered, job, todo, unpacked, redelivered, missed, faults>>

Store(repo, c, content) ==
    /\ stored[repo][c] = "absent"
    /\ stored' = [stored EXCEPT ![repo][c] = content]

\* A component that is there cannot be uploaded again.
Refused(repo, c) == stored[repo][c] # "absent" /\ UNCHANGED stored

Upload(e) ==
    LET r == Req(e)
        c == Comp(e)
    IN /\ At(e, "upload")
       /\ \/ /\ Store(Shared, c, file[r][c])
             /\ IF Kind[c] \in JsExternal THEN Goto(e, "confirm") ELSE Advance(e)
          \/ Refused(Shared, c) /\ Fail(e)
       /\ UNCHANGED <<indexed, altered, job, todo, dirVars, redelivered, missed, faults>>

\* Mutation: an upload that is refused fails the request.
PushOnce(e) ==
    LET r == Req(e)
        c == Comp(e)
    IN /\ At(e, "push")
       /\ \/ Store(r, c, file[r][c]) /\ Advance(e)
          \/ Refused(r, c) /\ Fail(e)
       /\ UNCHANGED <<indexed, altered, job, todo, dirVars, redelivered, missed, faults>>

Push(e) ==
    LET r == Req(e)
        c == Comp(e)
    IN /\ At(e, "push")
       /\ \/ Store(r, c, file[r][c]) /\ Advance(e)
          \/ Refused(r, c) /\ Goto(e, "look")
       /\ UNCHANGED <<indexed, altered, job, todo, dirVars, redelivered, missed, faults>>

\* prepare_git_dependency unpacks the archive and deletes it.
Prepare(e) ==
    LET r == Req(e)
        c == Comp(e)
    IN /\ At(e, "prepare")
       /\ IF file[r][c] = "absent"
          THEN Fail(e) /\ UNCHANGED dirVars
          ELSE /\ unpacked' = [unpacked EXCEPT ![r] = @ \cup {c}]
               /\ file' = [file EXCEPT ![r][c] = "absent"]
               /\ Advance(e)
       /\ UNCHANGED <<nexusVars, altered, job, todo, redelivered, missed, faults>>

\* Through the npm proxy of the request, which reads the shared repository.
Download(e) ==
    LET c == Comp(e)
    IN /\ At(e, "download")
       /\ file' = [file EXCEPT ![Req(e)][c] =
                       IF Kind[c] \in JsExternal THEN stored[Shared][c] ELSE "locked"]
       /\ Advance(e)
       /\ UNCHANGED <<nexusVars, altered, job, todo, unpacked, redelivered, missed, faults>>

ExecutionStep(e) ==
    \/ Start(e)
    \/ Search(e)
    \/ Confirm(e)
    \/ Look(e)
    \/ Address(e)
    \/ Fetch(e)
    \/ Load(e)
    \/ Upload(e)
    \/ Push(e)
    \/ Prepare(e)
    \/ Download(e)

-----------------------------------------------------------------------------
(* Nexus, the original locations and the faults *)

IndexCatchesUp(repo, c) ==
    /\ stored[repo][c] # "absent" /\ c \notin indexed[repo]
    /\ indexed' = [indexed EXCEPT ![repo] = @ \cup {c}]
    /\ UNCHANGED <<stored, altered, job, todo, exec, dirVars, redelivered, missed, faults>>

Fault == faults < MaxFaults /\ faults' = faults + 1

\* The file behind a URL changes.
OriginChanges(c) ==
    /\ Kind[c] \in Hashed /\ c \notin altered /\ Fault
    /\ altered' = altered \cup {c}
    /\ UNCHANGED <<nexusVars, job, todo, exec, dirVars, redelivered, missed>>

\* A call fails and nothing has happened.  A failed upload to the request is looked into.
CallFails(e) ==
    /\ Runs(e) /\ Fault
    /\ IF At(e, "push") THEN Goto(e, "look") ELSE Fail(e)
    /\ UNCHANGED <<nexusVars, altered, job, todo, dirVars, redelivered, missed>>

\* The answer of a successful upload is lost; a POST is not repeated.
AnswerIsLost(e) ==
    LET r == Req(e)
        c == Comp(e)
    IN /\ Fault
       /\ \/ At(e, "upload") /\ Store(Shared, c, file[r][c]) /\ Fail(e)
          \/ At(e, "push") /\ Store(r, c, file[r][c]) /\ Goto(e, "look")
       /\ UNCHANGED <<indexed, altered, job, todo, dirVars, redelivered, missed>>

\* A worker dies; the broker delivers the task again, from its beginning.
WorkerDies(e) ==
    /\ Runs(e) /\ Fault
    /\ todo' = todo \cup {Req(e)}
    /\ exec' = [exec EXCEPT ![e] = Idle]
    /\ UNCHANGED <<nexusVars, altered, job, dirVars, redelivered, missed>>

\* The task is delivered again although its worker lives.
Redelivered(e) ==
    /\ Runs(e) /\ Req(e) \notin todo /\ Fault
    /\ todo' = todo \cup {Req(e)}
    /\ redelivered' = redelivered \cup {Req(e)}
    /\ UNCHANGED <<nexusVars, altered, job, exec, dirVars, missed>>

StagingNext ==
    \/ \E e \in Executions : \/ ExecutionStep(e)
                             \/ CallFails(e)
                             \/ AnswerIsLost(e)
                             \/ WorkerDies(e)
                             \/ Redelivered(e)
    \/ \E repo \in Repos, c \in Components : IndexCatchesUp(repo, c)
    \/ \E c \in Components : OriginChanges(c)

StagingSpec == StagingInit /\ [][StagingNext]_vars

-----------------------------------------------------------------------------
(* Properties *)

Finished(r) == \E e \in Executions : At(e, "done") /\ Req(e) = r

\* Under a name with a checksum Nexus holds what that checksum was made of, in the shared
\* repositories, where it stays for all later requests, and in those of a request; whatever
\* the original location offers meanwhile, and whatever fails.  Only a task that runs
\* twice at a time breaks this: one execution uploads the file it verified after the other
\* has replaced it (download_dependencies of pip, upload_non_registry_dependency).
NexusHoldsWhatWasLocked ==
    \A repo \in Repos, c \in Components :
        stored[repo][c] = "altered" => redelivered # {}

InPlace(r, c) ==
    CASE Kind[c] \in {"pypi", "GEM"} -> stored[r][c] = "locked" /\ file[r][c] = "locked"
      [] Kind[c] \in {"vcs", "url"} -> /\ stored[Shared][c] = "locked"
                                       /\ stored[r][c] = "locked"
                                       /\ file[r][c] = "locked"
      [] Kind[c] = "GIT" -> stored[Shared][c] = "locked" /\ c \in unpacked[r]
      [] Kind[c] \in JsExternal -> stored[Shared][c] = "locked" /\ file[r][c] = "locked"
      [] OTHER -> file[r][c] = "locked"

\* When the tasks are over, every dependency is where README ("Nexus") says: in the bundle,
\* in the repositories of the request and, if it is external, in the shared one.  That holds
\* after retries, worker restarts and lost answers too.
FinishedIsStaged ==
    \A r \in Requests : Finished(r) /\ redelivered = {} =>
        \A i \in DOMAIN Deps(r) : InPlace(r, Deps(r)[i])

Uses(r, c) == \E i \in DOMAIN Deps(r) : Deps(r)[i] = c

\* Two gems of a Gemfile.lock come from one commit of one Git repository.
GitTwice(r, c) ==
    Kind[c] = "GIT" /\ \E i, j \in DOMAIN Deps(r) : i # j /\ Deps(r)[i] = c /\ Deps(r)[j] = c

\* No request fails unless something outside failed, the search index was late, another
\* request stages one of the same dependencies at the same time (the second upload is
\* refused, see download_dependencies), or the archive of a Git repository is to be unpacked
\* again for its next gem (prepare_git_dependency has removed it).  "If Cachito encounters
\* this same dependency again in a future request, it will use it directly from Nexus"
\* (README, pip); the bundle has "all GEM and GIT dependencies" (README, RubyGems).
UndisturbedStagingSucceeds ==
    \A e \in Executions : At(e, "failed") =>
        \/ faults > 0
        \/ missed
        \/ \E r \in Requests \ {Req(e)} : Uses(r, Comp(e))
        \/ GitTwice(Req(e), Comp(e))

=============================================================================
