--------------------------- MODULE CachitoPipeline ---------------------------
(***************************************************************************)
(* A Cachito deployment: the API of RequestApi with its real clients.  The *)
(* broker delivers the tasks of a request's chain at least once            *)
(* (task_acks_late, task_reject_on_worker_lost); workers run them one step *)
(* at a time, calling the API, the shared volume and Nexus; the cleanup    *)
(* job marks old requests as stale.                                        *)
(*                                                                         *)
(* A task is a program: the sequence of the steps of its function that     *)
(* another process can see or that can fail.  A step that starts with      *)
(* "say_" is a PATCH; it waits for the answer of the thread that serves it.*)
(***************************************************************************)
EXTENDS RequestApi, Bags

CONSTANTS
    Workers,      \* Celery workers, one process each
    CleanupJob,   \* the cachito-cleanup script, as a client of the API
    Nobody,       \* no worker; no client
    ExpiryStates, \* states in which a request may outlive its lifetime
    DefaultPrefix, \* cachito_nexus_request_repo_prefix has its default, "cachito-"
    MaxTries,     \* bound: repetitions of a PATCH whose answer was lost or 5xx
    FaultKinds,   \* the faults of a behaviour, see Fault; "step" is not counted
    MaxFaults     \* bound: faults in a behaviour

\* The package managers create_request schedules a task for.
TaskManagers == {"gomod", "npm", "pip", "rubygems", "git-submodule", "yarn"}

\* The package managers whose Nexus repository is an npm proxy.
JsManagers == {"npm", "yarn"}

ASSUME ManagersAssumption == PkgManagers \subseteq TaskManagers
ASSUME ClientsAssumption == Nobody \notin Workers /\ CleanupJob \notin Workers
ASSUME ExpiryAssumption == ExpiryStates \subseteq States
ASSUME FaultAssumption ==
    /\ FaultKinds \subseteq {"crash", "redelivery", "api", "timeout", "broker", "script", "step"}
    /\ MaxFaults \in Nat /\ MaxTries \in Nat

VARIABLES
    queue,    \* messages in the broker, with their number of copies
    worker,   \* what each worker is doing
    client,   \* who waits for the answer of each API thread
    content,  \* what is in the temporary directory of a request
    bundle,   \* what is in the bundle archive of a request and the files beside it
    nexus,    \* what Nexus holds for a request
    password, \* how many passwords were made for a request; Nexus knows the last one
    configs,  \* the passwords in the configuration a request offers its user
    job,      \* the request the cleanup job is about to expire
    faults    \* faults so far

nexusVars == <<nexus, password, configs>>
pipelineVars == <<queue, worker, client, content, bundle, nexusVars, job, faults>>
allVars == <<vars, pipelineVars>>

-----------------------------------------------------------------------------
(* The chain of tasks of a request and their programs *)

\* A dependency task is named after its package manager.
Scheduled(r, m) == IF m \in managers[r] THEN <<m>> ELSE <<>>

Chain(r) ==
    <<"fetch_app_source">>
        \o Scheduled(r, "gomod") \o Scheduled(r, "npm") \o Scheduled(r, "pip")
        \o Scheduled(r, "rubygems") \o Scheduled(r, "git-submodule") \o Scheduled(r, "yarn")
        \o <<"process_fetched_sources">> \o <<"finalize_request">>

AppSourceSteps == <<"check", "say_source", "unpack">>

JsSteps ==
    <<"check", "verify", "say_nexus", "prepare_nexus", "say_dependencies", "resolve",
      "write_packages", "say_finalizing", "finalize_nexus", "give_access">>

PipSteps ==
    <<"check", "open_dir", "say_nexus", "prepare_nexus", "say_dependencies", "resolve",
      "say_finalizing", "finalize_nexus", "give_access", "write_packages">>

RubygemsSteps ==
    <<"check", "open_dir", "say_nexus", "prepare_nexus", "say_dependencies", "resolve",
      "say_finalizing", "finalize_nexus", "write_packages", "give_access">>

GomodSteps == <<"check", "verify", "environment", "say_dependencies", "resolve", "write_packages">>

SubmoduleSteps == <<"check", "verify", "write_packages">>

\* Mutation: the checksum is taken before the archive is closed.
ProcessStepsChecksumFirst ==
    <<"check", "say_assembling", "open_archive", "checksum", "close_archive",
      "say_aggregating", "aggregate", "counts">>

ProcessSteps ==
    <<"check", "say_assembling", "open_archive", "close_archive", "checksum",
      "say_aggregating", "aggregate", "counts">>

FinalizeSteps == <<"check", "count", "say_complete">>

Program(task) ==
    CASE task = "fetch_app_source" -> AppSourceSteps
      [] task = "process_fetched_sources" -> ProcessSteps
      [] task = "finalize_request" -> FinalizeSteps
      [] task \in JsManagers -> JsSteps
      [] task = "pip" -> PipSteps
      [] task = "rubygems" -> RubygemsSteps
      [] task = "gomod" -> GomodSteps
      [] task = "git-submodule" -> SubmoduleSteps

PatchSteps == {"say_source", "say_nexus", "say_dependencies", "say_finalizing",
               "say_assembling", "say_aggregating", "say_complete"}

\* Each of them gives its own reason.
ASSUME ReasonsAssumption == PatchSteps \cup {"error", "expired"} \subseteq Reasons

StateSaid(step) == IF step = "say_complete" THEN "complete" ELSE "in_progress"

\* The return value of process_fetched_sources is the argument of finalize_request: the
\* counts of a full or an empty list of packages, or None when a task was skipped.
Results == {"none", "full", "empty"}

Message == [req : Requests, pos : Nat, arg : Results]

\* run: about to do step `at`      waiting: PATCH of the step in flight
\* raised: the step failed         reporting: PATCH of failed_request_callback in flight
\* returned: the task is over, the next one is not yet published
\* gave_up: the task failed, nothing follows
Phases == {"run", "waiting", "raised", "reporting", "returned", "gave_up"}

Execution == [msg : Message, at : Nat, phase : Phases, tries : Nat, result : Results,
              password : Nat]   \* the one this execution of the task made

Contents == {"app"} \cup PkgManagers   \* sources, and a packages file per manager

BundleInfo == [writer : Workers \cup {Nobody},  \* who opened the archive last
               whole  : BOOLEAN,  \* the archive was written to its end by one writer
               sealed : BOOLEAN,  \* the checksum file is the archive's checksum
               listed : Results]  \* what the packages file lists

\* repo: the repository exists    open: it may fetch from upstream    user: has a user
NexusItems == {"repo", "open", "user"}

\* What a worker is doing that has no message.
Free == [phase |-> "free"]

PipelineTypeOK ==
    /\ DOMAIN queue \subseteq Message
    /\ \A m \in DOMAIN queue : queue[m] \in Nat \ {0}
    /\ worker \in [Workers -> Execution \cup {Free}]
    /\ client \in [Handlers -> Workers \cup {CleanupJob, Nobody}]
    /\ content \in [Requests -> SUBSET Contents]
    /\ bundle \in [Requests -> BundleInfo]
    /\ nexus \in [Requests -> SUBSET (NexusManagers \X NexusItems)]
    /\ password \in [Requests -> [NexusManagers -> Nat]]
    /\ configs \in [Requests -> SUBSET (NexusManagers \X Nat)]
    /\ job \in Requests \cup {Nobody, CleanupJob}
    /\ faults \in 0..MaxFaults
    /\ TypeOK

PipelineInit ==
    /\ Init
    /\ queue = EmptyBag
    /\ worker = [w \in Workers |-> Free]
    /\ client = [h \in Handlers |-> Nobody]
    /\ content = [r \in Requests |-> {}]
    /\ bundle = [r \in Requests |-> [writer |-> Nobody, whole |-> FALSE,
                                     sealed |-> FALSE, listed |-> "none"]]
    /\ nexus = [r \in Requests |-> {}]
    /\ password = [r \in Requests |-> [m \in NexusManagers |-> 0]]
    /\ configs = [r \in Requests |-> {}]
    /\ job = Nobody
    /\ faults = 0

Fault(kind) ==
    /\ kind \in FaultKinds /\ faults < MaxFaults
    /\ faults' = faults + 1

-----------------------------------------------------------------------------
(* The broker and the life of a task *)

\* Mutation: the count of a message goes down to zero and its entry stays.
TakeCopy(m, q) == [q EXCEPT ![m] = @ - 1]

Put(m, q) == q (+) SetToBag({m})
Take(m, q) == q (-) SetToBag({m})

Task(w) == Chain(worker[w].msg.req)[worker[w].msg.pos]
StepOf(w) == Program(Task(w))[worker[w].at]
Doing(w, step) == worker[w] # Free /\ worker[w].phase = "run" /\ StepOf(w) = step

Becomes(w, phase) == worker' = [worker EXCEPT ![w].phase = phase]
Raise(w) == Becomes(w, "raised")

\* The step is over: the next one, or the end of the task.
Proceed(w) ==
    worker' = IF worker[w].at = Len(Program(Task(w)))
              THEN [worker EXCEPT ![w].phase = "returned"]
              ELSE [worker EXCEPT ![w].phase = "run", ![w].at = @ + 1, ![w].tries = 0]

\* A worker receives a message; setup_task_logging opens the log file of the request.
Deliver(w, m) ==
    /\ worker[w] = Free
    /\ queue' = Take(m, queue)
    /\ worker' = [worker EXCEPT ![w] =
           [msg |-> m, at |-> 1, phase |-> "run", tries |-> 0, result |-> "none",
            password |-> 0]]
    /\ files' = [files EXCEPT ![m.req] = @ \cup {"log"}]
    /\ UNCHANGED <<dbVars, gauge, handler, published, cleanups,
                   client, content, bundle, nexusVars, job, faults>>

NextMessage(w) == [worker[w].msg EXCEPT !.pos = @ + 1, !.arg = worker[w].result]
\* Mutation: the chain ends one task early.
IsLastTooEarly(w) == worker[w].msg.pos + 1 >= Len(Chain(worker[w].msg.req))

IsLast(w) == worker[w].msg.pos = Len(Chain(worker[w].msg.req))

\* The next task of the chain is published, then the message is acknowledged.
Finish(w) ==
    /\ worker[w] # Free /\ worker[w].phase = "returned"
    /\ queue' = IF IsLast(w) THEN queue ELSE Put(NextMessage(w), queue)
    /\ worker' = [worker EXCEPT ![w] = Free]
    /\ UNCHANGED <<vars, client, content, bundle, nexusVars, job, faults>>

\* A failed task is acknowledged too.
Abandon(w) ==
    /\ worker[w] # Free /\ worker[w].phase = "gave_up"
    /\ worker' = [worker EXCEPT ![w] = Free]
    /\ UNCHANGED <<vars, queue, client, content, bundle, nexusVars, job, faults>>

\* The client of a thread that will not be answered.
Forget(w) == client' = [h \in Handlers |-> IF client[h] = w THEN Nobody ELSE client[h]]

\* The worker dies and its message is requeued.  If it dies between the publication of the
\* next task and the acknowledgement, both are in the broker.
WorkerDies(w) ==
    /\ worker[w] # Free
    /\ \/ Fault("crash") /\ queue' = Put(worker[w].msg, queue)
       \/ /\ worker[w].phase = "returned" /\ ~IsLast(w) /\ Fault("redelivery")
          /\ queue' = Put(NextMessage(w), Put(worker[w].msg, queue))
    /\ worker' = [worker EXCEPT ![w] = Free]
    /\ Forget(w)
    /\ UNCHANGED <<vars, content, bundle, nexusVars, job>>

\* The connection of a worker to the broker is lost: the message is delivered again while
\* the worker still runs it.
Redeliver(w) ==
    /\ worker[w] # Free /\ Fault("redelivery")
    /\ queue' = Put(worker[w].msg, queue)
    /\ UNCHANGED <<vars, worker, client, content, bundle, nexusVars, job>>

-----------------------------------------------------------------------------
(* Calls of the API *)

Tell(w, h, state, reason, phase) ==
    /\ PatchBegin(h, worker[w].msg.req, state, reason)
    /\ client' = [client EXCEPT ![h] = w]
    /\ Becomes(w, phase)
    /\ UNCHANGED <<queue, content, bundle, nexusVars, job, faults>>

\* set_request_state in the body of a task.
SayState(w, h) ==
    \E step \in PatchSteps :
        /\ Doing(w, step)
        /\ Tell(w, h, StateSaid(step), step, "waiting")

\* failed_request_callback, called in the worker process when a task raised.
SayFailed(w, h) ==
    /\ worker[w] # Free /\ worker[w].phase = "raised"
    /\ Tell(w, h, "failed", "error", "reporting")

\* What a client makes of the answer.  A 5xx answer and a lost one are repeated by the
\* session (requests_auth_session), a 4xx one is not.
Answered(w, outcome) ==
    LET retried == outcome = "error" /\ worker[w].tries < MaxTries
        again == [worker EXCEPT ![w].tries = @ + 1,
                                ![w].phase = IF @ = "waiting" THEN "run" ELSE "raised"]
    IN CASE retried -> worker' = again
         [] ~retried /\ worker[w].phase = "reporting" -> Becomes(w, "gave_up")
         [] ~retried /\ worker[w].phase = "waiting" /\ outcome = "ok" -> Proceed(w)
         [] OTHER -> worker' = [worker EXCEPT ![w].phase = "raised", ![w].tries = 0]

Answer(h, outcome) ==
    /\ client' = [client EXCEPT ![h] = Nobody]
    /\ IF client[h] \in Workers THEN Answered(client[h], outcome) ELSE UNCHANGED worker
    /\ job' = IF client[h] = CleanupJob THEN Nobody ELSE job

\* A step of a thread after which it still serves the call.
ServeOn(h) ==
    /\ \/ PatchRead(h)
       \/ Commit(h) /\ handler'[h] # Idle
       \/ DeleteBundle(h)
       \/ DeleteLog(h)
    /\ UNCHANGED pipelineVars

ServeDeleteTemp(h) ==
    /\ DeleteTemp(h)
    /\ content' = [r \in Requests |-> IF "temp" \in files'[r] THEN content[r] ELSE {}]
    /\ UNCHANGED <<queue, worker, client, bundle, nexusVars, job, faults>>

\* The last step of a call: its answer is 200, 400 or 500.
ServeOk(h) ==
    /\ \/ Commit(h) /\ handler'[h] = Idle /\ UNCHANGED faults
       \/ /\ ScheduleCleanups(h)
          /\ IF cleanups' = cleanups \cup ({handler[h].req} \X
                                  (managers[handler[h].req] \cap NexusManagers))
                \/ ~CleansNexus(handler[h])
             THEN UNCHANGED faults
             ELSE Fault("broker")
    /\ Answer(h, "ok")
    /\ UNCHANGED <<queue, content, bundle, nexusVars>>

ServeRefused(h) ==
    /\ PatchRefuse(h)
    /\ Answer(h, "refused")
    /\ UNCHANGED <<queue, content, bundle, nexusVars, faults>>

\* The request_error row exists already: the database refuses the transaction.
ServeConflict(h) ==
    /\ At(h, "patch", "read") /\ WritesError(handler[h]) /\ error[handler[h].req]
    /\ HandlerFails(h)
    /\ Answer(h, "error")
    /\ UNCHANGED <<queue, content, bundle, nexusVars, faults>>

ServeError(h) ==
    /\ HandlerFails(h) /\ Fault("api")
    /\ Answer(h, "error")
    /\ UNCHANGED <<queue, content, bundle, nexusVars>>

\* The client waits no longer; the thread goes on.
TimeOut(h) ==
    /\ client[h] # Nobody /\ Fault("timeout")
    /\ Answer(h, "error")
    /\ UNCHANGED <<vars, queue, content, bundle, nexusVars>>

-----------------------------------------------------------------------------
(* The user *)

SubmitRequest(h) ==
    /\ client[h] = Nobody
    /\ \E r \in Requests, ms \in SUBSET PkgManagers : CreateRequest(h, r, ms)
    /\ UNCHANGED pipelineVars

SubmitRefused(h) == RefuseReplacements(h) /\ UNCHANGED pipelineVars

SubmitPublished(h) ==
    /\ PublishChain(h)
    /\ queue' = Put([req |-> handler[h].req, pos |-> 1, arg |-> "none"], queue)
    /\ UNCHANGED <<worker, client, content, bundle, nexusVars, job, faults>>

SubmitNotPublished(h) ==
    /\ PublishFails(h) /\ Fault("broker")
    /\ UNCHANGED <<queue, worker, client, content, bundle, nexusVars, job>>

SubmitFailed(h) == FailUnscheduled(h) /\ UNCHANGED pipelineVars

-----------------------------------------------------------------------------
(* Steps of the tasks.  r is the request the worker works for. *)

Local(w, r) == UNCHANGED <<dbVars, gauge, handler, published, cleanups,
                           queue, client, job, faults>>

\* runs_if_request_in_progress: the state it reads is that of the verbose answer.
CheckState(w, r) ==
    /\ Doing(w, "check")
    /\ IF Newest(r).state = "in_progress" THEN Proceed(w) ELSE Becomes(w, "returned")
    /\ UNCHANGED <<files, content, bundle, nexusVars>>

\* A call of Git, of Nexus, of the API or of the file system fails.
StepRaises(w, r) ==
    /\ worker[w].phase = "run" /\ StepOf(w) \notin PatchSteps
    /\ Raise(w)
    /\ UNCHANGED <<files, content, bundle, nexusVars>>

\* A PATCH without a state: the environment variables of gomod, the counts.
QuietCall(w, r) ==
    /\ Doing(w, "environment") \/ Doing(w, "counts")
    /\ Proceed(w)
    /\ UNCHANGED <<files, content, bundle, nexusVars>>

\* Mutation: a worker starts from an empty request directory.
MakeTempFresh(r, more) == files' = [files EXCEPT ![r] = {"temp", "log"} \cup more]

\* RequestBundleDir creates the temporary directory whenever it is named.
MakeTemp(r, more) == files' = [files EXCEPT ![r] = @ \cup {"temp"} \cup more]

\* The sources are cloned, or taken from the cache of archives, and unpacked.
Unpack(w, r) ==
    /\ Doing(w, "unpack")
    /\ MakeTemp(r, {})
    /\ content' = [content EXCEPT ![r] = @ \cup {"app"}]
    /\ Proceed(w)
    /\ UNCHANGED <<bundle, nexusVars>>

OpenDir(w, r) ==
    /\ Doing(w, "open_dir")
    /\ MakeTemp(r, {})
    /\ Proceed(w)
    /\ UNCHANGED <<content, bundle, nexusVars>>

\* The package files must be in the unpacked sources.
Verify(w, r) ==
    /\ Doing(w, "verify")
    /\ MakeTemp(r, {})
    /\ IF "app" \in content[r] THEN Proceed(w) ELSE Raise(w)
    /\ UNCHANGED <<content, bundle, nexusVars>>

\* before_content_staged: the repository exists afterwards; an npm proxy may fetch from
\* upstream, the hosted repositories of the other managers have no upstream.
PrepareNexus(w, r) ==
    LET items == IF Task(w) \in JsManagers THEN {"repo", "open"} ELSE {"repo"}
    IN /\ Doing(w, "prepare_nexus")
       /\ nexus' = [nexus EXCEPT ![r] = @ \cup ({Task(w)} \X items)]
       /\ Proceed(w)
       /\ UNCHANGED <<files, content, bundle, password, configs>>

\* The sources are read and the dependencies downloaded.
Resolve(w, r) ==
    /\ Doing(w, "resolve")
    /\ IF "app" \in content[r] THEN Proceed(w) ELSE Raise(w)
    /\ UNCHANGED <<files, content, bundle, nexusVars>>

\* The packages file of the manager is written into the temporary directory.
WritePackages(w, r) ==
    /\ Doing(w, "write_packages")
    /\ IF "temp" \in files[r]
       THEN Proceed(w) /\ content' = [content EXCEPT ![r] = @ \cup {Task(w)}]
       ELSE Raise(w) /\ UNCHANGED content
    /\ UNCHANGED <<files, bundle, nexusVars>>

\* The tasks of npm and yarn swap the names of the repository and of the user: the script
\* closes the repository only if the two are the same, and fails if there is none.
ClosesProxy(r, m) == DefaultPrefix /\ <<m, "repo">> \in nexus[r]

\* after_content_staged: an npm proxy is closed, and the user gets a new password.
FinalizeNexus(w, r) ==
    LET m == Task(w)
        made == password[r][m] + 1
    IN /\ Doing(w, "finalize_nexus")
       /\ IF m \in JsManagers /\ ~ClosesProxy(r, m)
          THEN Raise(w) /\ UNCHANGED <<nexus, password>>
          ELSE /\ nexus' = [nexus EXCEPT ![r] = (@ \ {<<m, "open">>}) \cup {<<m, "user">>}]
               /\ password' = [password EXCEPT ![r][m] = made]
               /\ worker' = [worker EXCEPT ![w].at = @ + 1, ![w].password = made]
       /\ UNCHANGED <<files, content, bundle, configs>>

\* The password is put into configuration files, or environment variables, of the request:
\* they are added to those it has.
GiveAccess(w, r) ==
    /\ Doing(w, "give_access")
    /\ configs' = [configs EXCEPT ![r] = @ \cup {<<Task(w), worker[w].password>>}]
    /\ Proceed(w)
    /\ UNCHANGED <<files, content, bundle, nexus, password>>

\* create_bundle_archive opens the archive, which truncates it, then adds the sources.
OpenArchive(w, r) ==
    LET shared == \E v \in Workers \ {w} :
                      Doing(v, "close_archive") /\ worker[v].msg.req = r
    IN /\ Doing(w, "open_archive")
       /\ MakeTemp(r, {"archive"})
       /\ bundle' = [bundle EXCEPT ![r].writer = IF shared THEN Nobody ELSE w,
                                   ![r].whole = FALSE, ![r].sealed = FALSE]
       /\ IF "app" \in content[r] THEN Proceed(w) ELSE Raise(w)
       /\ UNCHANGED <<content, nexusVars>>

CloseArchive(w, r) ==
    /\ Doing(w, "close_archive")
    /\ bundle' = [bundle EXCEPT ![r].whole = bundle[r].writer = w,
                                ![r].sealed = FALSE]
    /\ Proceed(w)
    /\ UNCHANGED <<files, content, nexusVars>>

SaveChecksum(w, r) ==
    /\ Doing(w, "checksum")
    /\ IF "archive" \in files[r]
       THEN /\ Proceed(w)
            /\ MakeTemp(r, {"checksum"})
            /\ bundle' = [bundle EXCEPT ![r].sealed = TRUE]
       ELSE Raise(w) /\ MakeTemp(r, {}) /\ UNCHANGED bundle
    /\ UNCHANGED <<content, nexusVars>>

\* aggregate_packages_data: a packages file that is missing is skipped.
Listing(r) == IF managers[r] \subseteq content[r] THEN "full" ELSE "empty"

Aggregate(w, r) ==
    /\ Doing(w, "aggregate")
    /\ MakeTemp(r, {"packages"})
    /\ bundle' = [bundle EXCEPT ![r].listed = Listing(r)]
    /\ worker' = [worker EXCEPT ![w].at = @ + 1, ![w].result = Listing(r)]
    /\ UNCHANGED <<content, nexusVars>>

\* finalize_request compares the counts it was given with what the API reads.
CountsAgree(w, r) == /\ "packages" \in files[r]
                     /\ worker[w].msg.arg = bundle[r].listed

CheckCounts(w, r) ==
    /\ Doing(w, "count")
    /\ IF CountsAgree(w, r) THEN Proceed(w) ELSE Raise(w)
    /\ UNCHANGED <<files, content, bundle, nexusVars>>

TaskStep(w) ==
    \E r \in Requests :
        /\ worker[w] # Free /\ worker[w].msg.req = r
        /\ \/ CheckState(w, r)
           \/ QuietCall(w, r)
           \/ Unpack(w, r)
           \/ OpenDir(w, r)
           \/ Verify(w, r)
           \/ PrepareNexus(w, r)
           \/ Resolve(w, r)
           \/ WritePackages(w, r)
           \/ FinalizeNexus(w, r)
           \/ GiveAccess(w, r)
           \/ OpenArchive(w, r)
           \/ CloseArchive(w, r)
           \/ SaveChecksum(w, r)
           \/ Aggregate(w, r)
           \/ CheckCounts(w, r)
        /\ Local(w, r)

TaskRaises(w) ==
    /\ "step" \in FaultKinds
    /\ \E r \in Requests :
        /\ worker[w] # Free /\ worker[w].msg.req = r
        /\ StepRaises(w, r)
        /\ Local(w, r)

\* cleanup_*_request: user, role and repository are deleted, whatever the state is.
NexusCleanup(w, c) ==
    /\ worker[w] = Free
    /\ RunCleanup(c)
    /\ \/ /\ nexus' = [nexus EXCEPT ![c[1]] = @ \ ({c[2]} \X NexusItems)]
          /\ UNCHANGED faults
       \/ Fault("script") /\ UNCHANGED nexus
    /\ UNCHANGED <<queue, worker, client, content, bundle, password, configs, job>>

-----------------------------------------------------------------------------
(* The cleanup job *)

\* One request of the listing; the PATCH comes later, whatever became of the request.
ListExpired ==
    /\ job = Nobody
    /\ \E r \in Requests :
           /\ Submitted(r) /\ Current(r).state \in ExpiryStates
           /\ job' = r
    /\ UNCHANGED <<vars, queue, worker, client, content, bundle, nexusVars, faults>>

MarkAsStale(h) ==
    /\ job \in Requests
    /\ PatchBegin(h, job, "stale", "expired")
    /\ client' = [client EXCEPT ![h] = CleanupJob]
    /\ job' = CleanupJob
    /\ UNCHANGED <<queue, worker, content, bundle, nexusVars, faults>>

-----------------------------------------------------------------------------

\* Everything a thread does without a fault.
Serve(h) ==
    \/ SubmitPublished(h)
    \/ SubmitFailed(h)
    \/ ServeOn(h)
    \/ ServeDeleteTemp(h)
    \/ ServeOk(h)
    \/ ServeRefused(h)
    \/ ServeConflict(h)

\* Everything a worker does without a fault.
Work(w) ==
    \/ \E m \in DOMAIN queue : Deliver(w, m)
    \/ Finish(w)
    \/ Abandon(w)
    \/ \E h \in Handlers : SayState(w, h) \/ SayFailed(w, h)
    \/ TaskStep(w)
    \/ \E c \in cleanups : NexusCleanup(w, c)

Expire == ListExpired \/ \E h \in Handlers : MarkAsStale(h)

Disturb ==
    \/ \E h \in Handlers : SubmitNotPublished(h) \/ ServeError(h) \/ TimeOut(h)
    \/ \E w \in Workers : WorkerDies(w) \/ Redeliver(w) \/ TaskRaises(w)

PipelineNext ==
    \/ \E h \in Handlers : SubmitRequest(h) \/ SubmitRefused(h) \/ Serve(h)
    \/ \E w \in Workers : Work(w)
    \/ Expire
    \/ Disturb

PipelineSpec == PipelineInit /\ [][PipelineNext]_allVars

\* The API serves every call, the workers run, cron runs the cleanup job.
Fairness ==
    /\ \A h \in Handlers : WF_allVars(Serve(h))
    /\ \A w \in Workers : WF_allVars(Work(w))
    /\ WF_allVars(Expire)

FairPipelineSpec == PipelineSpec /\ Fairness

-----------------------------------------------------------------------------
(* Properties *)

InState(r, state) == Submitted(r) /\ Current(r).state = state

\* Two transactions on the request overlapped: one of them did not see the other's row.
Overlapped(r) == \E i \in DOMAIN rows[r] : rows[r][i].seen # i - 1

Usable(r) ==
    /\ {"archive", "checksum", "packages"} \subseteq files[r]
    /\ bundle[r].whole /\ bundle[r].sealed /\ bundle[r].listed = "full"
    /\ \A m \in managers[r] \cap NexusManagers :
           /\ <<m, "user">> \in nexus[r] /\ <<m, "repo">> \in nexus[r]
           /\ <<m, password[r][m]>> \in configs[r]
    /\ \A m \in JsManagers : <<m, "open">> \notin nexus[r]

\* A complete request can be consumed: its archive was written to the end by one worker, the
\* checksum is that of the archive, its packages are all listed, its Nexus repositories
\* exist, have a user and no longer fetch from upstream, and the user's password is offered.
\* Workers that die and are replaced, repeated PATCHes and lost answers do not change that,
\* unless transactions overlapped (finalize_request, failed_request_callback, patch_request).
CompleteIsUsable == \A r \in Requests : InState(r, "complete") /\ ~Overlapped(r) => Usable(r)

\* What the real clients do is what the API was checked against.
ImplementsApi == Spec

\* A request that was scheduled does not stay in progress: it completes, fails or expires.
EveryRequestSettles ==
    \A r \in Requests : r \in published ~> ~InState(r, "in_progress")

\* When nothing fails, a request completes, whatever the prefix of its repositories is
\* (README, cachito_nexus_request_repo_prefix; tasks/npm.py, fetch_npm_source).
CompletesUndisturbed == \A r \in Requests : r \in published ~> InState(r, "complete")

\* The path of a configuration file "is the relative path of where the file should be in the
\* extracted bundle" (ConfigFileBase): there is one file for it, with one password.
OneFilePerPath ==
    \A r \in Requests : InState(r, "complete") =>
        \A c, d \in configs[r] : c[1] = d[1] => c = d

\* The Nexus content of a stale request is deleted, for good (README, "Nexus").
StaleIsCleaned == \A r \in Requests : InState(r, "stale") ~> nexus[r] = {}

\* The files of a complete request are deleted when it expires (test_set_state_stale).
StaleBundleIsDeleted ==
    \A r \in Requests :
        InState(r, "stale") /\ HasBeen(r, {"complete"})
            ~> files[r] \cap {"archive", "checksum", "packages", "temp"} = {}

\* list_packages_and_dependencies: "the file is not present for a completed request.  This
\* is an invalid state".
CompleteHasPackages ==
    \A r \in Requests : InState(r, "complete") => "packages" \in files[r]

=============================================================================
