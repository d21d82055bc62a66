----------------------------- MODULE RequestApi -----------------------------
(***************************************************************************)
(* The part of the REST API that changes a request: create_request and     *)
(* patch_request of cachito/web/api_v1.py, with the rows they commit       *)
(* (cachito/web/models.py), the metrics they move and the files they       *)
(* delete after the commit.                                                *)
(*                                                                         *)
(* The API runs in several threads.  A thread takes no lock on a request:  *)
(* it opens a transaction, reads the current state, decides, and commits.  *)
(* Transactions of two threads on one request may therefore overlap, and a *)
(* thread may die, or its transaction be refused by the database, at any   *)
(* point.                                                                  *)
(*                                                                         *)
(* The clients are the most general ones: any state and any reason, for    *)
(* any request, at any time; workers write any file of a published         *)
(* request.  CachitoPipeline replaces them by the real ones.               *)
(***************************************************************************)
EXTENDS Integers, Sequences, FiniteSets, RequestStates

CONSTANTS
    Requests,        \* request identifiers
    Handlers,        \* threads of the API server
    Reasons,         \* state reasons the clients send
    PkgManagers,     \* the enabled package managers (CACHITO_PACKAGE_MANAGERS)
    Idle,            \* a thread that serves no call
    MaxTransactions  \* bound: transactions opened in a behaviour

\* The package managers with Nexus content per request.
NexusManagers == {"npm", "pip", "rubygems", "yarn"}

VARIABLES
    rows,       \* the committed request_state rows of a request, oldest commit first
    managers,   \* the package managers of a request
    error,      \* does the request have a request_error row
    gauge,      \* the Prometheus gauge cachito_requests_count, per label
    handler,    \* what each thread is doing
    clock,      \* transactions opened so far (CURRENT_TIMESTAMP is their order)
    published,  \* requests whose chain of tasks reached the broker
    files,      \* the files of a request that exist on the shared volume
    cleanups    \* cleanup_*_request tasks in the broker

dbVars == <<rows, managers, error, clock>>
vars == <<rows, managers, error, gauge, handler, clock, published, files, cleanups>>

\* A client may name a state that does not exist.
AskedStates == States \cup {"unknown"}
GaugeLabels == AskedStates \cup {"total"}
Files == {"archive", "checksum", "packages", "temp", "log"}
RowReasons == Reasons \cup {"initiated", "unscheduled"}

Row == [state   : States,
        reason  : RowReasons,
        updated : Nat,       \* start of the transaction that wrote the row
        seen    : Nat]       \* how many rows that transaction had seen

\* submitted: created, about to be scheduled       begun: transaction open
\* read: state read and accepted, not committed    the others: after the commit
Steps == {"submitted", "begun", "read", "bundle", "temp", "log", "nexus"}

Call == [op     : {"create", "patch"},
         step   : Steps,
         req    : Requests,
         state  : AskedStates,
         reason : RowReasons,
         began  : Nat,
         seen   : Nat,
         adds   : BOOLEAN]   \* a row is added, the state is not the one it already has

ASSUME IdleAssumption == Idle \notin Call
ASSUME BoundAssumption == MaxTransactions \in Nat

TypeOK ==
    /\ rows \in [Requests -> Seq(Row)]
    /\ managers \in [Requests -> SUBSET PkgManagers]
    /\ error \in [Requests -> BOOLEAN]
    /\ gauge \in [GaugeLabels -> Int]
    /\ handler \in [Handlers -> Call \cup {Idle}]
    /\ clock \in Nat
    /\ published \subseteq Requests
    /\ files \in [Requests -> SUBSET Files]
    /\ cleanups \subseteq Requests \X NexusManagers

Submitted(r) == rows[r] # <<>>

\* request.state: the row request_state_id points to, set by the last commit.
Current(r) == rows[r][Len(rows[r])]

\* Mutation: the list of states is read from its other end.
Oldest(r) == CHOOSE row \in {rows[r][i] : i \in DOMAIN rows[r]} :
                \A i \in DOMAIN rows[r] : rows[r][i].updated >= row.updated

\* request.states[-1]: the row with the newest "updated".
Newest(r) == CHOOSE row \in {rows[r][i] : i \in DOMAIN rows[r]} :
                \A i \in DOMAIN rows[r] : rows[r][i].updated <= row.updated

At(h, op, step) == handler[h] # Idle /\ handler[h].op = op /\ handler[h].step = step

Advance(h, step) == handler' = [handler EXCEPT ![h] = [@ EXCEPT !.step = step]]
Respond(h) == handler' = [handler EXCEPT ![h] = Idle]

Init ==
    /\ rows = [r \in Requests |-> <<>>]
    /\ managers = [r \in Requests |-> {}]
    /\ error = [r \in Requests |-> FALSE]
    /\ gauge = [label \in GaugeLabels |-> 0]
    /\ handler = [h \in Handlers |-> Idle]
    /\ clock = 0
    /\ published = {}
    /\ files = [r \in Requests |-> {}]
    /\ cleanups = {}

-----------------------------------------------------------------------------
(* create_request *)

\* The request is committed in the state in_progress before anything is scheduled.
CreateRequest(h, r, ms) ==
    /\ handler[h] = Idle /\ ~Submitted(r) /\ clock < MaxTransactions
    /\ clock' = clock + 1
    /\ rows' = [rows EXCEPT ![r] = <<[state |-> "in_progress", reason |-> "initiated",
                                      updated |-> clock, seen |-> 0]>>]
    /\ managers' = [managers EXCEPT ![r] = ms]
    /\ gauge' = [gauge EXCEPT !["total"] = @ + 1, !["in_progress"] = @ + 1]
    /\ handler' = [handler EXCEPT ![h] =
           [op |-> "create", step |-> "submitted", req |-> r, state |-> "failed",
            reason |-> "unscheduled", began |-> clock, seen |-> 0, adds |-> TRUE]]
    /\ UNCHANGED <<error, published, files, cleanups>>

\* The payload has dependency replacements for a package manager without support
\* for them (all but gomod and git-submodule): the call is refused although the request is already committed.
RefuseReplacements(h) ==
    /\ At(h, "create", "submitted")
    /\ managers[handler[h].req] \cap NexusManagers # {}
    /\ Respond(h)
    /\ UNCHANGED <<rows, managers, error, gauge, clock, published, files, cleanups>>

\* chain(chain_tasks).delay()
PublishChain(h) ==
    /\ At(h, "create", "submitted")
    /\ published' = published \cup {handler[h].req}
    /\ Respond(h)
    /\ UNCHANGED <<rows, managers, error, gauge, clock, files, cleanups>>

\* The broker cannot be reached: a new transaction is to set the state to failed.
PublishFails(h) ==
    /\ At(h, "create", "submitted") /\ clock < MaxTransactions
    /\ clock' = clock + 1
    /\ handler' = [handler EXCEPT ![h] = [@ EXCEPT !.step = "begun", !.began = clock]]
    /\ UNCHANGED <<rows, managers, error, gauge, published, files, cleanups>>

\* Mutation: the state is set to failed without asking whether it may be.
FailUnscheduledUnchecked(h) ==
    LET call == handler[h]
        now == Current(call.req).state
    IN /\ At(h, "create", "begun")
       /\ gauge' = [gauge EXCEPT ![now] = @ - 1, !["failed"] = @ + 1]
       /\ handler' = [handler EXCEPT ![h] = [call EXCEPT !.step = "read",
                                             !.seen = Len(rows[call.req])]]
       /\ UNCHANGED <<rows, managers, error, clock, published, files, cleanups>>

\* The except branch reads the current state.  The gauge of that state goes down before
\* add_state accepts the transition, the gauge of "failed" goes up after it.
FailUnscheduled(h) ==
    LET call == handler[h]
        now == Current(call.req).state
    IN /\ At(h, "create", "begun")
       /\ IF AllowTransition(now, "failed")
          THEN /\ gauge' = [gauge EXCEPT ![now] = @ - 1, !["failed"] = @ + 1]
               /\ handler' = [handler EXCEPT ![h] = [call EXCEPT !.step = "read",
                                                     !.seen = Len(rows[call.req])]]
          ELSE /\ gauge' = [gauge EXCEPT ![now] = @ - 1]
               /\ Respond(h)
       /\ UNCHANGED <<rows, managers, error, clock, published, files, cleanups>>

-----------------------------------------------------------------------------
(* patch_request *)

\* The authentication opens the transaction of the call, before the request is read.
PatchBegin(h, r, state, reason) ==
    /\ handler[h] = Idle /\ Submitted(r) /\ clock < MaxTransactions
    /\ clock' = clock + 1
    /\ handler' = [handler EXCEPT ![h] =
           [op |-> "patch", step |-> "begun", req |-> r, state |-> state,
            reason |-> reason, began |-> clock, seen |-> 0, adds |-> TRUE]]
    /\ UNCHANGED <<rows, managers, error, gauge, published, files, cleanups>>

\* The gauges move before the transition is checked.
MoveGauge(now, state) == [gauge EXCEPT ![state] = @ + 1, ![now] = @ - 1]

SameState(r, state, reason) == Current(r).state = state /\ Current(r).reason = reason

\* Mutation: the transition is not checked.
PatchReadUnchecked(h) ==
    LET call == handler[h]
        r == call.req
    IN /\ At(h, "patch", "begun")
       /\ call.state \in States
       /\ gauge' = MoveGauge(Current(r).state, call.state)
       /\ handler' = [handler EXCEPT ![h] = [call EXCEPT !.step = "read", !.seen = Len(rows[r]),
                                     !.adds = ~SameState(r, call.state, call.reason)]]
       /\ UNCHANGED <<rows, managers, error, clock, published, files, cleanups>>

\* The request is read: the new state is the one it has, or is a legal transition.
PatchRead(h) ==
    LET call == handler[h]
        r == call.req
        same == SameState(r, call.state, call.reason)
    IN /\ At(h, "patch", "begun")
       /\ same \/ AllowTransition(Current(r).state, call.state)
       /\ gauge' = MoveGauge(Current(r).state, call.state)
       /\ handler' = [handler EXCEPT ![h] = [call EXCEPT !.step = "read", !.seen = Len(rows[r]),
                                                         !.adds = ~same]]
       /\ UNCHANGED <<rows, managers, error, clock, published, files, cleanups>>

\* Any other state is refused (400).
PatchRefuse(h) ==
    LET call == handler[h]
        r == call.req
    IN /\ At(h, "patch", "begun")
       /\ ~SameState(r, call.state, call.reason)
       /\ ~AllowTransition(Current(r).state, call.state)
       /\ gauge' = MoveGauge(Current(r).state, call.state)
       /\ Respond(h)
       /\ UNCHANGED <<rows, managers, error, clock, published, files, cleanups>>

\* Mutation: the bundle goes with the temporary files of a failed request.
DeletesBundleOfFailed(call) == call.state \in {"stale", "failed"}

\* Mutation: the test of the previous state is inverted.
DeletesBundleInverted(call) == /\ call.state = "stale"
                               /\ rows[call.req][call.seen].state = "failed"

\* Mutation: the Nexus content is deleted as soon as the request is final.
CleansNexusWhenFinal(call) == call.state \in FinalStates \cup {"stale"}

\* Mutation: a stale request keeps its Nexus content.
CleansNexusOfFailed(call) == call.state = "failed"

\* What the state the call read and the state it asked for have it delete.  A PATCH to
\* "in_progress" has nothing to do after its commit.
DeletesBundle(call) == /\ call.state = "stale"
                       /\ rows[call.req][call.seen].state # "failed"
DeletesTemp(call) == call.state \in {"complete", "failed", "stale"}
DeletesLog(call) == call.state = "stale"
CleansNexus(call) == call.state \in {"stale", "failed"}

\* The three files are unlinked in one try block that the first missing file leaves.
UnlinkedFiles(present) ==
    CASE "archive" \notin present -> {}
      [] "checksum" \notin present -> {"archive"}
      [] OTHER -> {"archive", "checksum", "packages"}

\* A failed PATCH also writes the request_error row.  The flush inserts the new row before
\* it deletes the one it found, and request_id is unique: a second one is refused.
WritesError(call) == call.op = "patch" /\ call.state = "failed"

Commit(h) ==
    LET call == handler[h]
        r == call.req
    IN /\ handler[h] # Idle /\ call.step = "read"
       /\ WritesError(call) => ~error[r]
       /\ error' = [error EXCEPT ![r] = @ \/ WritesError(call)]
       /\ rows' = IF call.adds
                  THEN [rows EXCEPT ![r] = Append(@,
                          [state |-> call.state, reason |-> call.reason,
                           updated |-> call.began, seen |-> call.seen])]
                  ELSE rows
       /\ IF call.op = "patch" /\ DeletesTemp(call) THEN Advance(h, "bundle") ELSE Respond(h)
       /\ UNCHANGED <<managers, gauge, clock, published, files, cleanups>>

\* The thread dies, or the database refuses the transaction, at any step.
HandlerFails(h) ==
    /\ handler[h] # Idle
    /\ Respond(h)
    /\ UNCHANGED <<rows, managers, error, gauge, clock, published, files, cleanups>>

DeleteBundle(h) ==
    LET call == handler[h]
    IN /\ At(h, "patch", "bundle")
       /\ files' = IF DeletesBundle(call)
                   THEN [files EXCEPT ![call.req] = @ \ UnlinkedFiles(@)]
                   ELSE files
       /\ Advance(h, "temp")
       /\ UNCHANGED <<rows, managers, error, gauge, clock, published, cleanups>>

DeleteTemp(h) ==
    LET call == handler[h]
    IN /\ At(h, "patch", "temp")
       /\ files' = IF DeletesTemp(call)
                   THEN [files EXCEPT ![call.req] = @ \ {"temp"}]
                   ELSE files
       /\ Advance(h, "log")
       /\ UNCHANGED <<rows, managers, error, gauge, clock, published, cleanups>>

DeleteLog(h) ==
    LET call == handler[h]
    IN /\ At(h, "patch", "log")
       /\ files' = IF DeletesLog(call)
                   THEN [files EXCEPT ![call.req] = @ \ {"log"}]
                   ELSE files
       /\ Advance(h, "nexus")
       /\ UNCHANGED <<rows, managers, error, gauge, clock, published, cleanups>>

\* One cleanup task per Nexus package manager of the request; one that cannot be
\* scheduled is only logged.
ScheduleCleanups(h) ==
    LET call == handler[h]
        wanted == IF CleansNexus(call) THEN managers[call.req] \cap NexusManagers ELSE {}
    IN /\ At(h, "patch", "nexus")
       /\ \E scheduled \in SUBSET wanted :
              cleanups' = cleanups \cup ({call.req} \X scheduled)
       /\ Respond(h)
       /\ UNCHANGED <<rows, managers, error, gauge, clock, published, files>>

-----------------------------------------------------------------------------
(* The most general workers *)

WorkerWrites(r, written) ==
    /\ r \in published
    /\ files' = [files EXCEPT ![r] = @ \cup written]
    /\ UNCHANGED <<rows, managers, error, gauge, handler, clock, published, cleanups>>

\* A worker runs a cleanup task.  Like every task it opens the log file of the request.
RunCleanup(c) ==
    /\ c \in cleanups
    /\ cleanups' = cleanups \ {c}
    /\ files' = [files EXCEPT ![c[1]] = @ \cup {"log"}]
    /\ UNCHANGED <<rows, managers, error, gauge, handler, clock, published>>

HandlerStep(h) ==
    \/ RefuseReplacements(h)
    \/ PublishChain(h)
    \/ PublishFails(h)
    \/ FailUnscheduled(h)
    \/ PatchRead(h)
    \/ PatchRefuse(h)
    \/ Commit(h)
    \/ HandlerFails(h)
    \/ DeleteBundle(h)
    \/ DeleteTemp(h)
    \/ DeleteLog(h)
    \/ ScheduleCleanups(h)

Next ==
    \/ \E h \in Handlers, r \in Requests :
           \/ \E ms \in SUBSET PkgManagers : CreateRequest(h, r, ms)
           \/ \E state \in AskedStates, reason \in Reasons : PatchBegin(h, r, state, reason)
    \/ \E h \in Handlers : HandlerStep(h)
    \/ \E r \in Requests : \E written \in SUBSET (Files \ files[r]) : WorkerWrites(r, written)
    \/ \E c \in cleanups : RunCleanup(c)

Spec == Init /\ [][Next]_vars

-----------------------------------------------------------------------------
(* Properties *)

\* A thread is about to commit a row for r and has not seen the newest one.
Overtaken(r) == \E h \in Handlers :
    /\ handler[h] # Idle
    /\ handler[h].step = "read" /\ handler[h].req = r /\ handler[h].adds
    /\ handler[h].seen < Len(rows[r])

\* Every row was a legal successor of the row its own transaction had read: overlapping
\* PATCHes can only lose updates, never invent a transition (api_v1.patch_request,
\* Request.add_state).
HistoryJustified ==
    \A r \in Requests : \A i \in 2..Len(rows[r]) :
        LET seen == rows[r][i].seen
        IN seen \in 1..(i - 1) /\ AllowTransition(rows[r][seen].state, rows[r][i].state)

\* As long as no thread acts on an outdated read, a committed state is followed only by a
\* state the transition table allows; so a stale request stays stale and a complete one
\* is never reopened (ALLOWED_REQUEST_STATE_TRANSITION).
LegalUnlessOvertaken ==
    [][\A r \in Requests :
          (Submitted(r) /\ rows'[r] # rows[r] /\ ~Overtaken(r))
              => AllowTransition(Current(r).state, Current(r)'.state)]_vars

HasBeen(r, states) == \E i \in DOMAIN rows[r] : rows[r][i].state \in states

\* The bundle is deleted only after a stale row is in the database: a PATCH that is refused,
\* rolled back or cut short never costs a request its bundle, its checksum or its packages.
BundleOutlivesRequest ==
    [][\A r \in Requests :
          (files[r] \ files'[r]) \cap {"archive", "checksum", "packages"} # {}
              => HasBeen(r, {"stale"})]_vars

\* The Nexus content of a request is cleaned up only for package managers the request
\* has, and only after it was marked stale or failed (README, "Nexus").
CleanupsJustified ==
    \A c \in cleanups : c[2] \in managers[c[1]] /\ HasBeen(c[1], {"stale", "failed"})

\* The state of a request follows the abstract life cycle.  With one thread it always
\* does; with more, only while no PATCH overlaps another one (models.py, add_state).
Lifecycle == INSTANCE RequestLifecycle WITH
    status <- [r \in Requests |-> IF Submitted(r) THEN Current(r).state ELSE "none"]
LifecycleSpec == Lifecycle!Spec

\* The state shown at the top of a verbose answer, the newest of request.states, is the
\* state the other endpoints act on, the one request_state_id points to (Request.to_json).
NewestIsCurrent == \A r \in Requests : Submitted(r) => Newest(r) = Current(r)

\* The gauge of each state is the number of requests in it ("Requests in each state",
\* metrics.py), whenever no thread is in the middle of a call.
GaugeCountsRequests ==
    (\A h \in Handlers : handler[h] = Idle) =>
        \A s \in States :
            gauge[s] = Cardinality({r \in Requests : Submitted(r) /\ Current(r).state = s})

=============================================================================
