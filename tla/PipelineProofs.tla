--------------------------- MODULE PipelineProofs ---------------------------
(***************************************************************************)
(* A deployment is a client of the API like any other: with any number of  *)
(* workers, faults and repetitions, what its tasks, its user and its       *)
(* cleanup job do to a request are steps of RequestApi.  Its theorems      *)
(* therefore hold for the deployment.                                      *)
(*                                                                         *)
(* RequestApi lets workers write the files of a published request only.    *)
(* The invariant says that no message and no execution is for another one. *)
(***************************************************************************)
EXTENDS CachitoPipeline, RequestApiProofs

Fields == {"msg", "at", "phase", "tries", "result", "password"}

MessageOK(m) == DOMAIN m = {"req", "pos", "arg"} /\ m.req \in published

QueueOK == \A m \in DOMAIN queue : MessageOK(m)

WorkersOK ==
    /\ worker = [w \in Workers |-> worker[w]]
    /\ \A w \in Workers : worker[w] # Free =>
           DOMAIN worker[w] = Fields /\ MessageOK(worker[w].msg)

\* A worker waits for at most one thread, and does nothing else meanwhile.
ClientsOK ==
    /\ client = [h \in Handlers |-> client[h]]
    /\ \A h \in Handlers : client[h] \in Workers =>
           /\ worker[client[h]] # Free
           /\ worker[client[h]].phase \in {"waiting", "reporting"}
    /\ \A h, g \in Handlers : client[h] \in Workers /\ client[g] = client[h] => g = h

PipelineIInv == IInv /\ QueueOK /\ WorkersOK /\ ClientsOK

-----------------------------------------------------------------------------
(* Messages *)

LEMMA PutKeeps ==
    ASSUME NEW m, NEW q
    PROVE  DOMAIN Put(m, q) = DOMAIN q \cup {m}
BY DEF Put, (+), SetToBag

LEMMA TakeKeeps ==
    ASSUME NEW m, NEW q
    PROVE  DOMAIN Take(m, q) \subseteq DOMAIN q
BY DEF Take, (-), SetToBag

\* A step that publishes nothing else leaves the broker with messages for published requests.
LEMMA QueueStays ==
    ASSUME QueueOK, published \subseteq published',
           \A m \in DOMAIN queue' : m \in DOMAIN queue \/ MessageOK(m)'
    PROVE  QueueOK'
BY DEF QueueOK, MessageOK

-----------------------------------------------------------------------------
(* Executions *)

\* An execution goes on with its message, or ends.
Keeps(w) ==
    \E x : /\ worker' = [worker EXCEPT ![w] = x]
           /\ x # Free => DOMAIN x = Fields /\ x.msg = worker[w].msg

LEMMA WorkersStay ==
    ASSUME WorkersOK, published \subseteq published', NEW w \in Workers, worker[w] # Free,
           Keeps(w)
    PROVE  WorkersOK'
<1>1. PICK x : /\ worker' = [worker EXCEPT ![w] = x]
               /\ x # Free => DOMAIN x = Fields /\ x.msg = worker[w].msg
    BY DEF Keeps
<1>2. worker' = [v \in Workers |-> IF v = w THEN x ELSE worker[v]]
    BY <1>1 DEF WorkersOK
<1>3. worker' = [v \in Workers |-> worker'[v]]
    BY <1>2
<1>4. ASSUME NEW v \in Workers, worker'[v] # Free
      PROVE  /\ DOMAIN worker'[v] = Fields /\ DOMAIN worker'[v].msg = {"req", "pos", "arg"}
             /\ worker'[v].msg.req \in published'
    <2>1. CASE v = w
        BY <1>1, <1>2, <1>4, <2>1 DEF WorkersOK, MessageOK
    <2>2. CASE v # w
        BY <1>2, <1>4, <2>2 DEF WorkersOK, MessageOK
    <2> QED
        BY <2>1, <2>2
<1> QED
    BY <1>3, <1>4 DEF WorkersOK, MessageOK

LEMMA WorkersUnchanged ==
    ASSUME WorkersOK, published \subseteq published', UNCHANGED worker
    PROVE  WorkersOK'
BY DEF WorkersOK, MessageOK

LEMMA BecomesKeeps ==
    ASSUME WorkersOK, NEW w \in Workers, worker[w] # Free, NEW phase, Becomes(w, phase)
    PROVE  Keeps(w)
<1> DEFINE x == [worker[w] EXCEPT !.phase = phase]
<1>1. worker' = [worker EXCEPT ![w] = x]
    BY DEF Becomes
<1>2. DOMAIN x = Fields /\ x.msg = worker[w].msg
    BY DEF WorkersOK, Fields
<1> HIDE DEF x
<1> QED
    BY <1>1, <1>2 DEF Keeps

LEMMA ProceedKeeps ==
    ASSUME WorkersOK, NEW w \in Workers, worker[w] # Free, Proceed(w)
    PROVE  Keeps(w)
<1> DEFINE x == IF worker[w].at = Len(Program(Task(w)))
                THEN [worker[w] EXCEPT !.phase = "returned"]
                ELSE [worker[w] EXCEPT !.phase = "run", !.at = @ + 1, !.tries = 0]
<1>1. worker' = [worker EXCEPT ![w] = x]
    BY DEF Proceed
<1>2. DOMAIN x = Fields /\ x.msg = worker[w].msg
    BY DEF WorkersOK, Fields
<1> HIDE DEF x
<1> QED
    BY <1>1, <1>2 DEF Keeps

LEMMA AnsweredKeeps ==
    ASSUME WorkersOK, NEW w \in Workers, worker[w] # Free, NEW outcome, Answered(w, outcome)
    PROVE  Keeps(w)
<1> DEFINE again == [worker[w] EXCEPT !.tries = @ + 1,
                                      !.phase = IF @ = "waiting" THEN "run" ELSE "raised"]
           given_up == [worker[w] EXCEPT !.phase = "raised", !.tries = 0]
<1>1. /\ DOMAIN again = Fields /\ again.msg = worker[w].msg
      /\ DOMAIN given_up = Fields /\ given_up.msg = worker[w].msg
    BY DEF WorkersOK, Fields
<1>2. \/ worker' = [worker EXCEPT ![w] = again]
      \/ Becomes(w, "gave_up")
      \/ Proceed(w)
      \/ worker' = [worker EXCEPT ![w] = given_up]
    BY DEF Answered
<1> HIDE DEF again, given_up
<1>3. CASE worker' = [worker EXCEPT ![w] = again]
    BY <1>1, <1>3 DEF Keeps
<1>4. CASE Becomes(w, "gave_up")
    BY <1>4, BecomesKeeps
<1>5. CASE Proceed(w)
    BY <1>5, ProceedKeeps
<1>6. CASE worker' = [worker EXCEPT ![w] = given_up]
    BY <1>1, <1>6 DEF Keeps
<1> QED
    BY <1>2, <1>3, <1>4, <1>5, <1>6

-----------------------------------------------------------------------------
(* Clients *)

\* A worker that is not waiting is nobody's client.
LEMMA NoClient ==
    ASSUME ClientsOK, NEW w \in Workers,
           worker[w] = Free \/ worker[w].phase \notin {"waiting", "reporting"}
    PROVE  \A h \in Handlers : client[h] # w
BY DEF ClientsOK

LEMMA ClientsStay ==
    ASSUME ClientsOK, WorkersOK, NEW w \in Workers, \A h \in Handlers : client[h] # w,
           NEW x, worker' = [worker EXCEPT ![w] = x], UNCHANGED client
    PROVE  ClientsOK'
<1>1. \A v \in Workers : v # w => worker'[v] = worker[v]
    BY DEF WorkersOK
<1> QED
    BY <1>1 DEF ClientsOK

\* The client of a thread is answered, or forgets it.
LEMMA AnswerKeeps ==
    ASSUME WorkersOK, ClientsOK, published \subseteq published', NEW h \in Handlers,
           NEW outcome, Answer(h, outcome)
    PROVE  WorkersOK' /\ ClientsOK'
<1>1. client' = [g \in Handlers |-> IF g = h THEN Nobody ELSE client[g]]
    BY DEF Answer, ClientsOK
<1>2. CASE client[h] \in Workers
    <2> DEFINE w == client[h]
    <2>1. worker[w] # Free /\ Answered(w, outcome)
        BY <1>2 DEF Answer, ClientsOK
    <2>2. Keeps(w)
        BY <1>2, <2>1, AnsweredKeeps
    <2>3. WorkersOK'
        BY <1>2, <2>1, <2>2, WorkersStay
    <2>4. \A v \in Workers : v # w => worker'[v] = worker[v]
        BY <2>2 DEF Keeps, WorkersOK
    <2>5. \A g \in Handlers : client'[g] # w
        BY <1>1, <1>2, ClientsAssumption DEF ClientsOK
    <2> QED
        BY <1>1, <2>3, <2>4, <2>5, ClientsAssumption DEF ClientsOK
<1>3. CASE client[h] \notin Workers
    <2>1. UNCHANGED worker
        BY <1>3 DEF Answer
    <2> QED
        BY <1>1, <2>1, WorkersUnchanged, ClientsAssumption DEF ClientsOK
<1> QED
    BY <1>2, <1>3

-----------------------------------------------------------------------------
(* Every step is a step of the API *)

\* Workers add files to the directory of a request that was published.
LEMMA WritesAreSteps ==
    ASSUME NEW r \in published, TypeOK, NEW written \in SUBSET Files,
           files' = [files EXCEPT ![r] = @ \cup written],
           UNCHANGED <<dbVars, gauge, handler, published, cleanups>>
    PROVE  Next
<1> DEFINE more == written \ files[r]
<1>1. /\ r \in Requests /\ more \in SUBSET (Files \ files[r])
      /\ files[r] \cup more = files[r] \cup written
    BY DEF TypeOK
<1>2. WorkerWrites(r, more)
    BY <1>1 DEF WorkerWrites, dbVars
<1> HIDE DEF more
<1> QED
    BY <1>1, <1>2 DEF Next

LEMMA TaskFiles ==
    ASSUME NEW w \in Workers, TaskStep(w)
    PROVE  /\ worker[w] # Free
           /\ \/ UNCHANGED files
              \/ \E written \in SUBSET Files :
                     files' = [files EXCEPT ![worker[w].msg.req] = @ \cup written]
           /\ UNCHANGED <<dbVars, gauge, handler, published, cleanups, queue, client>>
<1>1. PICK r \in Requests :
        /\ worker[w] # Free /\ worker[w].msg.req = r
        /\ \/ CheckState(w, r) \/ QuietCall(w, r) \/ Unpack(w, r) \/ OpenDir(w, r)
           \/ Verify(w, r) \/ PrepareNexus(w, r) \/ Resolve(w, r) \/ WritePackages(w, r)
           \/ FinalizeNexus(w, r) \/ GiveAccess(w, r) \/ OpenArchive(w, r)
           \/ CloseArchive(w, r) \/ SaveChecksum(w, r) \/ Aggregate(w, r) \/ CheckCounts(w, r)
        /\ Local(w, r)
    BY DEF TaskStep
<1>2. \A more \in SUBSET Files : MakeTemp(r, more) =>
          \E written \in SUBSET Files : files' = [files EXCEPT ![r] = @ \cup written]
    <2>1. \A more \in SUBSET Files : {"temp"} \cup more \in SUBSET Files
        BY DEF Files
    <2>2. \A more : MakeTemp(r, more) => files' = [files EXCEPT ![r] = @ \cup ({"temp"} \cup more)]
        BY DEF MakeTemp
    <2> QED
        BY <2>1, <2>2
<1>3. {} \in SUBSET Files /\ {"archive"} \in SUBSET Files /\ {"checksum"} \in SUBSET Files
      /\ {"packages"} \in SUBSET Files
    BY DEF Files
<1>4. \/ UNCHANGED files \/ \E more \in SUBSET Files : MakeTemp(r, more)
    BY <1>1, <1>3 DEF CheckState, QuietCall, Unpack, OpenDir, Verify, PrepareNexus, Resolve,
        WritePackages, FinalizeNexus, GiveAccess, OpenArchive, CloseArchive, SaveChecksum,
        Aggregate, CheckCounts
<1> QED
    BY <1>1, <1>2, <1>4 DEF Local

LEMMA ThreadsAreSteps ==
    ASSUME NEW h \in Handlers, HandlerStep(h)
    PROVE  Next
BY DEF Next

LEMMA ApiStep ==
    ASSUME PipelineIInv, PipelineNext
    PROVE  [Next]_vars
<1> USE DEF PipelineIInv, IInv
<1>1. ASSUME NEW h \in Handlers, SubmitRequest(h) PROVE Next
    BY <1>1 DEF SubmitRequest, Next
<1>2. ASSUME NEW h \in Handlers,
             \/ SubmitRefused(h) \/ SubmitPublished(h) \/ SubmitFailed(h) \/ ServeOn(h)
             \/ ServeDeleteTemp(h) \/ ServeOk(h) \/ ServeRefused(h) \/ ServeConflict(h)
             \/ ServeError(h) \/ SubmitNotPublished(h)
      PROVE  Next
    <2>1. HandlerStep(h)
        BY <1>2 DEF HandlerStep, SubmitRefused, SubmitPublished, SubmitFailed, ServeOn,
            ServeDeleteTemp, ServeOk, ServeRefused, ServeConflict, ServeError,
            SubmitNotPublished
    <2> QED
        BY <2>1, ThreadsAreSteps
<1>3. ASSUME NEW h \in Handlers, TimeOut(h) PROVE UNCHANGED vars
    BY <1>3 DEF TimeOut
<1>4. ASSUME NEW w \in Workers, NEW m \in DOMAIN queue, Deliver(w, m) PROVE Next
    <2>1. m.req \in published /\ {"log"} \in SUBSET Files
        BY DEF QueueOK, MessageOK, Files
    <2>2. /\ files' = [files EXCEPT ![m.req] = @ \cup {"log"}]
          /\ UNCHANGED <<dbVars, gauge, handler, published, cleanups>>
        BY <1>4 DEF Deliver
    <2> QED
        BY <2>1, <2>2, WritesAreSteps
<1>5. ASSUME NEW w \in Workers,
             Finish(w) \/ Abandon(w) \/ WorkerDies(w) \/ Redeliver(w) \/ TaskRaises(w)
      PROVE  UNCHANGED vars
    BY <1>5 DEF Finish, Abandon, WorkerDies, Redeliver, TaskRaises, StepRaises, Local, vars,
        dbVars
<1>6. ASSUME NEW w \in Workers, NEW h \in Handlers, SayState(w, h) \/ SayFailed(w, h)
      PROVE  Next
    <2>1. worker[w] # Free
        BY <1>6 DEF SayState, SayFailed, Doing
    <2>2. worker[w].msg.req \in Requests
        BY <2>1 DEF WorkersOK, MessageOK, TypeOK
    <2>3. \E state \in AskedStates, reason \in Reasons :
              PatchBegin(h, worker[w].msg.req, state, reason)
        BY <1>6, ReasonsAssumption DEF SayState, SayFailed, Tell, StateSaid, AskedStates, States
    <2> QED
        BY <2>2, <2>3 DEF Next
<1>7. ASSUME NEW w \in Workers, TaskStep(w) PROVE Next \/ UNCHANGED vars
    <2>1. worker[w].msg.req \in published
        BY <1>7, TaskFiles DEF WorkersOK, MessageOK
    <2>2. CASE UNCHANGED files
        BY <1>7, <2>2, TaskFiles DEF vars, dbVars
    <2>3. CASE \E written \in SUBSET Files :
                   files' = [files EXCEPT ![worker[w].msg.req] = @ \cup written]
        BY <1>7, <2>1, <2>3, TaskFiles, WritesAreSteps
    <2> QED
        BY <1>7, <2>2, <2>3, TaskFiles
<1>8. ASSUME NEW w \in Workers, NEW c \in cleanups, NexusCleanup(w, c) PROVE Next
    BY <1>8 DEF NexusCleanup, Next
<1>9. CASE ListExpired
    BY <1>9 DEF ListExpired
<1>10. ASSUME NEW h \in Handlers, MarkAsStale(h) PROVE Next
    BY <1>10, ReasonsAssumption DEF MarkAsStale, Next, AskedStates, States
<1> QED
    BY <1>1, <1>2, <1>3, <1>4, <1>5, <1>6, <1>7, <1>8, <1>9, <1>10
    DEF PipelineNext, Serve, Work, Expire, Disturb

LEMMA PublishedGrows ==
    ASSUME [Next]_vars
    PROVE  published \subseteq published'
BY DEF Next, vars, HandlerStep, CreateRequest, RefuseReplacements, PublishChain, PublishFails,
    FailUnscheduled, PatchBegin, PatchRead, PatchRefuse, Commit, HandlerFails, DeleteBundle,
    DeleteTemp, DeleteLog, ScheduleCleanups, WorkerWrites, RunCleanup

-----------------------------------------------------------------------------
(* The invariant of the deployment *)

LEMMA TaskKeeps ==
    ASSUME WorkersOK, NEW w \in Workers, TaskStep(w)
    PROVE  Keeps(w) /\ worker[w].phase = "run"
<1>1. worker[w] # Free
    BY TaskFiles
<1>2. PICK r \in Requests :
        \/ CheckState(w, r) \/ QuietCall(w, r) \/ Unpack(w, r) \/ OpenDir(w, r)
        \/ Verify(w, r) \/ PrepareNexus(w, r) \/ Resolve(w, r) \/ WritePackages(w, r)
        \/ FinalizeNexus(w, r) \/ GiveAccess(w, r) \/ OpenArchive(w, r)
        \/ CloseArchive(w, r) \/ SaveChecksum(w, r) \/ Aggregate(w, r) \/ CheckCounts(w, r)
    BY DEF TaskStep
<1>3. \E step : Doing(w, step)
    BY <1>2 DEF CheckState, QuietCall, Unpack, OpenDir, Verify, PrepareNexus, Resolve,
        WritePackages, FinalizeNexus, GiveAccess, OpenArchive, CloseArchive, SaveChecksum,
        Aggregate, CheckCounts
<1>4. CASE FinalizeNexus(w, r)
    <2>1. PICK made : Raise(w) \/ worker' = [worker EXCEPT ![w].at = @ + 1, ![w].password = made]
        BY <1>4 DEF FinalizeNexus
    <2> DEFINE x == [worker[w] EXCEPT !.at = @ + 1, !.password = made]
    <2>2. DOMAIN x = Fields /\ x.msg = worker[w].msg
        BY <1>1 DEF WorkersOK, Fields
    <2>3. Raise(w) \/ worker' = [worker EXCEPT ![w] = x]
        BY <2>1
    <2> HIDE DEF x
    <2> QED
        BY <1>1, <1>3, <2>2, <2>3, BecomesKeeps DEF Raise, Keeps, Doing
<1>5. CASE Aggregate(w, r)
    <2> DEFINE x == [worker[w] EXCEPT !.at = @ + 1, !.result = Listing(r)]
    <2>1. DOMAIN x = Fields /\ x.msg = worker[w].msg
        BY <1>1 DEF WorkersOK, Fields
    <2>2. worker' = [worker EXCEPT ![w] = x]
        BY <1>5 DEF Aggregate
    <2> HIDE DEF x
    <2> QED
        BY <1>3, <2>1, <2>2 DEF Keeps, Doing
<1>6. CASE ~FinalizeNexus(w, r) /\ ~Aggregate(w, r)
    <2>1. Proceed(w) \/ \E phase : Becomes(w, phase)
        BY <1>2, <1>6 DEF CheckState, QuietCall, Unpack, OpenDir, Verify, PrepareNexus,
            Resolve, WritePackages, GiveAccess, OpenArchive, CloseArchive, SaveChecksum,
            CheckCounts, Raise
    <2> QED
        BY <1>1, <1>3, <2>1, BecomesKeeps, ProceedKeeps DEF Doing
<1> QED
    BY <1>4, <1>5, <1>6

\* The worker goes on or ends, and nobody waits for it.
LEMMA WorkerGoesOn ==
    ASSUME PipelineIInv, published \subseteq published', NEW w \in Workers, worker[w] # Free,
           worker[w].phase \notin {"waiting", "reporting"}, Keeps(w), UNCHANGED client
    PROVE  WorkersOK' /\ ClientsOK'
<1> USE DEF PipelineIInv
<1>1. WorkersOK'
    BY WorkersStay
<1>2. PICK x : worker' = [worker EXCEPT ![w] = x]
    BY DEF Keeps
<1> QED
    BY <1>1, <1>2, NoClient, ClientsStay

LEMMA OnlyApi ==
    ASSUME PipelineIInv, published \subseteq published', UNCHANGED <<queue, worker, client>>
    PROVE  QueueOK' /\ WorkersOK' /\ ClientsOK'
<1> USE DEF PipelineIInv
<1>1. QueueOK'
    BY QueueStays
<1>2. WorkersOK'
    BY WorkersUnchanged
<1> QED
    BY <1>1, <1>2 DEF ClientsOK

LEMMA AnswerOnly ==
    ASSUME PipelineIInv, published \subseteq published', NEW h \in Handlers, NEW outcome,
           Answer(h, outcome), UNCHANGED queue
    PROVE  QueueOK' /\ WorkersOK' /\ ClientsOK'
BY QueueStays, AnswerKeeps DEF PipelineIInv

LEMMA NextMessageOK ==
    ASSUME PipelineIInv, published \subseteq published', NEW w \in Workers, worker[w] # Free
    PROVE  /\ DOMAIN NextMessage(w) = {"req", "pos", "arg"}
           /\ NextMessage(w).req \in published'
           /\ DOMAIN worker[w].msg = {"req", "pos", "arg"}
           /\ worker[w].msg.req \in published'
<1>1. MessageOK(worker[w].msg)
    BY DEF PipelineIInv, WorkersOK
<1> DEFINE m == worker[w].msg
           result == worker[w].result
<1>2. DOMAIN m = {"req", "pos", "arg"} /\ m.req \in published
    BY <1>1 DEF MessageOK
<1>3. NextMessage(w) = [m EXCEPT !.pos = @ + 1, !.arg = result]
    BY DEF NextMessage
<1> HIDE DEF m, result
<1>4. DOMAIN NextMessage(w) = {"req", "pos", "arg"} /\ NextMessage(w).req = m.req
    BY <1>2, <1>3
<1> QED
    BY <1>2, <1>4 DEF m

LEMMA TellKeeps ==
    ASSUME PipelineIInv, published \subseteq published', NEW w \in Workers, NEW h \in Handlers,
           worker[w] # Free, worker[w].phase \notin {"waiting", "reporting"},
           NEW state, NEW reason, NEW phase \in {"waiting", "reporting"},
           Tell(w, h, state, reason, phase)
    PROVE  QueueOK' /\ WorkersOK' /\ ClientsOK'
<1> USE DEF PipelineIInv
<1>1. Becomes(w, phase) /\ UNCHANGED queue /\ client' = [client EXCEPT ![h] = w]
    BY DEF Tell
<1>2. QueueOK'
    BY <1>1, QueueStays
<1>3. WorkersOK'
    BY <1>1, BecomesKeeps, WorkersStay
<1>4. \A g \in Handlers : client[g] # w
    BY NoClient
<1>5. \A v \in Workers : v # w => worker'[v] = worker[v]
    BY <1>1 DEF Becomes, WorkersOK
<1>6. worker'[w].phase = phase
    BY <1>1 DEF Becomes, WorkersOK, Fields
<1>7. worker'[w] # Free
    BY <1>6 DEF Free
<1>8. client' = [g \in Handlers |-> IF g = h THEN w ELSE client[g]]
    BY <1>1 DEF ClientsOK
<1> QED
    BY <1>2, <1>3, <1>4, <1>5, <1>6, <1>7, <1>8 DEF ClientsOK

\* A worker that ends is nobody's client any more.
LEMMA EndKeeps ==
    ASSUME PipelineIInv, published \subseteq published', NEW w \in Workers, worker[w] # Free,
           worker' = [worker EXCEPT ![w] = Free],
           \/ UNCHANGED client /\ worker[w].phase \notin {"waiting", "reporting"}
           \/ Forget(w)
    PROVE  WorkersOK' /\ ClientsOK'
<1> USE DEF PipelineIInv
<1>1. Keeps(w)
    BY DEF Keeps
<1>2. WorkersOK'
    BY <1>1, WorkersStay
<1>3. CASE UNCHANGED client /\ worker[w].phase \notin {"waiting", "reporting"}
    BY <1>1, <1>3, WorkerGoesOn
<1>4. CASE Forget(w)
    <2>1. client' = [h \in Handlers |-> IF client[h] = w THEN Nobody ELSE client[h]]
        BY <1>4 DEF Forget
    <2>2. \A v \in Workers : v # w => worker'[v] = worker[v]
        BY DEF WorkersOK
    <2> QED
        BY <1>2, <2>1, <2>2, ClientsAssumption DEF ClientsOK
<1> QED
    BY <1>2, <1>3, <1>4

LEMMA DeliverKeeps ==
    ASSUME PipelineIInv, published \subseteq published', NEW w \in Workers,
           NEW m \in DOMAIN queue, Deliver(w, m)
    PROVE  QueueOK' /\ WorkersOK' /\ ClientsOK'
<1> USE DEF PipelineIInv
<1> DEFINE x == [msg |-> m, at |-> 1, phase |-> "run", tries |-> 0, result |-> "none",
                 password |-> 0]
<1>1. worker[w] = Free /\ queue' = Take(m, queue) /\ worker' = [worker EXCEPT ![w] = x]
      /\ UNCHANGED client
    BY DEF Deliver
<1>2. QueueOK'
    BY <1>1, TakeKeeps, QueueStays
<1>3. DOMAIN x = Fields /\ x.msg = m
    BY DEF Fields
<1> HIDE DEF x
<1>4. MessageOK(m)
    BY DEF QueueOK
<1>5. worker' = [v \in Workers |-> IF v = w THEN x ELSE worker[v]]
    BY <1>1 DEF WorkersOK
<1>6. WorkersOK'
    <2>1. ASSUME NEW v \in Workers, worker'[v] # Free
          PROVE  /\ DOMAIN worker'[v] = Fields /\ DOMAIN worker'[v].msg = {"req", "pos", "arg"}
                 /\ worker'[v].msg.req \in published'
        <3>1. CASE v = w
            BY <1>3, <1>4, <1>5, <3>1 DEF MessageOK
        <3>2. CASE v # w
            BY <1>5, <2>1, <3>2 DEF WorkersOK, MessageOK
        <3> QED
            BY <3>1, <3>2
    <2>2. worker' = [v \in Workers |-> worker'[v]]
        BY <1>5
    <2> QED
        BY <2>1, <2>2 DEF WorkersOK, MessageOK
<1>7. ClientsOK'
    BY <1>1, NoClient, ClientsStay
<1> QED
    BY <1>2, <1>6, <1>7

-----------------------------------------------------------------------------
(* Every action keeps the invariant *)

LEMMA ServiceStep ==
    ASSUME PipelineIInv, published \subseteq published', NEW h \in Handlers,
           SubmitRequest(h) \/ SubmitRefused(h) \/ Serve(h)
    PROVE  QueueOK' /\ WorkersOK' /\ ClientsOK'
<1> USE DEF PipelineIInv
<1>1. CASE SubmitRequest(h) \/ SubmitRefused(h) \/ SubmitFailed(h) \/ ServeOn(h)
           \/ ServeDeleteTemp(h)
    BY <1>1, OnlyApi DEF SubmitRequest, SubmitRefused, SubmitFailed, ServeOn, ServeDeleteTemp,
        pipelineVars
<1>2. CASE ServeOk(h) \/ ServeRefused(h) \/ ServeConflict(h)
    BY <1>2, AnswerOnly DEF ServeOk, ServeRefused, ServeConflict
<1>3. CASE SubmitPublished(h)
    <2> DEFINE m == [req |-> handler[h].req, pos |-> 1, arg |-> "none"]
    <2>1. queue' = Put(m, queue) /\ published' = published \cup {handler[h].req}
          /\ UNCHANGED <<worker, client>>
        BY <1>3 DEF SubmitPublished, PublishChain
    <2>2. DOMAIN queue' = DOMAIN queue \cup {m}
        BY <2>1, PutKeeps
    <2>3. DOMAIN m = {"req", "pos", "arg"} /\ m.req \in published'
        BY <2>1
    <2>4. QueueOK'
        <3> HIDE DEF m
        <3> QED
            BY <2>2, <2>3 DEF QueueOK, MessageOK
    <2>5. WorkersOK'
        BY <2>1, WorkersUnchanged
    <2> QED
        BY <2>1, <2>4, <2>5 DEF ClientsOK
<1> QED
    BY <1>1, <1>2, <1>3 DEF Serve

LEMMA WorkStep ==
    ASSUME PipelineIInv, published \subseteq published', NEW w \in Workers, Work(w)
    PROVE  QueueOK' /\ WorkersOK' /\ ClientsOK'
<1> USE DEF PipelineIInv
<1>1. ASSUME NEW m \in DOMAIN queue, Deliver(w, m) PROVE QueueOK' /\ WorkersOK' /\ ClientsOK'
    BY <1>1, DeliverKeeps
<1>2. CASE Finish(w)
    <2>1. /\ worker[w] # Free /\ worker[w].phase = "returned" /\ UNCHANGED client
          /\ worker' = [worker EXCEPT ![w] = Free]
          /\ queue' = queue \/ queue' = Put(NextMessage(w), queue)
        BY <1>2 DEF Finish
    <2>2. DOMAIN queue' \subseteq DOMAIN queue \cup {NextMessage(w)}
        BY <2>1, PutKeeps
    <2>3. DOMAIN NextMessage(w) = {"req", "pos", "arg"} /\ NextMessage(w).req \in published'
        BY <2>1, NextMessageOK
    <2>4. QueueOK'
        BY <2>2, <2>3 DEF QueueOK, MessageOK
    <2> QED
        BY <2>1, <2>4, EndKeeps
<1>3. CASE Abandon(w)
    <2>1. /\ worker[w] # Free /\ worker[w].phase = "gave_up" /\ UNCHANGED <<queue, client>>
          /\ worker' = [worker EXCEPT ![w] = Free]
        BY <1>3 DEF Abandon
    <2> QED
        BY <2>1, EndKeeps, QueueStays
<1>4. ASSUME NEW h \in Handlers, SayState(w, h) \/ SayFailed(w, h)
      PROVE  QueueOK' /\ WorkersOK' /\ ClientsOK'
    <2>1. /\ worker[w] # Free /\ worker[w].phase \in {"run", "raised"}
          /\ \E state, reason : \E phase \in {"waiting", "reporting"} :
                 Tell(w, h, state, reason, phase)
        BY <1>4 DEF SayState, SayFailed, Doing
    <2> QED
        BY <2>1, TellKeeps
<1>5. CASE TaskStep(w)
    <2>1. Keeps(w) /\ worker[w].phase = "run"
        BY <1>5, TaskKeeps
    <2>2. worker[w] # Free /\ UNCHANGED <<queue, client>>
        BY <1>5, TaskFiles DEF TaskStep, Local
    <2> QED
        BY <2>1, <2>2, WorkerGoesOn, QueueStays
<1>6. ASSUME NEW c \in cleanups, NexusCleanup(w, c) PROVE QueueOK' /\ WorkersOK' /\ ClientsOK'
    BY <1>6, OnlyApi DEF NexusCleanup
<1> QED
    BY <1>1, <1>2, <1>3, <1>4, <1>5, <1>6 DEF Work

LEMMA ExpireStep ==
    ASSUME PipelineIInv, published \subseteq published', Expire
    PROVE  QueueOK' /\ WorkersOK' /\ ClientsOK'
<1> USE DEF PipelineIInv
<1>1. CASE ListExpired
    BY <1>1, OnlyApi DEF ListExpired
<1>2. ASSUME NEW h \in Handlers, MarkAsStale(h) PROVE QueueOK' /\ WorkersOK' /\ ClientsOK'
    <2>1. UNCHANGED <<queue, worker>> /\ client' = [client EXCEPT ![h] = CleanupJob]
        BY <1>2 DEF MarkAsStale
    <2>2. client' = [g \in Handlers |-> IF g = h THEN CleanupJob ELSE client[g]]
        BY <2>1 DEF ClientsOK
    <2>3. ClientsOK'
        BY <2>1, <2>2, ClientsAssumption DEF ClientsOK
    <2> QED
        BY <2>1, <2>3, QueueStays, WorkersUnchanged
<1> QED
    BY <1>1, <1>2 DEF Expire

LEMMA DisturbStep ==
    ASSUME PipelineIInv, published \subseteq published', Disturb
    PROVE  QueueOK' /\ WorkersOK' /\ ClientsOK'
<1> USE DEF PipelineIInv
<1>1. ASSUME NEW h \in Handlers, SubmitNotPublished(h)
      PROVE  QueueOK' /\ WorkersOK' /\ ClientsOK'
    BY <1>1, OnlyApi DEF SubmitNotPublished
<1>2. ASSUME NEW h \in Handlers, ServeError(h) \/ TimeOut(h)
      PROVE  QueueOK' /\ WorkersOK' /\ ClientsOK'
    BY <1>2, AnswerOnly DEF ServeError, TimeOut
<1>3. ASSUME NEW w \in Workers, WorkerDies(w) PROVE QueueOK' /\ WorkersOK' /\ ClientsOK'
    <2>1. /\ worker[w] # Free /\ worker' = [worker EXCEPT ![w] = Free] /\ Forget(w)
          /\ \/ queue' = Put(worker[w].msg, queue)
             \/ queue' = Put(NextMessage(w), Put(worker[w].msg, queue))
        BY <1>3 DEF WorkerDies
    <2> DEFINE again == Put(worker[w].msg, queue)
    <2>2. DOMAIN queue' \subseteq DOMAIN queue \cup {worker[w].msg, NextMessage(w)}
        <3>1. DOMAIN again = DOMAIN queue \cup {worker[w].msg}
            BY PutKeeps
        <3>2. DOMAIN Put(NextMessage(w), again) = DOMAIN again \cup {NextMessage(w)}
            BY PutKeeps
        <3> QED
            BY <2>1, <3>1, <3>2
    <2>3. QueueOK'
        BY <2>1, <2>2, NextMessageOK DEF QueueOK, MessageOK
    <2> QED
        BY <2>1, <2>3, EndKeeps
<1>4. ASSUME NEW w \in Workers, Redeliver(w) PROVE QueueOK' /\ WorkersOK' /\ ClientsOK'
    <2>1. /\ worker[w] # Free /\ UNCHANGED <<worker, client>>
          /\ queue' = Put(worker[w].msg, queue)
        BY <1>4 DEF Redeliver
    <2>2. DOMAIN queue' \subseteq DOMAIN queue \cup {worker[w].msg}
        BY <2>1, PutKeeps
    <2>3. QueueOK'
        BY <2>1, <2>2, NextMessageOK DEF QueueOK, MessageOK
    <2>4. WorkersOK'
        BY <2>1, WorkersUnchanged
    <2> QED
        BY <2>1, <2>3, <2>4 DEF ClientsOK
<1>5. ASSUME NEW w \in Workers, TaskRaises(w) PROVE QueueOK' /\ WorkersOK' /\ ClientsOK'
    <2>1. /\ worker[w] # Free /\ worker[w].phase = "run" /\ Becomes(w, "raised")
          /\ UNCHANGED <<queue, client>>
        BY <1>5 DEF TaskRaises, StepRaises, Raise, Local
    <2> QED
        BY <2>1, BecomesKeeps, WorkerGoesOn, QueueStays
<1> QED
    BY <1>1, <1>2, <1>3, <1>4, <1>5 DEF Disturb

LEMMA PipelineStep ==
    ASSUME PipelineIInv, PipelineNext
    PROVE  PipelineIInv'
<1>1. [Next]_vars
    BY ApiStep
<1>2. published \subseteq published'
    BY <1>1, PublishedGrows
<1>3. IInv'
    BY <1>1, TypeStep, CallsStep, Stutter DEF PipelineIInv, IInv
<1>4. QueueOK' /\ WorkersOK' /\ ClientsOK'
    BY <1>2, ServiceStep, WorkStep, ExpireStep, DisturbStep DEF PipelineNext
<1> QED
    BY <1>3, <1>4 DEF PipelineIInv

LEMMA PipelineStutter ==
    ASSUME PipelineIInv, UNCHANGED allVars
    PROVE  PipelineIInv'
<1>1. IInv'
    BY Stutter DEF PipelineIInv, allVars
<1>2. published \subseteq published' /\ UNCHANGED <<queue, worker, client>>
    BY DEF allVars, vars, pipelineVars
<1> QED
    BY <1>1, <1>2, OnlyApi DEF PipelineIInv

LEMMA InitPipelineIInv == PipelineInit => PipelineIInv
<1> SUFFICES ASSUME PipelineInit PROVE PipelineIInv
    OBVIOUS
<1>1. IInv
    BY InitIInv DEF PipelineInit
<1>2. DOMAIN queue = {}
    BY DEF PipelineInit, EmptyBag, SetToBag
<1>3. worker = [w \in Workers |-> Free] /\ client = [h \in Handlers |-> Nobody]
    BY DEF PipelineInit
<1> QED
    BY <1>1, <1>2, <1>3, ClientsAssumption DEF PipelineIInv, QueueOK, WorkersOK, ClientsOK

LEMMA PipelineInvariance == PipelineSpec => []PipelineIInv
BY InitPipelineIInv, PipelineStep, PipelineStutter, PTL DEF PipelineSpec

-----------------------------------------------------------------------------
(* Theorems *)

\* Whatever the workers, the user and the cleanup job do, and whatever fails, the calls
\* that reach the API are those it was checked against (tasks/general.py, api_v1.py).
THEOREM PipelineImplementsApi == PipelineSpec => ImplementsApi
<1>1. PipelineInit => Init
    BY DEF PipelineInit
<1>2. PipelineIInv /\ [PipelineNext]_allVars => [Next]_vars
    BY ApiStep DEF allVars, vars
<1> QED
    BY <1>1, <1>2, PipelineInvariance, PTL DEF PipelineSpec, ImplementsApi, Spec

\* The histories of the requests of a deployment are justified, as those of the API are:
\* a row was committed by a transaction that read a state from which it may be reached
\* (validate_state in patch_request, models.Request.add_state).
THEOREM PipelineHistoriesAreJustified == PipelineSpec => []HistoryJustified
BY PipelineImplementsApi, HistoriesAreJustified, PTL DEF ImplementsApi

\* The tasks that delete Nexus content are only scheduled for requests that failed or
\* expired (patch_request).
THEOREM PipelineCleanupsAreJustified == PipelineSpec => []CleanupsJustified
BY PipelineImplementsApi, CleanupsAreJustified, PTL DEF ImplementsApi

\* With one API thread a request of a deployment has one life, whatever its workers repeat:
\* submitted once, settled at most once, and stale for ever (models.Request.add_state).
THEOREM SerialPipelineImplementsLifecycle ==
    ASSUME OneThread
    PROVE  PipelineSpec => LifecycleSpec
BY PipelineImplementsApi, SerialApiImplementsLifecycle, PTL DEF ImplementsApi

\* With one API thread the state that tasks read, the newest by its time, is the state that
\* patch_request checks (models.Request, state and states).
THEOREM SerialPipelineHistoryInOrder ==
    ASSUME OneThread
    PROVE  PipelineSpec => []NewestIsCurrent
BY PipelineImplementsApi, SerialHistoryInOrder, PTL DEF ImplementsApi

-----------------------------------------------------------------------------
(* The chain of a request *)

\* The sequence s lists the tasks of T, each of them once.
Lists(s, T) ==
    /\ s \in Seq(T)
    /\ \A t \in T : \E i \in 1..Len(s) : s[i] = t
    /\ \A i, j \in 1..Len(s) : s[i] = s[j] => i = j

LEMMA OneTaskMore ==
    ASSUME NEW T, NEW s, Lists(s, T), NEW t, t \notin T
    PROVE  /\ Lists(s \o <<t>>, T \cup {t})
           /\ Len(s \o <<t>>) = Len(s) + 1
           /\ (s \o <<t>>)[Len(s) + 1] = t
           /\ \A i \in 1..Len(s) : (s \o <<t>>)[i] = s[i]
<1> DEFINE longer == s \o <<t>>
<1>1. s \in Seq(T) /\ Len(s) \in Nat /\ \A i \in 1..Len(s) : s[i] \in T
    BY DEF Lists
<1>2. /\ Len(longer) = Len(s) + 1 /\ longer[Len(s) + 1] = t
      /\ \A i \in 1..Len(s) : longer[i] = s[i]
    BY <1>1
<1>3. longer \in Seq(T \cup {t})
    <2>1. s \in Seq(T \cup {t}) /\ <<t>> \in Seq(T \cup {t})
        BY <1>1
    <2> QED
        BY <2>1
<1> HIDE DEF longer
<1>4. \A i \in 1..Len(longer) : i = Len(s) + 1 \/ i \in 1..Len(s)
    BY <1>1, <1>2
<1>5. \A u \in T \cup {t} : \E i \in 1..Len(longer) : longer[i] = u
    <2>1. Len(s) + 1 \in 1..Len(longer) /\ \A i \in 1..Len(s) : i \in 1..Len(longer)
        BY <1>1, <1>2
    <2> QED
        BY <1>2, <2>1 DEF Lists
<1>6. \A i, j \in 1..Len(longer) : longer[i] = longer[j] => i = j
    BY <1>1, <1>2, <1>4 DEF Lists
<1> QED
    BY <1>2, <1>3, <1>5, <1>6 DEF Lists, longer

LEMMA ScheduledOrNot ==
    ASSUME NEW r, NEW T, NEW s, Lists(s, T), NEW m, m \notin T
    PROVE  Lists(s \o Scheduled(r, m), T \cup ({m} \cap managers[r]))
<1>1. CASE m \in managers[r]
    <2>1. Scheduled(r, m) = <<m>> /\ T \cup {m} = T \cup ({m} \cap managers[r])
        BY <1>1 DEF Scheduled
    <2> QED
        BY <2>1, OneTaskMore
<1>2. CASE m \notin managers[r]
    <2>1. Scheduled(r, m) = <<>> /\ T = T \cup ({m} \cap managers[r])
        BY <1>2 DEF Scheduled
    <2>2. s \o <<>> = s
        BY DEF Lists
    <2> QED
        BY <2>1, <2>2
<1> QED
    BY <1>1, <1>2

EndTasks == {"process_fetched_sources", "finalize_request"}
\* Every task is in the chain once, and the last two are the same for every request.
LEMMA ChainLists ==
    ASSUME NEW r, managers[r] \subseteq TaskManagers
    PROVE  /\ Lists(Chain(r), {"fetch_app_source"} \cup managers[r] \cup EndTasks)
           /\ Len(Chain(r)) \in Nat /\ Len(Chain(r)) >= 3
           /\ Chain(r)[Len(Chain(r))] = "finalize_request"
           /\ Chain(r)[Len(Chain(r)) - 1] = "process_fetched_sources"
<1> DEFINE s0 == <<"fetch_app_source">>
           s1 == s0 \o Scheduled(r, "gomod")
           s2 == s1 \o Scheduled(r, "npm")
           s3 == s2 \o Scheduled(r, "pip")
           s4 == s3 \o Scheduled(r, "rubygems")
           s5 == s4 \o Scheduled(r, "git-submodule")
           s6 == s5 \o Scheduled(r, "yarn")
           s7 == s6 \o <<"process_fetched_sources">>
           s8 == s7 \o <<"finalize_request">>
           With(T, m) == T \cup ({m} \cap managers[r])
           T0 == {"fetch_app_source"}
           T1 == With(T0, "gomod")
           T2 == With(T1, "npm")
           T3 == With(T2, "pip")
           T4 == With(T3, "rubygems")
           T5 == With(T4, "git-submodule")
           T6 == With(T5, "yarn")
<1>0. Chain(r) = s8
    BY DEF Chain
<1>t. /\ "gomod" \notin T0 /\ "npm" \notin T1 /\ "pip" \notin T2 /\ "rubygems" \notin T3
      /\ "git-submodule" \notin T4 /\ "yarn" \notin T5
      /\ T6 = {"fetch_app_source"} \cup managers[r]
      /\ "process_fetched_sources" \notin T6
      /\ "finalize_request" \notin T6 \cup {"process_fetched_sources"}
    BY DEF TaskManagers
<1>a. Lists(s0, T0) /\ Len(s0) = 1
    BY DEF Lists
<1> HIDE DEF s0, T0
<1>1. Lists(s1, T1)
    BY <1>a, <1>t, ScheduledOrNot
<1> HIDE DEF s1, T1
<1>2. Lists(s2, T2)
    BY <1>1, <1>t, ScheduledOrNot
<1> HIDE DEF s2, T2
<1>3. Lists(s3, T3)
    BY <1>2, <1>t, ScheduledOrNot
<1> HIDE DEF s3, T3
<1>4. Lists(s4, T4)
    BY <1>3, <1>t, ScheduledOrNot
<1> HIDE DEF s4, T4
<1>5. Lists(s5, T5)
    BY <1>4, <1>t, ScheduledOrNot
<1> HIDE DEF s5, T5
<1>6. Lists(s6, T6)
    BY <1>5, <1>t, ScheduledOrNot
<1> HIDE DEF s6, T6
<1>7. /\ Lists(s7, T6 \cup {"process_fetched_sources"})
      /\ Len(s7) = Len(s6) + 1 /\ s7[Len(s6) + 1] = "process_fetched_sources"
    BY <1>6, <1>t, OneTaskMore
<1> HIDE DEF s7
<1>8. /\ Lists(s8, T6 \cup {"process_fetched_sources"} \cup {"finalize_request"})
      /\ Len(s8) = Len(s7) + 1 /\ s8[Len(s7) + 1] = "finalize_request"
      /\ \A i \in 1..Len(s7) : s8[i] = s7[i]
    BY <1>7, <1>t, OneTaskMore
<1>9. Len(s6) \in Nat /\ Len(s6) >= 1
    <2>1. "fetch_app_source" \in T6 /\ s6 \in Seq(T6)
        BY <1>6, <1>t DEF Lists
    <2>2. \E i \in 1..Len(s6) : s6[i] = "fetch_app_source"
        BY <1>6, <2>1 DEF Lists
    <2> QED
        BY <2>1, <2>2
<1> HIDE DEF s8
<1>10. s8[Len(s8)] = "finalize_request" /\ s8[Len(s8) - 1] = "process_fetched_sources"
       /\ Len(s8) \in Nat /\ Len(s8) >= 3
    BY <1>7, <1>8, <1>9
<1> QED
    BY <1>0, <1>8, <1>10, <1>t DEF EndTasks

-----------------------------------------------------------------------------
(* Where messages and executions are *)

TaskNames == {"fetch_app_source"} \cup TaskManagers \cup EndTasks

TaskOf(m) == Chain(m.req)[m.pos]
StepsOf(m) == Program(TaskOf(m))

\* A message is for a task of the chain of a published request.
InChain(m) == m \in Message /\ m.req \in published /\ m.pos \in 1..Len(Chain(m.req))

\* An execution is at a step of its task, and waits for the API only at a PATCH.
Running(x) ==
    /\ x \in Execution /\ InChain(x.msg)
    /\ x.at \in 1..Len(StepsOf(x.msg))
    /\ x.phase = "waiting" => StepsOf(x.msg)[x.at] \in PatchSteps

Located ==
    /\ \A m \in DOMAIN queue : InChain(m)
    /\ \A w \in Workers, x \in Execution : worker[w] = x => Running(x)
    /\ \A r \in published : Submitted(r)

Types == PipelineIInv /\ PipelineTypeOK /\ Located

NexusSteps == {"prepare_nexus", "finalize_nexus", "give_access"}
ArchiveSteps == {"open_archive", "close_archive", "checksum", "aggregate"}
FinalSteps == {"count", "say_complete"}

\* Which tasks have which steps.
LEMMA ProgramSteps ==
    ASSUME NEW t \in TaskNames
    PROVE  /\ Len(Program(t)) \in Nat /\ Len(Program(t)) >= 3
           /\ \A i \in 1..Len(Program(t)) :
                /\ Program(t)[i] = "write_packages" => t \in TaskManagers
                /\ Program(t)[i] \in NexusSteps => t \in NexusManagers
                /\ Program(t)[i] \in ArchiveSteps => t = "process_fetched_sources"
                /\ Program(t)[i] \in FinalSteps => t = "finalize_request"
                /\ Program(t)[i] \in {"finalize_nexus", "aggregate"} => i < Len(Program(t))
<1> USE DEF TaskManagers, NexusManagers, JsManagers
<1>1. CASE t = "fetch_app_source"
    <2>1. Program(t) = AppSourceSteps
        BY <1>1 DEF Program
    <2>2. /\ Len(AppSourceSteps) = 3
          /\ \A i \in 1..3 : AppSourceSteps[i] \notin {"write_packages"} \cup NexusSteps
                                                      \cup ArchiveSteps \cup FinalSteps
        BY DEF AppSourceSteps, NexusSteps, ArchiveSteps, FinalSteps
    <2>3. /\ Len(Program(t)) \in Nat /\ Len(Program(t)) >= 3
          /\ \A i \in 1..Len(Program(t)) :
                 Program(t)[i] \notin {"write_packages"} \cup NexusSteps \cup ArchiveSteps
                                      \cup FinalSteps
        BY <2>1, <2>2
    <2> QED
        BY <1>1, <2>3 DEF NexusSteps, ArchiveSteps, FinalSteps
<1>2. CASE t = "process_fetched_sources"
    <2>1. Program(t) = ProcessSteps
        BY <1>2 DEF Program
    <2>2. /\ Len(ProcessSteps) = 8
          /\ \A i \in 1..8 : ProcessSteps[i] \notin {"write_packages"} \cup NexusSteps
                                                    \cup FinalSteps
          /\ \A i \in 1..8 : ProcessSteps[i] = "aggregate" => i < 8
        BY DEF ProcessSteps, NexusSteps, ArchiveSteps, FinalSteps
    <2>3. /\ Len(Program(t)) \in Nat /\ Len(Program(t)) >= 3
          /\ \A i \in 1..Len(Program(t)) :
                 Program(t)[i] \notin {"write_packages"} \cup NexusSteps \cup FinalSteps
          /\ \A i \in 1..Len(Program(t)) : Program(t)[i] = "aggregate" => i < Len(Program(t))
        BY <2>1, <2>2
    <2> QED
        BY <1>2, <2>3 DEF NexusSteps, ArchiveSteps, FinalSteps
<1>3. CASE t = "finalize_request"
    <2>1. Program(t) = FinalizeSteps
        BY <1>3 DEF Program
    <2>2. /\ Len(FinalizeSteps) = 3
          /\ \A i \in 1..3 : FinalizeSteps[i] \notin {"write_packages"} \cup NexusSteps
                                                     \cup ArchiveSteps
        BY DEF FinalizeSteps, NexusSteps, ArchiveSteps, FinalSteps
    <2>3. /\ Len(Program(t)) \in Nat /\ Len(Program(t)) >= 3
          /\ \A i \in 1..Len(Program(t)) :
                 Program(t)[i] \notin {"write_packages"} \cup NexusSteps \cup ArchiveSteps
        BY <2>1, <2>2
    <2> QED
        BY <1>3, <2>3 DEF NexusSteps, ArchiveSteps, FinalSteps
<1>4. CASE t \in JsManagers
    <2>1. Program(t) = JsSteps
        BY <1>4 DEF Program
    <2>2. /\ Len(JsSteps) = 10
          /\ \A i \in 1..10 : JsSteps[i] \notin ArchiveSteps \cup FinalSteps
          /\ \A i \in 1..10 : JsSteps[i] = "finalize_nexus" => i < 10
        BY DEF JsSteps, NexusSteps, ArchiveSteps, FinalSteps
    <2>3. /\ Len(Program(t)) \in Nat /\ Len(Program(t)) >= 3
          /\ \A i \in 1..Len(Program(t)) :
                 Program(t)[i] \notin ArchiveSteps \cup FinalSteps
          /\ \A i \in 1..Len(Program(t)) : Program(t)[i] = "finalize_nexus" => i < Len(Program(t))
        BY <2>1, <2>2
    <2> QED
        BY <1>4, <2>3 DEF NexusSteps, ArchiveSteps, FinalSteps
<1>5. CASE t = "pip"
    <2>1. Program(t) = PipSteps
        BY <1>5 DEF Program
    <2>2. /\ Len(PipSteps) = 10
          /\ \A i \in 1..10 : PipSteps[i] \notin ArchiveSteps \cup FinalSteps
          /\ \A i \in 1..10 : PipSteps[i] = "finalize_nexus" => i < 10
        BY DEF PipSteps, NexusSteps, ArchiveSteps, FinalSteps
    <2>3. /\ Len(Program(t)) \in Nat /\ Len(Program(t)) >= 3
          /\ \A i \in 1..Len(Program(t)) :
                 Program(t)[i] \notin ArchiveSteps \cup FinalSteps
          /\ \A i \in 1..Len(Program(t)) : Program(t)[i] = "finalize_nexus" => i < Len(Program(t))
        BY <2>1, <2>2
    <2> QED
        BY <1>5, <2>3 DEF NexusSteps, ArchiveSteps, FinalSteps
<1>6. CASE t = "rubygems"
    <2>1. Program(t) = RubygemsSteps
        BY <1>6 DEF Program
    <2>2. /\ Len(RubygemsSteps) = 10
          /\ \A i \in 1..10 : RubygemsSteps[i] \notin ArchiveSteps \cup FinalSteps
          /\ \A i \in 1..10 : RubygemsSteps[i] = "finalize_nexus" => i < 10
        BY DEF RubygemsSteps, NexusSteps, ArchiveSteps, FinalSteps
    <2>3. /\ Len(Program(t)) \in Nat /\ Len(Program(t)) >= 3
          /\ \A i \in 1..Len(Program(t)) :
                 Program(t)[i] \notin ArchiveSteps \cup FinalSteps
          /\ \A i \in 1..Len(Program(t)) : Program(t)[i] = "finalize_nexus" => i < Len(Program(t))
        BY <2>1, <2>2
    <2> QED
        BY <1>6, <2>3 DEF NexusSteps, ArchiveSteps, FinalSteps
<1>7. CASE t = "gomod"
    <2>1. Program(t) = GomodSteps
        BY <1>7 DEF Program
    <2>2. /\ Len(GomodSteps) = 6
          /\ \A i \in 1..6 : GomodSteps[i] \notin NexusSteps \cup ArchiveSteps \cup FinalSteps
        BY DEF GomodSteps, NexusSteps, ArchiveSteps, FinalSteps
    <2>3. /\ Len(Program(t)) \in Nat /\ Len(Program(t)) >= 3
          /\ \A i \in 1..Len(Program(t)) :
                 Program(t)[i] \notin NexusSteps \cup ArchiveSteps \cup FinalSteps
        BY <2>1, <2>2
    <2> QED
        BY <1>7, <2>3 DEF NexusSteps, ArchiveSteps, FinalSteps
<1>8. CASE t = "git-submodule"
    <2>1. Program(t) = SubmoduleSteps
        BY <1>8 DEF Program
    <2>2. /\ Len(SubmoduleSteps) = 3
          /\ \A i \in 1..3 : SubmoduleSteps[i] \notin NexusSteps \cup ArchiveSteps \cup FinalSteps
        BY DEF SubmoduleSteps, NexusSteps, ArchiveSteps, FinalSteps
    <2>3. /\ Len(Program(t)) \in Nat /\ Len(Program(t)) >= 3
          /\ \A i \in 1..Len(Program(t)) :
                 Program(t)[i] \notin NexusSteps \cup ArchiveSteps \cup FinalSteps
        BY <2>1, <2>2
    <2> QED
        BY <1>8, <2>3 DEF NexusSteps, ArchiveSteps, FinalSteps
<1> QED
    BY <1>1, <1>2, <1>3, <1>4, <1>5, <1>6, <1>7, <1>8 DEF TaskNames, EndTasks

LEMMA TasksOfChain ==
    ASSUME Types, NEW r \in Requests
    PROVE  /\ Lists(Chain(r), {"fetch_app_source"} \cup managers[r] \cup EndTasks)
           /\ Len(Chain(r)) \in Nat /\ Len(Chain(r)) >= 3
           /\ Chain(r)[Len(Chain(r))] = "finalize_request"
           /\ Chain(r)[Len(Chain(r)) - 1] = "process_fetched_sources"
           /\ managers[r] \subseteq PkgManagers /\ managers[r] \subseteq TaskManagers
           /\ \A i \in 1..Len(Chain(r)) : /\ Chain(r)[i] \in TaskNames
                                          /\ Chain(r)[i] \in TaskManagers =>
                                                 Chain(r)[i] \in managers[r]
<1>1. managers[r] \subseteq PkgManagers /\ managers[r] \subseteq TaskManagers
    BY ManagersAssumption DEF Types, PipelineTypeOK, TypeOK
<1>2. /\ Lists(Chain(r), {"fetch_app_source"} \cup managers[r] \cup EndTasks)
      /\ Len(Chain(r)) \in Nat /\ Len(Chain(r)) >= 3
      /\ Chain(r)[Len(Chain(r))] = "finalize_request"
      /\ Chain(r)[Len(Chain(r)) - 1] = "process_fetched_sources"
    BY <1>1, ChainLists
<1>3. \A i \in 1..Len(Chain(r)) :
          Chain(r)[i] \in {"fetch_app_source"} \cup managers[r] \cup EndTasks
    BY <1>2 DEF Lists
<1> QED
    BY <1>1, <1>2, <1>3 DEF TaskNames, EndTasks, TaskManagers

\* The chain of a request is settled when it is submitted.
LEMMA ManagersFixed ==
    ASSUME Types, [Next]_vars, NEW r \in published
    PROVE  managers'[r] = managers[r] /\ Chain(r)' = Chain(r) /\ r \in published'
           /\ Submitted(r)'
<1>1. r \in Requests /\ Submitted(r) /\ r \in published'
    BY PublishedGrows DEF Types, Located, PipelineIInv, IInv, TypeOK
<1>2. managers'[r] = managers[r] /\ Submitted(r)'
    <2>1. CASE \E h \in Handlers, q \in Requests, ms \in SUBSET PkgManagers :
                   CreateRequest(h, q, ms)
        BY <1>1, <2>1 DEF CreateRequest, Types, PipelineIInv, IInv, TypeOK, Submitted
    <2>2. CASE ~\E h \in Handlers, q \in Requests, ms \in SUBSET PkgManagers :
                   CreateRequest(h, q, ms)
        <3>1. managers' = managers
            BY <2>2 DEF Next, vars, HandlerStep, RefuseReplacements, PublishChain, PublishFails,
                FailUnscheduled, PatchBegin, PatchRead, PatchRefuse, Commit, HandlerFails,
                DeleteBundle, DeleteTemp, DeleteLog, ScheduleCleanups, WorkerWrites, RunCleanup
        <3>2. Submitted(r)'
            <4>1. rows[r] \in Seq(Row)
                BY <1>1 DEF Types, PipelineIInv, IInv, TypeOK
            <4>2. rows'[r] = rows[r] \/ \E row \in Row : rows'[r] = Append(rows[r], row)
                BY <1>1, RowsGrow DEF Types, PipelineIInv, vars
            <4> QED
                BY <1>1, <4>1, <4>2, Appended DEF Submitted
        <3> QED
            BY <3>1, <3>2
    <2> QED
        BY <2>1, <2>2
<1> QED
    BY <1>1, <1>2 DEF Chain, Scheduled

-----------------------------------------------------------------------------
(* What a step does to an execution *)

LEMMA FreeIsIdle == Free \notin Execution
BY DEF Free, Execution, Phases

\* The execution of w becomes x, for the same message.
Moves(w, x) == /\ worker' = [worker EXCEPT ![w] = x]
               /\ Running(x) /\ x.msg = worker[w].msg

LEMMA BusyRuns ==
    ASSUME Types, NEW w \in Workers, worker[w] # Free
    PROVE  /\ Running(worker[w]) /\ worker[w] \in Execution
           /\ Task(w) = TaskOf(worker[w].msg) /\ Task(w) \in TaskNames
           /\ StepOf(w) = StepsOf(worker[w].msg)[worker[w].at]
           /\ worker[w].msg.req \in Requests /\ worker[w].msg.req \in published
           /\ Task(w) \in TaskManagers => Task(w) \in managers[worker[w].msg.req]
           /\ worker[w].at \in 1..Len(Program(Task(w)))
           /\ Len(Program(Task(w))) \in Nat
<1>0. worker[w] \in Execution
    BY DEF Types, PipelineTypeOK
<1>1. Running(worker[w])
    BY <1>0 DEF Types, Located
<1>2. worker[w].msg.req \in Requests /\ worker[w].msg \in Message
      /\ worker[w].msg.pos \in 1..Len(Chain(worker[w].msg.req))
    BY <1>1 DEF Running, InChain, Message
<1>3. /\ Task(w) = TaskOf(worker[w].msg) /\ Task(w) \in TaskNames
      /\ Task(w) \in TaskManagers => Task(w) \in managers[worker[w].msg.req]
    BY <1>2, TasksOfChain DEF Task, TaskOf
<1> QED
    BY <1>1, <1>2, <1>3, ProgramSteps DEF Running, InChain, StepsOf, StepOf

LEMMA BecomesMoves ==
    ASSUME Types, NEW w \in Workers, worker[w] # Free, NEW phase \in Phases, Becomes(w, phase),
           phase = "waiting" => StepOf(w) \in PatchSteps
    PROVE  \E x : /\ Moves(w, x) /\ x.phase = phase /\ x.at = worker[w].at
                  /\ x.password = worker[w].password /\ x.result = worker[w].result
<1> DEFINE x == [worker[w] EXCEPT !.phase = phase]
<1>1. worker' = [worker EXCEPT ![w] = x]
    BY DEF Becomes
<1>2. Running(worker[w]) /\ worker[w] \in Execution
      /\ StepOf(w) = StepsOf(worker[w].msg)[worker[w].at]
    BY BusyRuns
<1>3. /\ x \in Execution /\ x.msg = worker[w].msg /\ x.at = worker[w].at /\ x.phase = phase
      /\ x.password = worker[w].password /\ x.result = worker[w].result
    BY <1>2 DEF Execution
<1> HIDE DEF x
<1>4. Running(x)
    BY <1>2, <1>3 DEF Running
<1> QED
    BY <1>1, <1>3, <1>4 DEF Moves

\* The next step, or the end of the task.
LEMMA ProceedMoves ==
    ASSUME Types, NEW w \in Workers, worker[w] # Free, Proceed(w)
    PROVE  \E x : /\ Moves(w, x) /\ x.password = worker[w].password
                  /\ x.result = worker[w].result
                  /\ \/ /\ x.phase = "returned" /\ x.at = worker[w].at
                        /\ x.at = Len(Program(Task(w)))
                     \/ x.phase = "run" /\ x.at = worker[w].at + 1
<1> DEFINE last == worker[w].at = Len(Program(Task(w)))
           over == [worker[w] EXCEPT !.phase = "returned"]
           next == [worker[w] EXCEPT !.phase = "run", !.at = @ + 1, !.tries = 0]
<1>1. /\ last => worker' = [worker EXCEPT ![w] = over]
      /\ ~last => worker' = [worker EXCEPT ![w] = next]
    BY DEF Proceed
<1>2. /\ Running(worker[w]) /\ worker[w] \in Execution
      /\ Task(w) = TaskOf(worker[w].msg)
      /\ worker[w].at \in 1..Len(Program(Task(w)))
      /\ Len(Program(Task(w))) \in Nat
    BY BusyRuns
<1>3. /\ over \in Execution /\ over.msg = worker[w].msg /\ over.at = worker[w].at
      /\ over.phase = "returned" /\ over.password = worker[w].password
      /\ over.result = worker[w].result
    BY <1>2 DEF Execution, Phases
<1>4. /\ next \in Execution /\ next.msg = worker[w].msg /\ next.at = worker[w].at + 1
      /\ next.phase = "run" /\ next.password = worker[w].password
      /\ next.result = worker[w].result
    <2> DEFINE x == worker[w]
    <2>1. x \in Execution /\ next = [x EXCEPT !.phase = "run", !.at = @ + 1, !.tries = 0]
        BY <1>2
    <2> HIDE DEF x, next
    <2>2. x.at + 1 \in Nat
        BY <2>1 DEF Execution
    <2> QED
        BY <2>1, <2>2 DEF Execution, Phases, x
<1> HIDE DEF over, next
<1>5. Running(over) /\ (~last => Running(next))
    BY <1>2, <1>3, <1>4 DEF Running, StepsOf
<1>6. CASE last
    BY <1>1, <1>3, <1>5, <1>6 DEF Moves
<1>7. CASE ~last
    BY <1>1, <1>4, <1>5, <1>7 DEF Moves
<1> QED
    BY <1>6, <1>7

\* An answer ends the step or the task, or the PATCH is repeated.
LEMMA AnsweredMoves ==
    ASSUME Types, NEW w \in Workers, worker[w] # Free, NEW outcome, Answered(w, outcome)
    PROVE  \/ Proceed(w) /\ worker[w].phase = "waiting"
           \/ \E x : /\ Moves(w, x) /\ x.at = worker[w].at
                     /\ x.phase \in {"run", "raised", "gave_up"}
                     /\ x.password = worker[w].password
                     /\ x.result = worker[w].result
<1> DEFINE again == [worker[w] EXCEPT !.tries = @ + 1,
                                      !.phase = IF @ = "waiting" THEN "run" ELSE "raised"]
           given_up == [worker[w] EXCEPT !.phase = "raised", !.tries = 0]
<1>1. Running(worker[w]) /\ worker[w] \in Execution
    BY BusyRuns
<1>2. /\ again \in Execution /\ again.msg = worker[w].msg /\ again.at = worker[w].at
      /\ again.phase \in {"run", "raised"} /\ again.password = worker[w].password
      /\ again.result = worker[w].result
    <2> DEFINE x == worker[w]
               phase == IF x.phase = "waiting" THEN "run" ELSE "raised"
    <2>1. x \in Execution /\ again = [x EXCEPT !.tries = @ + 1, !.phase = phase]
        BY <1>1
    <2>2. phase \in {"run", "raised"}
        OBVIOUS
    <2> HIDE DEF x, again, phase
    <2>3. x.tries + 1 \in Nat
        BY <2>1 DEF Execution
    <2> QED
        BY <2>1, <2>2, <2>3 DEF Execution, Phases, x
<1>3. /\ given_up \in Execution /\ given_up.msg = worker[w].msg /\ given_up.at = worker[w].at
      /\ given_up.phase = "raised" /\ given_up.password = worker[w].password
      /\ given_up.result = worker[w].result
    BY <1>1 DEF Execution, Phases
<1>4. \/ worker' = [worker EXCEPT ![w] = again]
      \/ Becomes(w, "gave_up")
      \/ Proceed(w) /\ worker[w].phase = "waiting"
      \/ worker' = [worker EXCEPT ![w] = given_up]
    BY DEF Answered
<1> HIDE DEF again, given_up
<1>5. Running(again) /\ Running(given_up)
    BY <1>1, <1>2, <1>3 DEF Running
<1>6. CASE Becomes(w, "gave_up")
    BY <1>6, BecomesMoves DEF Phases
<1> QED
    BY <1>2, <1>3, <1>4, <1>5, <1>6 DEF Moves

-----------------------------------------------------------------------------
(* Messages and executions have their types *)

QueueTyped ==
    /\ DOMAIN queue \subseteq Message
    /\ \A m \in DOMAIN queue : queue[m] \in Nat \ {0} /\ InChain(m)

WorkersTyped ==
    /\ worker \in [Workers -> Execution \cup {Free}]
    /\ \A w \in Workers, x \in Execution : worker[w] = x => Running(x)

LEMMA InChainLasts ==
    ASSUME Types, [Next]_vars, NEW m, InChain(m)
    PROVE  InChain(m)' /\ TaskOf(m)' = TaskOf(m)
BY ManagersFixed DEF InChain, TaskOf

LEMMA RunningLasts ==
    ASSUME Types, [Next]_vars, NEW x, Running(x)
    PROVE  Running(x)'
<1>1. InChain(x.msg)' /\ TaskOf(x.msg)' = TaskOf(x.msg)
    BY InChainLasts DEF Running
<1>2. StepsOf(x.msg)' = StepsOf(x.msg)
    BY <1>1 DEF StepsOf
<1> QED
    BY <1>1, <1>2 DEF Running

LEMMA WorkersTypedStay ==
    ASSUME Types, [Next]_vars, UNCHANGED worker
    PROVE  WorkersTyped'
<1>1. ASSUME NEW w \in Workers, NEW x \in Execution, worker[w] = x
      PROVE  Running(x)'
    BY <1>1, RunningLasts DEF Types, Located
<1> QED
    BY <1>1 DEF WorkersTyped, Types, PipelineTypeOK

LEMMA WorkersTypedMove ==
    ASSUME Types, [Next]_vars, NEW w \in Workers, NEW x, x = Free \/ Running(x),
           worker' = [worker EXCEPT ![w] = x]
    PROVE  WorkersTyped'
<1>1. worker \in [Workers -> Execution \cup {Free}]
    BY DEF Types, PipelineTypeOK
<1>2. worker' = [v \in Workers |-> IF v = w THEN x ELSE worker[v]]
    BY <1>1
<1>3. x \in Execution \cup {Free}
    BY DEF Running
<1>4. worker' \in [Workers -> Execution \cup {Free}]
    BY <1>1, <1>2, <1>3
<1>5. ASSUME NEW v \in Workers, NEW y \in Execution, worker'[v] = y
      PROVE  Running(y)'
    <2>1. Running(y)
        BY <1>2, <1>5, FreeIsIdle DEF Types, Located
    <2> QED
        BY <2>1, RunningLasts
<1> QED
    BY <1>4, <1>5 DEF WorkersTyped

\* The copies of a message.
Copies(m, q) == IF m \in DOMAIN q THEN q[m] ELSE 0

LEMMA PutCounts ==
    ASSUME NEW q, NEW m, \A n \in DOMAIN q : q[n] \in Nat \ {0}
    PROVE  /\ DOMAIN Put(m, q) = DOMAIN q \cup {m}
           /\ \A n \in DOMAIN Put(m, q) : Put(m, q)[n] \in Nat \ {0}
           /\ Put(m, q)[m] = Copies(m, q) + 1
           /\ \A n \in DOMAIN q \ {m} : Put(m, q)[n] = q[n]
BY DEF Put, (+), SetToBag, Copies

LEMMA TakeCounts ==
    ASSUME NEW q, \A n \in DOMAIN q : q[n] \in Nat \ {0}, NEW m \in DOMAIN q
    PROVE  /\ DOMAIN Take(m, q) = IF q[m] = 1 THEN DOMAIN q \ {m} ELSE DOMAIN q
           /\ \A n \in DOMAIN Take(m, q) : Take(m, q)[n] \in Nat \ {0}
           /\ m \in DOMAIN Take(m, q) => Take(m, q)[m] = q[m] - 1
           /\ \A n \in DOMAIN q \ {m} : Take(m, q)[n] = q[n]
<1> DEFINE less == [e \in DOMAIN q |-> IF e \in {m} THEN q[e] - 1 ELSE q[e]]
           left == {d \in DOMAIN less : less[d] > 0}
<1>1. Take(m, q) = [e \in left |-> less[e]]
    BY DEF Take, (-), SetToBag
<1>2. /\ DOMAIN less = DOMAIN q /\ less[m] = q[m] - 1 /\ q[m] \in Nat \ {0}
      /\ \A n \in DOMAIN q \ {m} : less[n] = q[n] /\ q[n] \in Nat \ {0}
    OBVIOUS
<1> HIDE DEF less
<1>3. left = IF q[m] = 1 THEN DOMAIN q \ {m} ELSE DOMAIN q
    BY <1>2
<1>4. \A n \in left : less[n] \in Nat \ {0}
    BY <1>2
<1> QED
    BY <1>1, <1>2, <1>3, <1>4

LEMMA Counts ==
    ASSUME Types
    PROVE  \A n \in DOMAIN queue : queue[n] \in Nat \ {0} /\ InChain(n)
BY DEF Types, PipelineTypeOK, Located

LEMMA QueueTypedNext ==
    ASSUME Types, [Next]_vars,
           \A m \in DOMAIN queue' : queue'[m] \in Nat \ {0} /\ (InChain(m) \/ InChain(m)')
    PROVE  QueueTyped'
<1>1. \A m \in DOMAIN queue' : InChain(m)'
    BY InChainLasts
<1>2. \A m : InChain(m)' => m \in Message
    <2>1. Message' = Message
        BY DEF Message, Results
    <2> QED
        BY <2>1 DEF InChain
<1> QED
    BY <1>1, <1>2 DEF QueueTyped

LEMMA QueueTypedStays ==
    ASSUME Types, [Next]_vars, UNCHANGED queue
    PROVE  QueueTyped'
BY Counts, QueueTypedNext

LEMMA QueueTypedPut ==
    ASSUME Types, [Next]_vars, NEW m, InChain(m) \/ InChain(m)', queue' = Put(m, queue)
    PROVE  QueueTyped'
<1>1. \A n \in DOMAIN queue : queue[n] \in Nat \ {0} /\ InChain(n)
    BY Counts
<1>2. /\ DOMAIN queue' = DOMAIN queue \cup {m}
      /\ \A n \in DOMAIN queue' : queue'[n] \in Nat \ {0}
    BY <1>1, PutCounts
<1> QED
    BY <1>1, <1>2, QueueTypedNext

\* The next task is in the chain too.
LEMMA NextInChain ==
    ASSUME Types, NEW w \in Workers, worker[w] # Free
    PROVE  /\ InChain(worker[w].msg)
           /\ ~IsLast(w) => InChain(NextMessage(w))
           /\ NextMessage(w).req = worker[w].msg.req
           /\ NextMessage(w).pos = worker[w].msg.pos + 1
<1> DEFINE m == worker[w].msg
           result == worker[w].result
<1>1. m \in Message /\ InChain(m) /\ result \in Results /\ m.req \in Requests
    BY BusyRuns DEF Running, InChain, Execution
<1>2. NextMessage(w) = [m EXCEPT !.pos = @ + 1, !.arg = result]
    BY DEF NextMessage
<1>3. Len(Chain(m.req)) \in Nat
    BY <1>1, TasksOfChain
<1>4. IsLast(w) <=> m.pos = Len(Chain(m.req))
    BY DEF IsLast
<1> HIDE DEF m, result
<1>5. /\ m.pos \in Nat /\ m.pos + 1 \in Nat
    BY <1>1 DEF Message
<1>6. /\ NextMessage(w) \in Message /\ NextMessage(w).req = m.req
      /\ NextMessage(w).pos = m.pos + 1
    BY <1>1, <1>2, <1>5 DEF Message
<1>7. ~IsLast(w) => InChain(NextMessage(w))
    BY <1>1, <1>3, <1>4, <1>5, <1>6 DEF InChain
<1> QED
    BY <1>1, <1>6, <1>7 DEF m

\* A step of a task is a step of the program of an execution.
LEMMA TaskDoes ==
    ASSUME Types, NEW w \in Workers, TaskStep(w)
    PROVE  LET r == worker[w].msg.req
           IN /\ worker[w] # Free /\ worker[w].phase = "run" /\ r \in Requests
              /\ \/ CheckState(w, r) \/ QuietCall(w, r) \/ Unpack(w, r) \/ OpenDir(w, r)
                 \/ Verify(w, r) \/ PrepareNexus(w, r) \/ Resolve(w, r) \/ WritePackages(w, r)
                 \/ FinalizeNexus(w, r) \/ GiveAccess(w, r) \/ OpenArchive(w, r)
                 \/ CloseArchive(w, r) \/ SaveChecksum(w, r) \/ Aggregate(w, r)
                 \/ CheckCounts(w, r)
              /\ Local(w, r)
<1>1. worker[w] # Free /\ worker[w].phase = "run"
    BY TaskKeeps, TaskFiles DEF Types, PipelineIInv
<1> QED
    BY <1>1 DEF TaskStep

\* The last two steps with a rule of their own.
LEMMA FinalizeMoves ==
    ASSUME Types, NEW w \in Workers, NEW r, r = worker[w].msg.req, FinalizeNexus(w, r)
    PROVE  \E x : /\ Moves(w, x)
                  /\ \/ /\ x.phase = "raised" /\ x.at = worker[w].at
                        /\ UNCHANGED <<nexus, password>>
                     \/ /\ x.phase = "run" /\ x.at = worker[w].at + 1
                        /\ x.password = password[r][Task(w)] + 1
                        /\ nexus' = [nexus EXCEPT ![r] = (@ \ {<<Task(w), "open">>})
                                                             \cup {<<Task(w), "user">>}]
                        /\ password' = [password EXCEPT ![r][Task(w)] = password[r][Task(w)] + 1]
<1> DEFINE m == Task(w)
           made == password[r][m] + 1
           y == worker[w]
           x == [y EXCEPT !.at = @ + 1, !.password = made]
<1>1. worker[w] # Free /\ worker[w].phase = "run" /\ StepOf(w) = "finalize_nexus"
    BY DEF FinalizeNexus, Doing
<1>2. /\ Running(y) /\ y \in Execution /\ r \in Requests /\ m \in TaskNames
      /\ m = TaskOf(y.msg) /\ y.at \in 1..Len(Program(m)) /\ Len(Program(m)) \in Nat
      /\ Program(m)[y.at] = "finalize_nexus"
    BY <1>1, BusyRuns DEF StepOf
<1>3. m \in NexusManagers /\ y.at < Len(Program(m))
    BY <1>2, ProgramSteps DEF NexusSteps
<1>4. made \in Nat
    BY <1>2, <1>3 DEF Types, PipelineTypeOK
<1>5. CASE Raise(w) /\ UNCHANGED <<nexus, password>>
    BY <1>1, <1>5, BecomesMoves DEF Raise, Phases
<1>6. CASE /\ nexus' = [nexus EXCEPT ![r] = (@ \ {<<m, "open">>}) \cup {<<m, "user">>}]
           /\ password' = [password EXCEPT ![r][m] = made]
           /\ worker' = [worker EXCEPT ![w].at = @ + 1, ![w].password = made]
    <2>1. worker' = [worker EXCEPT ![w] = x]
        BY <1>6
    <2>2. y.at + 1 \in 1..Len(Program(m)) /\ y.at + 1 \in Nat
        BY <1>2, <1>3
    <2> HIDE DEF made, y
    <2>3. /\ x \in Execution /\ x.msg = y.msg /\ x.at = y.at + 1 /\ x.phase = y.phase
          /\ x.password = made
        BY <1>2, <1>4, <2>2 DEF Execution
    <2> HIDE DEF x, m
    <2>4. Running(x)
        BY <1>1, <1>2, <2>2, <2>3 DEF Running, StepsOf, y
    <2> QED
        BY <1>1, <1>6, <2>1, <2>3, <2>4 DEF Moves, y, made, m
<1> QED
    BY <1>5, <1>6 DEF FinalizeNexus

LEMMA AggregateMoves ==
    ASSUME Types, NEW w \in Workers, NEW r, Aggregate(w, r)
    PROVE  \E x : /\ Moves(w, x) /\ x.phase = "run" /\ x.at = worker[w].at + 1
                  /\ x.password = worker[w].password
<1> DEFINE m == Task(w)
           y == worker[w]
           listing == Listing(r)
           x == [y EXCEPT !.at = @ + 1, !.result = listing]
<1>1. worker[w] # Free /\ worker[w].phase = "run" /\ StepOf(w) = "aggregate"
    BY DEF Aggregate, Doing
<1>2. /\ Running(y) /\ y \in Execution /\ m \in TaskNames
      /\ m = TaskOf(y.msg) /\ y.at \in 1..Len(Program(m)) /\ Len(Program(m)) \in Nat
      /\ Program(m)[y.at] = "aggregate"
    BY <1>1, BusyRuns DEF StepOf
<1>3. y.at < Len(Program(m))
    BY <1>2, ProgramSteps
<1>4. listing \in Results
    BY DEF Listing, Results
<1>5. worker' = [worker EXCEPT ![w] = x]
    BY DEF Aggregate
<1>6. y.at + 1 \in 1..Len(Program(m)) /\ y.at + 1 \in Nat
    BY <1>2, <1>3
<1> HIDE DEF y, listing
<1>7. /\ x \in Execution /\ x.msg = y.msg /\ x.at = y.at + 1 /\ x.phase = y.phase
      /\ x.password = y.password
    BY <1>2, <1>4, <1>6 DEF Execution
<1> HIDE DEF x, m
<1>8. Running(x)
    BY <1>1, <1>2, <1>6, <1>7 DEF Running, StepsOf, y
<1> QED
    BY <1>1, <1>5, <1>7, <1>8 DEF Moves, y

LEMMA TaskMoves ==
    ASSUME Types, NEW w \in Workers, TaskStep(w)
    PROVE  \E x : Moves(w, x)
<1> DEFINE r == worker[w].msg.req
<1>1. worker[w] # Free
    BY TaskDoes
<1>2. CASE FinalizeNexus(w, r)
    BY <1>2, FinalizeMoves
<1>3. CASE Aggregate(w, r)
    BY <1>3, AggregateMoves
<1>4. CASE ~FinalizeNexus(w, r) /\ ~Aggregate(w, r)
    <2>1. Proceed(w) \/ Becomes(w, "returned") \/ Becomes(w, "raised")
        BY <1>4, TaskDoes DEF CheckState, QuietCall, Unpack, OpenDir, Verify, PrepareNexus,
            Resolve, WritePackages, GiveAccess, OpenArchive, CloseArchive, SaveChecksum,
            CheckCounts, Raise
    <2> QED
        BY <1>1, <2>1, ProceedMoves, BecomesMoves DEF Phases
<1> QED
    BY <1>2, <1>3, <1>4

\* An answer changes the execution of the client only.
LEMMA AnswerMoves ==
    ASSUME Types, NEW h \in Handlers, NEW outcome, Answer(h, outcome)
    PROVE  \/ UNCHANGED worker
           \/ \E w \in Workers : /\ client[h] = w /\ worker[w] # Free
                                 /\ worker[w].phase \in {"waiting", "reporting"}
                                 /\ Answered(w, outcome) /\ \E x : Moves(w, x)
<1>1. CASE client[h] \in Workers
    <2>1. /\ Answered(client[h], outcome) /\ worker[client[h]] # Free
          /\ worker[client[h]].phase \in {"waiting", "reporting"}
        BY <1>1 DEF Answer, Types, PipelineIInv, ClientsOK
    <2>2. \E x : Moves(client[h], x)
        BY <1>1, <2>1, AnsweredMoves, ProceedMoves
    <2> QED
        BY <1>1, <2>1, <2>2
<1>2. CASE client[h] \notin Workers
    BY <1>2 DEF Answer
<1> QED
    BY <1>1, <1>2

\* Every published request was submitted.
LEMMA SubmittedBefore ==
    ASSUME Types, PipelineNext
    PROVE  \A r \in published' : Submitted(r)'
<1>1. [Next]_vars
    BY ApiStep DEF Types
<1>2. ASSUME NEW r \in published'
      PROVE  r \in published \/ \E h \in Handlers : PublishChain(h) /\ r = handler[h].req
    BY <1>1 DEF Next, vars, HandlerStep, CreateRequest, RefuseReplacements, PublishChain,
        PublishFails, FailUnscheduled, PatchBegin, PatchRead, PatchRefuse, Commit, HandlerFails,
        DeleteBundle, DeleteTemp, DeleteLog, ScheduleCleanups, WorkerWrites, RunCleanup
<1>3. ASSUME NEW h \in Handlers, PublishChain(h), NEW r, r = handler[h].req
      PROVE  Submitted(r)'
    BY <1>3, CurrentState DEF PublishChain, At, Submitted, Types, PipelineIInv
<1> QED
    BY <1>1, <1>2, <1>3, ManagersFixed

LEMMA ServiceTyped ==
    ASSUME Types, [Next]_vars, NEW h \in Handlers,
           SubmitRequest(h) \/ SubmitRefused(h) \/ Serve(h)
    PROVE  QueueTyped' /\ WorkersTyped'
<1>1. CASE SubmitRequest(h) \/ SubmitRefused(h) \/ SubmitFailed(h) \/ ServeOn(h)
           \/ ServeDeleteTemp(h)
    <2>1. UNCHANGED <<queue, worker>>
        BY <1>1 DEF SubmitRequest, SubmitRefused, SubmitFailed, ServeOn, ServeDeleteTemp,
            pipelineVars
    <2> QED
        BY <2>1, QueueTypedStays, WorkersTypedStay
<1>2. CASE ServeOk(h) \/ ServeRefused(h) \/ ServeConflict(h)
    <2>1. UNCHANGED queue /\ \E outcome : Answer(h, outcome)
        BY <1>2 DEF ServeOk, ServeRefused, ServeConflict
    <2>2. WorkersTyped'
        BY <2>1, AnswerMoves, WorkersTypedMove, WorkersTypedStay DEF Moves
    <2> QED
        BY <2>1, <2>2, QueueTypedStays
<1>3. CASE SubmitPublished(h)
    <2>1. /\ handler[h] # Idle /\ UNCHANGED <<worker, managers>>
          /\ published' = published \cup {handler[h].req}
          /\ queue' = Put([req |-> handler[h].req, pos |-> 1, arg |-> "none"], queue)
        BY <1>3 DEF SubmitPublished, PublishChain, At
    <2>2. PICK r \in Requests : r = handler[h].req
        BY <2>1, CurrentState DEF Types, PipelineIInv, Call
    <2>3. Chain(r)' = Chain(r) /\ Len(Chain(r)) \in Nat /\ Len(Chain(r)) >= 3
        BY <2>1, TasksOfChain DEF Chain, Scheduled
    <2>4. PICK m \in Message : m = [req |-> r, pos |-> 1, arg |-> "none"]
        BY DEF Message, Results
    <2>5. /\ m.req \in published' /\ m.req = r /\ m.pos = 1
        BY <2>1, <2>2, <2>4
    <2>6. m.pos \in 1..Len(Chain(m.req)')
        BY <2>3, <2>5
    <2>7. InChain(m)'
        <3>1. Message' = Message
            BY DEF Message, Results
        <3> QED
            BY <2>5, <2>6, <3>1 DEF InChain
    <2> QED
        BY <2>1, <2>2, <2>4, <2>7, QueueTypedPut, WorkersTypedStay
<1> QED
    BY <1>1, <1>2, <1>3 DEF Serve

LEMMA DeliverRuns ==
    ASSUME Types, NEW w \in Workers, NEW m \in DOMAIN queue, Deliver(w, m)
    PROVE  \E x : /\ worker' = [worker EXCEPT ![w] = x] /\ Running(x) /\ x.msg = m
                  /\ x.at = 1 /\ x.phase = "run"
<1> DEFINE x == [msg |-> m, at |-> 1, phase |-> "run", tries |-> 0, result |-> "none",
                 password |-> 0]
<1>1. worker' = [worker EXCEPT ![w] = x]
    BY DEF Deliver
<1>2. InChain(m)
    BY Counts
<1>3. x \in Execution /\ x.msg = m /\ x.at = 1 /\ x.phase = "run"
    BY <1>2 DEF Execution, Phases, Results, InChain
<1>4. Len(StepsOf(m)) \in Nat /\ Len(StepsOf(m)) >= 3
    <2>1. TaskOf(m) \in TaskNames
        BY <1>2, TasksOfChain DEF TaskOf, InChain, Message
    <2> QED
        BY <2>1, ProgramSteps DEF StepsOf
<1> HIDE DEF x
<1>5. Running(x)
    BY <1>2, <1>3, <1>4 DEF Running
<1> QED
    BY <1>1, <1>3, <1>5

LEMMA WorkTyped ==
    ASSUME Types, [Next]_vars, NEW w \in Workers, Work(w)
    PROVE  QueueTyped' /\ WorkersTyped'
<1>1. ASSUME NEW m \in DOMAIN queue, Deliver(w, m) PROVE QueueTyped' /\ WorkersTyped'
    <2>1. queue' = Take(m, queue)
        BY <1>1 DEF Deliver
    <2>2. /\ \A n \in DOMAIN queue' : queue'[n] \in Nat \ {0} /\ n \in DOMAIN queue
        BY <2>1, Counts, TakeCounts
    <2>3. QueueTyped'
        BY <2>2, Counts, QueueTypedNext
    <2> QED
        BY <1>1, <2>3, DeliverRuns, WorkersTypedMove
<1>2. CASE Finish(w)
    <2>1. /\ worker[w] # Free /\ worker' = [worker EXCEPT ![w] = Free]
          /\ queue' = queue \/ (~IsLast(w) /\ queue' = Put(NextMessage(w), queue))
        BY <1>2 DEF Finish
    <2>2. QueueTyped'
        BY <2>1, NextInChain, QueueTypedPut, QueueTypedStays
    <2> QED
        BY <2>1, <2>2, WorkersTypedMove
<1>3. CASE Abandon(w)
    BY <1>3, WorkersTypedMove, QueueTypedStays DEF Abandon
<1>4. ASSUME NEW h \in Handlers, SayState(w, h) \/ SayFailed(w, h)
      PROVE  QueueTyped' /\ WorkersTyped'
    <2>1. UNCHANGED queue /\ \E x : Moves(w, x)
        <3>1. CASE SayState(w, h)
            BY <3>1, BecomesMoves DEF SayState, Doing, Tell, Phases
        <3>2. CASE SayFailed(w, h)
            BY <3>2, BecomesMoves DEF SayFailed, Tell, Phases
        <3> QED
            BY <1>4, <3>1, <3>2
    <2> QED
        BY <2>1, WorkersTypedMove, QueueTypedStays DEF Moves
<1>5. CASE TaskStep(w)
    <2>1. UNCHANGED queue
        BY <1>5, TaskFiles
    <2> QED
        BY <1>5, <2>1, TaskMoves, WorkersTypedMove, QueueTypedStays DEF Moves
<1>6. ASSUME NEW c \in cleanups, NexusCleanup(w, c) PROVE QueueTyped' /\ WorkersTyped'
    BY <1>6, QueueTypedStays, WorkersTypedStay DEF NexusCleanup
<1> QED
    BY <1>1, <1>2, <1>3, <1>4, <1>5, <1>6 DEF Work

LEMMA DisturbTyped ==
    ASSUME Types, [Next]_vars, Disturb
    PROVE  QueueTyped' /\ WorkersTyped'
<1>1. ASSUME NEW h \in Handlers, SubmitNotPublished(h) PROVE QueueTyped' /\ WorkersTyped'
    BY <1>1, QueueTypedStays, WorkersTypedStay DEF SubmitNotPublished
<1>2. ASSUME NEW h \in Handlers, ServeError(h) \/ TimeOut(h) PROVE QueueTyped' /\ WorkersTyped'
    <2>1. UNCHANGED queue /\ \E outcome : Answer(h, outcome)
        BY <1>2 DEF ServeError, TimeOut
    <2> QED
        BY <2>1, QueueTypedStays, AnswerMoves, WorkersTypedMove, WorkersTypedStay DEF Moves
<1>3. ASSUME NEW w \in Workers, WorkerDies(w) PROVE QueueTyped' /\ WorkersTyped'
    <2> DEFINE again == Put(worker[w].msg, queue)
    <2>1. /\ worker[w] # Free /\ worker' = [worker EXCEPT ![w] = Free]
          /\ queue' = again \/ (~IsLast(w) /\ queue' = Put(NextMessage(w), again))
        BY <1>3 DEF WorkerDies
    <2>2. \A n \in DOMAIN again : again[n] \in Nat \ {0} /\ InChain(n)
        <3>1. \A n \in DOMAIN queue : queue[n] \in Nat \ {0} /\ InChain(n)
            BY Counts
        <3>2. /\ DOMAIN again = DOMAIN queue \cup {worker[w].msg}
              /\ \A n \in DOMAIN again : again[n] \in Nat \ {0}
            BY <3>1, PutCounts
        <3> QED
            BY <2>1, <3>1, <3>2, NextInChain
    <2> HIDE DEF again
    <2>3. \A n \in DOMAIN queue' : queue'[n] \in Nat \ {0} /\ InChain(n)
        <3>1. CASE queue' = again
            BY <2>2, <3>1
        <3>2. CASE ~IsLast(w) /\ queue' = Put(NextMessage(w), again)
            <4>1. /\ DOMAIN queue' = DOMAIN again \cup {NextMessage(w)}
                  /\ \A n \in DOMAIN queue' : queue'[n] \in Nat \ {0}
                BY <2>2, <3>2, PutCounts
            <4> QED
                BY <2>1, <2>2, <3>2, <4>1, NextInChain
        <3> QED
            BY <2>1, <3>1, <3>2
    <2> QED
        BY <2>1, <2>3, QueueTypedNext, WorkersTypedMove
<1>4. ASSUME NEW w \in Workers, Redeliver(w) PROVE QueueTyped' /\ WorkersTyped'
    BY <1>4, NextInChain, QueueTypedPut, WorkersTypedStay DEF Redeliver
<1>5. ASSUME NEW w \in Workers, TaskRaises(w) PROVE QueueTyped' /\ WorkersTyped'
    <2>1. worker[w] # Free /\ Becomes(w, "raised") /\ UNCHANGED queue
        BY <1>5 DEF TaskRaises, StepRaises, Raise, Local
    <2> QED
        BY <2>1, BecomesMoves, QueueTypedStays, WorkersTypedMove DEF Moves, Phases
<1> QED
    BY <1>1, <1>2, <1>3, <1>4, <1>5 DEF Disturb

LEMMA PlacesTyped ==
    ASSUME Types, PipelineNext
    PROVE  QueueTyped' /\ WorkersTyped'
<1>1. [Next]_vars
    BY ApiStep DEF Types
<1>2. CASE Expire
    BY <1>1, <1>2, QueueTypedStays, WorkersTypedStay DEF Expire, ListExpired, MarkAsStale
<1> QED
    BY <1>1, <1>2, ServiceTyped, WorkTyped, DisturbTyped DEF PipelineNext

-----------------------------------------------------------------------------
(* What the workers keep has its types *)

StoresTyped ==
    /\ content \in [Requests -> SUBSET Contents]
    /\ bundle \in [Requests -> BundleInfo]
    /\ nexus \in [Requests -> SUBSET (NexusManagers \X NexusItems)]
    /\ password \in [Requests -> [NexusManagers -> Nat]]
    /\ configs \in [Requests -> SUBSET (NexusManagers \X Nat)]

BooksTyped ==
    /\ client \in [Handlers -> Workers \cup {CleanupJob, Nobody}]
    /\ job \in Requests \cup {Nobody, CleanupJob}
    /\ faults \in 0..MaxFaults

\* The steps that change what the workers keep.
LEMMA WhoStores ==
    ASSUME PipelineNext
    PROVE  \/ UNCHANGED <<content, bundle, nexusVars>>
           \/ \E w \in Workers : TaskStep(w)
           \/ \E w \in Workers, c \in cleanups : NexusCleanup(w, c)
           \/ \E h \in Handlers : ServeDeleteTemp(h)
BY DEF PipelineNext, SubmitRequest, SubmitRefused, Serve, SubmitPublished, SubmitFailed,
    ServeOn, ServeOk, ServeRefused, ServeConflict, Work, Deliver, Finish, Abandon, SayState,
    SayFailed, Tell, Expire, ListExpired, MarkAsStale, Disturb, SubmitNotPublished, ServeError,
    TimeOut, WorkerDies, Redeliver, TaskRaises, StepRaises, pipelineVars

LEMMA TaskStores ==
    ASSUME Types, NEW w \in Workers, TaskStep(w)
    PROVE  StoresTyped'
<1> DEFINE r == worker[w].msg.req
           t == Task(w)
<1>1. /\ worker[w] # Free /\ r \in Requests /\ t \in TaskNames
      /\ t \in TaskManagers => t \in managers[r]
      /\ worker[w] \in Execution
      /\ worker[w].at \in 1..Len(Program(t)) /\ StepOf(w) = Program(t)[worker[w].at]
    BY TaskDoes, BusyRuns DEF StepOf
<1>2. /\ StepOf(w) = "write_packages" => t \in PkgManagers
      /\ StepOf(w) \in NexusSteps => t \in NexusManagers
    BY <1>1, TasksOfChain, ProgramSteps
<1>3. /\ content \in [Requests -> SUBSET Contents]
      /\ bundle \in [Requests -> BundleInfo]
      /\ nexus \in [Requests -> SUBSET (NexusManagers \X NexusItems)]
      /\ password \in [Requests -> [NexusManagers -> Nat]]
      /\ configs \in [Requests -> SUBSET (NexusManagers \X Nat)]
    BY DEF Types, PipelineTypeOK
<1>4. worker[w].password \in Nat
    BY <1>1 DEF Execution
<1> HIDE DEF r, t
<1>5. CASE \/ CheckState(w, r) \/ QuietCall(w, r) \/ OpenDir(w, r) \/ Verify(w, r)
           \/ Resolve(w, r) \/ CheckCounts(w, r)
    BY <1>3, <1>5 DEF CheckState, QuietCall, OpenDir, Verify, Resolve, CheckCounts, nexusVars,
        StoresTyped
<1>6. CASE Unpack(w, r)
    BY <1>1, <1>3, <1>6 DEF Unpack, nexusVars, StoresTyped, Contents
<1>7. CASE WritePackages(w, r)
    <2>1. t \in PkgManagers /\ t = Task(w)
        BY <1>2, <1>7 DEF WritePackages, Doing, t
    <2> QED
        BY <1>1, <1>3, <1>7, <2>1 DEF WritePackages, nexusVars, StoresTyped, Contents
<1>8. CASE PrepareNexus(w, r)
    <2>1. t \in NexusManagers /\ t = Task(w)
        BY <1>2, <1>8 DEF PrepareNexus, Doing, t, NexusSteps
    <2>2. PICK items \in SUBSET NexusItems : nexus' = [nexus EXCEPT ![r] = @ \cup ({t} \X items)]
        BY <1>8, <2>1 DEF PrepareNexus, NexusItems
    <2>3. UNCHANGED <<content, bundle, password, configs>>
        BY <1>8 DEF PrepareNexus
    <2> QED
        BY <1>1, <1>3, <2>1, <2>2, <2>3 DEF StoresTyped
<1>9. CASE FinalizeNexus(w, r)
    <2>1. t \in NexusManagers /\ t = Task(w)
        BY <1>2, <1>9 DEF FinalizeNexus, Doing, t, NexusSteps
    <2>2. UNCHANGED <<content, bundle, configs>>
        BY <1>9 DEF FinalizeNexus
    <2>3. \/ UNCHANGED <<nexus, password>>
          \/ /\ nexus' = [nexus EXCEPT ![r] = (@ \ {<<t, "open">>}) \cup {<<t, "user">>}]
             /\ password' = [password EXCEPT ![r][t] = password[r][t] + 1]
        BY <1>9, <2>1 DEF FinalizeNexus
    <2>4. nexus' \in [Requests -> SUBSET (NexusManagers \X NexusItems)]
        <3>1. (nexus[r] \ {<<t, "open">>}) \cup {<<t, "user">>} \in
                  SUBSET (NexusManagers \X NexusItems)
            BY <1>1, <1>3, <2>1 DEF NexusItems
        <3> QED
            BY <1>1, <1>3, <2>3, <3>1
    <2>5. password' \in [Requests -> [NexusManagers -> Nat]]
        <3> DEFINE more == password[r][t] + 1
                   new == [password[r] EXCEPT ![t] = more]
        <3>1. more \in Nat
            BY <1>1, <1>3, <2>1
        <3> HIDE DEF more
        <3>2. new \in [NexusManagers -> Nat]
            BY <1>1, <1>3, <2>1, <3>1
        <3>3. password' = password \/ password' = [password EXCEPT ![r] = new]
            BY <2>3 DEF more
        <3> HIDE DEF new
        <3> QED
            BY <1>1, <1>3, <3>2, <3>3
    <2> QED
        BY <1>3, <2>2, <2>4, <2>5 DEF StoresTyped
<1>10. CASE GiveAccess(w, r)
    <2>1. t \in NexusManagers /\ t = Task(w)
        BY <1>2, <1>10 DEF GiveAccess, Doing, t, NexusSteps
    <2> QED
        BY <1>1, <1>3, <1>4, <1>10, <2>1 DEF GiveAccess, StoresTyped
<1>11. CASE OpenArchive(w, r) \/ CloseArchive(w, r) \/ SaveChecksum(w, r) \/ Aggregate(w, r)
    <2>1. UNCHANGED <<content, nexusVars>>
        BY <1>11 DEF OpenArchive, CloseArchive, SaveChecksum, Aggregate
    <2>2. bundle' \in [Requests -> BundleInfo]
        <3>0. bundle[r] \in BundleInfo
            BY <1>1, <1>3
        <3>1. CASE OpenArchive(w, r)
            <4>1. PICK v \in Workers \cup {Nobody} :
                      bundle' = [bundle EXCEPT ![r] = [@ EXCEPT !.writer = v, !.whole = FALSE,
                                                                !.sealed = FALSE]]
                BY <3>1 DEF OpenArchive
            <4> DEFINE b == [bundle[r] EXCEPT !.writer = v, !.whole = FALSE, !.sealed = FALSE]
            <4>2. b \in BundleInfo
                BY <3>0, <4>1 DEF BundleInfo
            <4>3. bundle' = [bundle EXCEPT ![r] = b]
                BY <4>1
            <4> QED
                BY <1>1, <1>3, <4>2, <4>3
        <3>2. CASE CloseArchive(w, r)
            <4> DEFINE whole == bundle[r].writer = w
                       b == [bundle[r] EXCEPT !.whole = whole, !.sealed = FALSE]
            <4>1. bundle' = [bundle EXCEPT ![r] = b]
                BY <3>2 DEF CloseArchive
            <4>2. whole \in BOOLEAN
                OBVIOUS
            <4> HIDE DEF whole
            <4>3. b \in BundleInfo
                BY <3>0, <4>2 DEF BundleInfo
            <4> QED
                BY <1>1, <1>3, <4>1, <4>3
        <3>3. CASE SaveChecksum(w, r)
            <4> DEFINE b == [bundle[r] EXCEPT !.sealed = TRUE]
            <4>1. bundle' = bundle \/ bundle' = [bundle EXCEPT ![r] = b]
                BY <3>3 DEF SaveChecksum
            <4>2. b \in BundleInfo
                BY <3>0 DEF BundleInfo
            <4> QED
                BY <1>1, <1>3, <4>1, <4>2
        <3>4. CASE Aggregate(w, r)
            <4> DEFINE listing == Listing(r)
                       b == [bundle[r] EXCEPT !.listed = listing]
            <4>1. bundle' = [bundle EXCEPT ![r] = b]
                BY <3>4 DEF Aggregate
            <4>2. listing \in Results
                BY DEF Listing, Results
            <4> HIDE DEF listing
            <4>3. b \in BundleInfo
                BY <3>0, <4>2 DEF BundleInfo
            <4> QED
                BY <1>1, <1>3, <4>1, <4>3
        <3> QED
            BY <1>11, <3>1, <3>2, <3>3, <3>4
    <2>3. StoresTyped'
        BY <1>3, <2>1, <2>2 DEF StoresTyped, nexusVars, BundleInfo, Results
    <2> QED
        BY <2>3
<1> QED
    BY <1>5, <1>6, <1>7, <1>8, <1>9, <1>10, <1>11, TaskDoes DEF r

LEMMA StoresStep ==
    ASSUME Types, PipelineNext
    PROVE  StoresTyped'
<1>0. /\ content \in [Requests -> SUBSET Contents]
      /\ bundle \in [Requests -> BundleInfo]
      /\ nexus \in [Requests -> SUBSET (NexusManagers \X NexusItems)]
      /\ password \in [Requests -> [NexusManagers -> Nat]]
      /\ configs \in [Requests -> SUBSET (NexusManagers \X Nat)]
    BY DEF Types, PipelineTypeOK
<1>1. CASE UNCHANGED <<content, bundle, nexusVars>>
    BY <1>0, <1>1 DEF StoresTyped, nexusVars
<1>2. ASSUME NEW w \in Workers, NEW c \in cleanups, NexusCleanup(w, c)
      PROVE  StoresTyped'
    <2>1. /\ UNCHANGED <<content, bundle, password, configs>>
          /\ \/ nexus' = nexus
             \/ nexus' = [nexus EXCEPT ![c[1]] = @ \ ({c[2]} \X NexusItems)]
        BY <1>2 DEF NexusCleanup
    <2>2. nexus' \in [Requests -> SUBSET (NexusManagers \X NexusItems)]
        BY <1>0, <2>1
    <2> QED
        BY <1>0, <2>1, <2>2 DEF StoresTyped
<1>3. ASSUME NEW h \in Handlers, ServeDeleteTemp(h)
      PROVE  StoresTyped'
    BY <1>0, <1>3 DEF ServeDeleteTemp, StoresTyped, nexusVars
<1> QED
    BY <1>1, <1>2, <1>3, TaskStores, WhoStores

LEMMA BooksStep ==
    ASSUME Types, PipelineNext
    PROVE  BooksTyped'
<1>0. /\ client \in [Handlers -> Workers \cup {CleanupJob, Nobody}]
      /\ job \in Requests \cup {Nobody, CleanupJob}
      /\ faults \in 0..MaxFaults
    BY DEF Types, PipelineTypeOK
<1>1. ASSUME NEW h \in Handlers, NEW outcome, Answer(h, outcome)
      PROVE  /\ client' \in [Handlers -> Workers \cup {CleanupJob, Nobody}]
             /\ job' \in Requests \cup {Nobody, CleanupJob}
    BY <1>0, <1>1 DEF Answer
<1>2. \A kind : Fault(kind) => faults' \in 0..MaxFaults
    BY <1>0, FaultAssumption DEF Fault
<1>3. ASSUME NEW h \in Handlers, SubmitRequest(h) \/ SubmitRefused(h) \/ Serve(h)
      PROVE  BooksTyped'
    <2>1. CASE SubmitRequest(h) \/ SubmitRefused(h) \/ SubmitFailed(h) \/ ServeOn(h)
               \/ ServeDeleteTemp(h) \/ SubmitPublished(h)
        BY <1>0, <2>1 DEF SubmitRequest, SubmitRefused, SubmitFailed, ServeOn, ServeDeleteTemp,
            SubmitPublished, pipelineVars, BooksTyped
    <2>2. CASE ServeOk(h) \/ ServeRefused(h) \/ ServeConflict(h)
        BY <1>0, <1>1, <1>2, <2>2 DEF ServeOk, ServeRefused, ServeConflict, BooksTyped
    <2> QED
        BY <1>3, <2>1, <2>2 DEF Serve
<1>4. ASSUME NEW w \in Workers, Work(w)
      PROVE  BooksTyped'
    <2>1. ASSUME NEW m \in DOMAIN queue, Deliver(w, m) PROVE BooksTyped'
        BY <1>0, <2>1 DEF Deliver, BooksTyped
    <2>2. CASE Finish(w) \/ Abandon(w)
        BY <1>0, <2>2 DEF Finish, Abandon, BooksTyped
    <2>3. ASSUME NEW h \in Handlers, SayState(w, h) \/ SayFailed(w, h) PROVE BooksTyped'
        <3>1. client' = [client EXCEPT ![h] = w] /\ UNCHANGED <<job, faults>>
            BY <2>3 DEF SayState, SayFailed, Tell
        <3> QED
            BY <1>0, <3>1 DEF BooksTyped
    <2>4. CASE TaskStep(w)
        BY <1>0, <2>4, TaskFiles DEF TaskStep, Local, BooksTyped
    <2>5. ASSUME NEW c \in cleanups, NexusCleanup(w, c) PROVE BooksTyped'
        BY <1>0, <1>2, <2>5 DEF NexusCleanup, BooksTyped
    <2> QED
        BY <1>4, <2>1, <2>2, <2>3, <2>4, <2>5 DEF Work
<1>5. CASE Expire
    BY <1>0, <1>5 DEF Expire, ListExpired, MarkAsStale, BooksTyped
<1>6. CASE Disturb
    <2>1. ASSUME NEW h \in Handlers, SubmitNotPublished(h) PROVE BooksTyped'
        BY <1>0, <1>2, <2>1 DEF SubmitNotPublished, BooksTyped
    <2>2. ASSUME NEW h \in Handlers, ServeError(h) \/ TimeOut(h) PROVE BooksTyped'
        BY <1>1, <1>2, <2>2 DEF ServeError, TimeOut, BooksTyped
    <2>3. ASSUME NEW w \in Workers, WorkerDies(w) PROVE BooksTyped'
        BY <1>0, <1>2, <2>3 DEF WorkerDies, Forget, BooksTyped
    <2>4. ASSUME NEW w \in Workers, Redeliver(w) \/ TaskRaises(w) PROVE BooksTyped'
        BY <1>0, <1>2, <2>4 DEF Redeliver, TaskRaises, Local, BooksTyped
    <2> QED
        BY <1>6, <2>1, <2>2, <2>3, <2>4 DEF Disturb
<1> QED
    BY <1>3, <1>4, <1>5, <1>6 DEF PipelineNext

LEMMA TypesStep ==
    ASSUME Types, PipelineNext
    PROVE  Types'
<1>1. PipelineIInv'
    BY PipelineStep DEF Types
<1>2. QueueTyped' /\ WorkersTyped' /\ StoresTyped' /\ BooksTyped'
    BY PlacesTyped, StoresStep, BooksStep
<1>3. PipelineTypeOK'
    BY <1>1, <1>2 DEF PipelineTypeOK, PipelineIInv, IInv, QueueTyped, WorkersTyped, StoresTyped,
        BooksTyped
<1>4. Located'
    BY <1>2, SubmittedBefore DEF Located, QueueTyped, WorkersTyped
<1> QED
    BY <1>1, <1>3, <1>4 DEF Types

LEMMA TypesStutter ==
    ASSUME Types, UNCHANGED allVars
    PROVE  Types'
<1>1. PipelineIInv'
    BY PipelineStutter DEF Types
<1>2. UNCHANGED vars /\ UNCHANGED <<queue, worker, client, content, bundle, nexus, password,
                                    configs, job, faults>>
    BY DEF allVars, pipelineVars, nexusVars
<1>3. [Next]_vars
    BY <1>2
<1>4. QueueTyped' /\ WorkersTyped'
    BY <1>2, <1>3, QueueTypedStays, WorkersTypedStay
<1>5. StoresTyped' /\ BooksTyped'
    BY <1>2 DEF Types, PipelineTypeOK, StoresTyped, BooksTyped
<1>6. PipelineTypeOK'
    BY <1>1, <1>4, <1>5 DEF PipelineTypeOK, PipelineIInv, IInv, QueueTyped, WorkersTyped,
        StoresTyped, BooksTyped
<1>7. \A r \in published' : Submitted(r)'
    BY <1>2 DEF Types, Located, Submitted, vars
<1> QED
    BY <1>1, <1>4, <1>6, <1>7 DEF Types, Located, QueueTyped, WorkersTyped

LEMMA InitTypes == PipelineInit => Types
<1> SUFFICES ASSUME PipelineInit PROVE Types
    OBVIOUS
<1>1. PipelineIInv /\ TypeOK
    BY InitPipelineIInv DEF PipelineIInv, IInv
<1>2. DOMAIN queue = {}
    BY DEF PipelineInit, EmptyBag, SetToBag
<1>3. PipelineTypeOK
    BY <1>1, <1>2, FaultAssumption DEF PipelineTypeOK, PipelineInit, BundleInfo, Results, Contents
<1>4. Located
    BY <1>2, FreeIsIdle DEF Located, PipelineInit, Init
<1> QED
    BY <1>1, <1>3, <1>4 DEF Types

LEMMA TypesInvariance == PipelineSpec => []Types
BY InitTypes, TypesStep, TypesStutter, PTL DEF PipelineSpec

\* Whatever fails, is repeated or is delivered twice, every message and every execution is one
\* the code could hold, and what is kept of a request has its type (the messages of
\* create_request, the tasks of cachito/workers/tasks).
THEOREM PipelineTypeCorrect == PipelineSpec => []PipelineTypeOK
BY TypesInvariance, PTL DEF Types

\* Every message is for a task of the chain of its request and every execution is at a step
\* of its task: a redelivered or repeated task never runs past its end, nor the chain.
THEOREM PipelineStaysInChains == PipelineSpec => []Located
BY TypesInvariance, PTL DEF Types

=============================================================================
