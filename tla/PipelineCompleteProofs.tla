----------------------- MODULE PipelineCompleteProofs -----------------------
(***************************************************************************)
(* What a complete request is worth.  Two theorems about a deployment with *)
(* any number of requests, workers and faults:                             *)
(*                                                                         *)
(*   as long as no message is delivered a second time, a complete request  *)
(*   can be consumed (CompleteRequestsAreUsable);                          *)
(*                                                                         *)
(*   with one API thread a complete request has its packages, even if      *)
(*   messages are delivered twice (CompleteRequestsHavePackages).          *)
(*                                                                         *)
(* The first rests on one token: a message or an execution, but never two, *)
(* is for a request, so that no one undoes what the tasks before it left   *)
(* (Progressing).  The second rests on the counts that finalize_request    *)
(* compares before it completes a request (CountedHasPackages).            *)
(***************************************************************************)
EXTENDS PipelineProofs

-----------------------------------------------------------------------------
(* Calls *)

\* A thread goes on with its call, ends it, or takes a new one.
LEMMA CallGoesOn ==
    ASSUME IInv, [Next]_vars, NEW h \in Handlers, handler'[h] # Idle
    PROVE  \/ /\ handler[h] # Idle
              /\ handler'[h].op = handler[h].op /\ handler'[h].req = handler[h].req
              /\ handler'[h].state = handler[h].state
           \/ /\ handler'[h].op = "create" /\ handler'[h].state = "failed"
              /\ ~Submitted(handler'[h].req)
              /\ \A g \in Handlers : g # h => handler'[g] = handler[g]
              /\ UNCHANGED published
           \/ /\ handler'[h].op = "patch"
              /\ \E reason : PatchBegin(h, handler'[h].req, handler'[h].state, reason)
<1>0. handler[h] # Idle => handler[h] \in Call
    BY CurrentState
<1>1. CASE handler'[h] = handler[h]
    BY <1>1
<1>2. ASSUME NEW g \in Handlers, NEW r \in Requests, NEW ms \in SUBSET PkgManagers,
             CreateRequest(g, r, ms), handler'[h] # handler[h]
      PROVE  /\ handler'[h].op = "create" /\ handler'[h].state = "failed"
             /\ ~Submitted(handler'[h].req)
             /\ \A f \in Handlers : f # h => handler'[f] = handler[f]
             /\ UNCHANGED published
    BY <1>2 DEF CreateRequest, IInv, TypeOK
<1>3. ASSUME NEW g \in Handlers, NEW r \in Requests, NEW state \in AskedStates,
             NEW reason \in Reasons, PatchBegin(g, r, state, reason), handler'[h] # handler[h]
      PROVE  /\ handler'[h].op = "patch"
             /\ \E why : PatchBegin(h, handler'[h].req, handler'[h].state, why)
    <2>1. g = h
        BY <1>3 DEF PatchBegin, IInv, TypeOK
    <2>2. /\ handler'[h].op = "patch" /\ handler'[h].req = r /\ handler'[h].state = state
        BY <1>3, <2>1 DEF PatchBegin, IInv, TypeOK
    <2> QED
        BY <1>3, <2>1, <2>2
<1>4. ASSUME NEW g \in Handlers, HandlerStep(g), handler'[h] # handler[h]
      PROVE  /\ handler[h] # Idle
             /\ handler'[h].op = handler[h].op /\ handler'[h].req = handler[h].req
             /\ handler'[h].state = handler[h].state
    <2>1. g = h
        BY <1>4 DEF HandlerStep, RefuseReplacements, PublishChain, PublishFails, FailUnscheduled,
            PatchRead, PatchRefuse, Commit, HandlerFails, DeleteBundle, DeleteTemp, DeleteLog,
            ScheduleCleanups, Respond, Advance, IInv, TypeOK
    <2>2. handler[h] # Idle
        BY <1>4, <2>1 DEF HandlerStep, RefuseReplacements, PublishChain, PublishFails,
            FailUnscheduled, PatchRead, PatchRefuse, Commit, HandlerFails, DeleteBundle,
            DeleteTemp, DeleteLog, ScheduleCleanups, At
    <2> DEFINE y == handler[h]
               z == handler'[h]
               Same == z.op = y.op /\ z.req = y.req /\ z.state = y.state
    <2>3. y \in Call /\ handler \in [Handlers -> Call \cup {Idle}]
        BY <1>0, <2>2 DEF IInv, TypeOK
    <2>4. ASSUME NEW step, Advance(h, step)
          PROVE  Same
        <3>1. z = [y EXCEPT !.step = step]
            BY <2>3, <2>4 DEF Advance
        <3> QED
            BY <2>3, <3>1 DEF Call
    <2>5. ~Respond(h)
        BY <2>3 DEF Respond
    <2>6. ASSUME PublishFails(h)
          PROVE  Same
        <3>1. z = [y EXCEPT !.step = "begun", !.began = clock]
            BY <2>3, <2>6 DEF PublishFails
        <3> QED
            BY <2>3, <3>1 DEF Call
    <2>7. ASSUME FailUnscheduled(h)
          PROVE  Same
        <3>1. z = [y EXCEPT !.step = "read", !.seen = Len(rows[handler[h].req])]
            BY <2>3, <2>5, <2>7 DEF FailUnscheduled
        <3> QED
            BY <2>3, <3>1 DEF Call
    <2>8. ASSUME PatchRead(h)
          PROVE  Same
        <3>1. PICK adds : z = [y EXCEPT !.step = "read", !.seen = Len(rows[handler[h].req]),
                                        !.adds = adds]
            BY <2>3, <2>8 DEF PatchRead
        <3> QED
            BY <2>3, <3>1 DEF Call
    <2>9. \/ Respond(h) \/ (\E step : Advance(h, step)) \/ PublishFails(h)
          \/ FailUnscheduled(h) \/ PatchRead(h)
        BY <1>4, <2>1 DEF HandlerStep, RefuseReplacements, PublishChain, PatchRefuse, Commit,
            HandlerFails, DeleteBundle, DeleteTemp, DeleteLog, ScheduleCleanups
    <2> QED
        BY <2>2, <2>4, <2>5, <2>6, <2>7, <2>8, <2>9
<1>5. CASE UNCHANGED handler
    BY <1>1, <1>5
<1> QED
    BY <1>1, <1>2, <1>3, <1>4, <1>5 DEF Next, vars, WorkerWrites, RunCleanup

Creating(h) == handler[h] # Idle /\ handler[h].op = "create"

\* A request has one call that creates it, and is not published before it ends.
CreatedOnce ==
    /\ \A h \in Handlers : Creating(h) => handler[h].req \notin published
    /\ \A h, g \in Handlers : Creating(h) /\ Creating(g) /\ handler[h].req = handler[g].req
           => h = g

LEMMA CreatedOnceStep ==
    ASSUME Types, CreatedOnce, [Next]_vars
    PROVE  CreatedOnce'
<1>0. IInv
    BY DEF Types, PipelineIInv
<1>1. ASSUME NEW h \in Handlers, Creating(h)'
      PROVE  \/ Creating(h) /\ handler'[h].req = handler[h].req
             \/ /\ ~Submitted(handler'[h].req) /\ UNCHANGED published
                /\ \A g \in Handlers : g # h => handler'[g] = handler[g]
    BY <1>0, <1>1, CallGoesOn DEF Creating
<1>2. \A h \in Handlers : Creating(h) => Submitted(handler[h].req)
    BY <1>0, CurrentState DEF Creating, Submitted
<1>3. ASSUME NEW h \in Handlers, Creating(h)'
      PROVE  handler'[h].req \notin published'
    <2>1. CASE Creating(h) /\ handler'[h].req = handler[h].req
        <3>1. CASE published' = published
            BY <2>1, <3>1 DEF CreatedOnce
        <3>2. CASE published' # published
            <4>1. PICK g \in Handlers : PublishChain(g)
                BY <3>2 DEF Next, vars, HandlerStep, CreateRequest, RefuseReplacements,
                    PublishFails, FailUnscheduled, PatchBegin, PatchRead, PatchRefuse, Commit,
                    HandlerFails, DeleteBundle, DeleteTemp, DeleteLog, ScheduleCleanups,
                    WorkerWrites, RunCleanup
            <4>2. Creating(g) /\ published' = published \cup {handler[g].req}
                  /\ handler'[g] = Idle
                BY <4>1 DEF PublishChain, At, Creating, Respond, Types, PipelineIInv, IInv, TypeOK
            <4>3. g # h
                BY <1>3, <4>2 DEF Creating
            <4> QED
                BY <2>1, <4>2, <4>3 DEF CreatedOnce
        <3> QED
            BY <3>1, <3>2
    <2>2. CASE ~Submitted(handler'[h].req) /\ UNCHANGED published
        BY <2>2 DEF Types, Located
    <2> QED
        BY <1>1, <1>3, <2>1, <2>2
<1>4. ASSUME NEW h \in Handlers, NEW g \in Handlers, Creating(h)', Creating(g)',
             handler'[h].req = handler'[g].req, h # g
      PROVE  FALSE
    <2>1. CASE /\ Creating(h) /\ handler'[h].req = handler[h].req
               /\ Creating(g) /\ handler'[g].req = handler[g].req
        BY <1>4, <2>1 DEF CreatedOnce
    <2>2. CASE /\ ~Submitted(handler'[h].req) /\ handler'[g] = handler[g]
        BY <1>2, <1>4, <2>2 DEF Creating
    <2>3. CASE /\ ~Submitted(handler'[g].req) /\ handler'[h] = handler[h]
        BY <1>2, <1>4, <2>3 DEF Creating
    <2> QED
        BY <1>1, <1>4, <2>1, <2>2, <2>3
<1> QED
    BY <1>3, <1>4 DEF CreatedOnce

-----------------------------------------------------------------------------
(* Without a second delivery there is one token per request *)

NoRedelivery == "redelivery" \notin FaultKinds

\* A worker has done with its message, or gives it back.
Ends(w) ==
    /\ worker[w] # Free /\ worker' = [worker EXCEPT ![w] = Free]
    /\ \/ UNCHANGED queue
       \/ ~IsLast(w) /\ worker[w].phase = "returned" /\ queue' = Put(NextMessage(w), queue)
       \/ queue' = Put(worker[w].msg, queue)

LEMMA Flow ==
    ASSUME NoRedelivery, Types, PipelineNext
    PROVE  \/ UNCHANGED <<queue, worker>>
           \/ \E h \in Handlers : SubmitPublished(h)
           \/ \E w \in Workers : \E m \in DOMAIN queue : Deliver(w, m)
           \/ \E w \in Workers : Ends(w)
           \/ \E w \in Workers : \E x : worker[w] # Free /\ Moves(w, x) /\ UNCHANGED queue
<1>1. ASSUME NEW h \in Handlers, NEW outcome, Answer(h, outcome), UNCHANGED queue
      PROVE  \/ UNCHANGED <<queue, worker>>
             \/ \E w \in Workers : \E x : worker[w] # Free /\ Moves(w, x) /\ UNCHANGED queue
    BY <1>1, AnswerMoves
<1>2. ASSUME NEW h \in Handlers, SubmitRequest(h) \/ SubmitRefused(h) \/ Serve(h)
      PROVE  \/ UNCHANGED <<queue, worker>>
             \/ SubmitPublished(h)
             \/ \E outcome : Answer(h, outcome) /\ UNCHANGED queue
    BY <1>2 DEF SubmitRequest, SubmitRefused, Serve, SubmitFailed, ServeOn, ServeDeleteTemp,
        ServeOk, ServeRefused, ServeConflict, pipelineVars
<1>3. ASSUME NEW w \in Workers, Work(w)
      PROVE  \/ UNCHANGED <<queue, worker>>
             \/ \E m \in DOMAIN queue : Deliver(w, m)
             \/ Ends(w)
             \/ \E x : worker[w] # Free /\ Moves(w, x) /\ UNCHANGED queue
    <2>1. CASE Finish(w) \/ Abandon(w)
        BY <2>1 DEF Finish, Abandon, Ends
    <2>2. ASSUME NEW h \in Handlers, SayState(w, h)
          PROVE  \E x : worker[w] # Free /\ Moves(w, x) /\ UNCHANGED queue
        BY <2>2, BecomesMoves DEF SayState, Doing, Tell, Phases
    <2>3. ASSUME NEW h \in Handlers, SayFailed(w, h)
          PROVE  \E x : worker[w] # Free /\ Moves(w, x) /\ UNCHANGED queue
        BY <2>3, BecomesMoves DEF SayFailed, Tell, Phases
    <2>4. CASE TaskStep(w)
        BY <2>4, TaskMoves, TaskFiles
    <2>5. ASSUME NEW c \in cleanups, NexusCleanup(w, c)
          PROVE  UNCHANGED <<queue, worker>>
        BY <2>5 DEF NexusCleanup
    <2> QED
        BY <1>3, <2>1, <2>2, <2>3, <2>4, <2>5 DEF Work
<1>4. CASE Expire
    BY <1>4 DEF Expire, ListExpired, MarkAsStale
<1>5. ASSUME NEW w \in Workers, WorkerDies(w) \/ Redeliver(w) \/ TaskRaises(w)
      PROVE  Ends(w) \/ \E x : worker[w] # Free /\ Moves(w, x) /\ UNCHANGED queue
    <2>1. CASE WorkerDies(w)
        BY <2>1 DEF WorkerDies, NoRedelivery, Fault, Ends
    <2>2. CASE Redeliver(w)
        BY <2>2 DEF Redeliver, NoRedelivery, Fault
    <2>3. CASE TaskRaises(w)
        <3>1. worker[w] # Free /\ Becomes(w, "raised") /\ UNCHANGED queue
            BY <2>3 DEF TaskRaises, StepRaises, Raise, Local
        <3> QED
            BY <3>1, BecomesMoves DEF Phases
    <2> QED
        BY <1>5, <2>1, <2>2, <2>3
<1>6. ASSUME NEW h \in Handlers, SubmitNotPublished(h) \/ ServeError(h) \/ TimeOut(h)
      PROVE  \/ UNCHANGED <<queue, worker>>
             \/ \E outcome : Answer(h, outcome) /\ UNCHANGED queue
    BY <1>6 DEF SubmitNotPublished, ServeError, TimeOut
<1> QED
    BY <1>1, <1>2, <1>3, <1>4, <1>5, <1>6 DEF PipelineNext, Disturb

\* At most one message or execution is for a request.
OneToken ==
    /\ \A m \in DOMAIN queue : queue[m] = 1
    /\ \A m, n \in DOMAIN queue : m.req = n.req => m = n
    /\ \A w \in Workers : worker[w] # Free =>
           \A m \in DOMAIN queue : worker[w].msg.req # m.req
    /\ \A v, w \in Workers :
           worker[v] # Free /\ worker[w] # Free /\ worker[v].msg.req = worker[w].msg.req => v = w

LEMMA PutNew ==
    ASSUME Types, NEW m, m \notin DOMAIN queue, queue' = Put(m, queue)
    PROVE  /\ DOMAIN queue' = DOMAIN queue \cup {m} /\ queue'[m] = 1
           /\ \A n \in DOMAIN queue : queue'[n] = queue[n]
<1>1. \A n \in DOMAIN queue : queue[n] \in Nat \ {0}
    BY Counts
<1>2. /\ DOMAIN queue' = DOMAIN queue \cup {m}
      /\ queue'[m] = Copies(m, queue) + 1
      /\ \A n \in DOMAIN queue \ {m} : queue'[n] = queue[n]
    BY <1>1, PutCounts
<1>3. Copies(m, queue) = 0
    BY DEF Copies
<1> QED
    BY <1>2, <1>3

LEMMA OneTokenStep ==
    ASSUME NoRedelivery, Types, CreatedOnce, OneToken, PipelineNext
    PROVE  OneToken'
<1>0. \A n \in DOMAIN queue : queue[n] \in Nat \ {0} /\ InChain(n)
    BY Counts
<1>w. worker \in [Workers -> Execution \cup {Free}]
    BY DEF Types, PipelineTypeOK
<1>1. CASE UNCHANGED <<queue, worker>>
    BY <1>1 DEF OneToken
<1>2. ASSUME NEW h \in Handlers, SubmitPublished(h)
      PROVE  OneToken'
    <2>1. PICK m : m = [req |-> handler[h].req, pos |-> 1, arg |-> "none"]
        OBVIOUS
    <2>2. /\ queue' = Put(m, queue) /\ worker' = worker /\ m.req \notin published
        BY <1>2, <2>1 DEF SubmitPublished, PublishChain, At, CreatedOnce, Creating
    <2>3. m \notin DOMAIN queue /\ \A n \in DOMAIN queue : n.req # m.req
        BY <1>0, <2>2 DEF InChain
    <2>4. /\ DOMAIN queue' = DOMAIN queue \cup {m} /\ queue'[m] = 1
          /\ \A n \in DOMAIN queue : queue'[n] = queue[n]
        BY <2>2, <2>3, PutNew
    <2>5. \A w \in Workers : worker[w] # Free => worker[w].msg.req # m.req
        BY <2>2, BusyRuns
    <2> QED
        BY <2>2, <2>3, <2>4, <2>5 DEF OneToken
<1>3. ASSUME NEW w \in Workers, NEW m \in DOMAIN queue, Deliver(w, m)
      PROVE  OneToken'
    <2>1. PICK x : worker' = [worker EXCEPT ![w] = x] /\ x.msg = m
        BY <1>3, DeliverRuns
    <2>2. queue' = Take(m, queue) /\ queue[m] = 1
        BY <1>3 DEF Deliver, OneToken
    <2>3. /\ DOMAIN queue' = DOMAIN queue \ {m}
          /\ \A n \in DOMAIN queue' : queue'[n] = queue[n]
        BY <1>0, <2>2, TakeCounts
    <2>4. /\ worker'[w].msg = m
          /\ \A v \in Workers : v # w => worker'[v] = worker[v]
        BY <1>w, <2>1
    <2> QED
        BY <2>3, <2>4 DEF OneToken
<1>4. ASSUME NEW w \in Workers, Ends(w)
      PROVE  OneToken'
    <2>1. /\ worker'[w] = Free
          /\ \A v \in Workers : v # w => worker'[v] = worker[v]
        BY <1>w, <1>4 DEF Ends
    <2>2. CASE UNCHANGED queue
        BY <2>1, <2>2 DEF OneToken
    <2>3. ASSUME NEW m, m.req = worker[w].msg.req, queue' = Put(m, queue)
          PROVE  OneToken'
        <3>1. worker[w] # Free
            BY <1>4 DEF Ends
        <3>2. m \notin DOMAIN queue /\ \A n \in DOMAIN queue : n.req # m.req
            BY <2>3, <3>1 DEF OneToken
        <3>3. /\ DOMAIN queue' = DOMAIN queue \cup {m} /\ queue'[m] = 1
              /\ \A n \in DOMAIN queue : queue'[n] = queue[n]
            BY <2>3, <3>2, PutNew
        <3>4. \A v \in Workers : worker'[v] # Free => worker'[v].msg.req # m.req
            BY <2>1, <2>3, <3>1 DEF OneToken
        <3> QED
            BY <2>1, <3>2, <3>3, <3>4 DEF OneToken
    <2> QED
        BY <1>4, <2>2, <2>3, NextInChain DEF Ends
<1>5. ASSUME NEW w \in Workers, NEW x, worker[w] # Free, Moves(w, x), UNCHANGED queue
      PROVE  OneToken'
    <2>1. /\ worker'[w].msg = worker[w].msg
          /\ \A v \in Workers : v # w => worker'[v] = worker[v]
        BY <1>w, <1>5 DEF Moves
    <2> QED
        BY <1>5, <2>1 DEF OneToken
<1> QED
    BY <1>1, <1>2, <1>3, <1>4, <1>5, Flow

-----------------------------------------------------------------------------
(* Completion *)

\* A row of a request comes from a thread that was asked for its state.
LEMMA HasBeenNew ==
    ASSUME IInv, [Next]_vars, NEW r \in Requests, NEW states, HasBeen(r, states)'
    PROVE  \/ HasBeen(r, states)
           \/ rows[r] = <<>> /\ "in_progress" \in states
           \/ \E h \in Handlers : /\ handler[h] # Idle /\ handler[h].req = r
                                  /\ handler[h].state \in states /\ Commit(h)
<1>1. CASE rows'[r] = rows[r]
    BY <1>1 DEF HasBeen
<1>2. CASE rows'[r] # rows[r]
    <2>0. Next /\ rows[r] \in Seq(Row)
        BY <1>2 DEF vars, IInv, TypeOK
    <2>1. PICK i \in DOMAIN rows'[r] : rows'[r][i].state \in states
        BY DEF HasBeen
    <2>2. CASE \E row : rows[r] = <<>> /\ rows'[r] = <<row>> /\ row.state = "in_progress"
        BY <2>1, <2>2
    <2>3. ASSUME NEW h \in Handlers, handler[h] # Idle, handler[h].req = r, Commit(h),
                 handler[h].adds,
                 rows'[r] = Append(rows[r], [state |-> handler[h].state,
                                             reason |-> handler[h].reason,
                                             updated |-> handler[h].began,
                                             seen |-> handler[h].seen])
          PROVE  HasBeen(r, states) \/ handler[h].state \in states
        <3> DEFINE row == [state |-> handler[h].state, reason |-> handler[h].reason,
                           updated |-> handler[h].began, seen |-> handler[h].seen]
        <3>1. row \in Row /\ row.state = handler[h].state
            BY <2>0, <2>3, CommittedRow
        <3>2. rows'[r] = Append(rows[r], row)
            BY <2>3
        <3> HIDE DEF row
        <3>3. /\ Len(rows'[r]) = Len(rows[r]) + 1 /\ Len(rows[r]) \in Nat
              /\ \A j \in 1..Len(rows[r]) : rows'[r][j] = rows[r][j]
              /\ rows'[r][Len(rows[r]) + 1] = row
              /\ DOMAIN rows'[r] = 1..Len(rows'[r]) /\ DOMAIN rows[r] = 1..Len(rows[r])
            BY <2>0, <3>1, <3>2, Appended
        <3>4. i \in 1..Len(rows[r]) \/ i = Len(rows[r]) + 1
            BY <2>1, <3>3
        <3> QED
            BY <2>1, <3>1, <3>3, <3>4 DEF HasBeen
    <2> QED
        BY <1>2, <2>0, <2>2, <2>3, WhoCommits
<1> QED
    BY <1>1, <1>2

LEMMA HasBeenStays ==
    ASSUME IInv, [Next]_vars, NEW r \in Requests, NEW states, HasBeen(r, states)
    PROVE  HasBeen(r, states)'
<1>1. CASE Next
    BY <1>1, HasBeenLasts
<1>2. CASE UNCHANGED vars
    BY <1>2 DEF vars, HasBeen
<1> QED
    BY <1>1, <1>2

\* A PATCH is sent by a task, by the callback of a failed one, or by the cleanup job.
LEMMA WhoCalls ==
    ASSUME Types, PipelineNext, NEW h \in Handlers, handler[h] = Idle, handler'[h] # Idle,
           handler'[h].op = "patch"
    PROVE  \/ \E w \in Workers : SayState(w, h)
           \/ \E w \in Workers : SayFailed(w, h)
           \/ MarkAsStale(h)
<1>0. handler \in [Handlers -> Call \cup {Idle}]
    BY DEF Types, PipelineTypeOK, TypeOK
<1>1. handler' # handler
    OBVIOUS
<1>2. ASSUME NEW g \in Handlers, HandlerStep(g) PROVE FALSE
    <2>1. handler[g] # Idle /\ \E x : handler' = [handler EXCEPT ![g] = x]
        BY <1>1, <1>2 DEF HandlerStep, RefuseReplacements, PublishChain, PublishFails,
            FailUnscheduled, PatchRead, PatchRefuse, Commit, HandlerFails, DeleteBundle,
            DeleteTemp, DeleteLog, ScheduleCleanups, At, Respond, Advance
    <2> QED
        BY <1>0, <2>1
<1>3. ASSUME NEW g \in Handlers,
             \/ SubmitRequest(g) \/ SubmitRefused(g) \/ Serve(g) \/ SubmitNotPublished(g)
             \/ ServeError(g)
      PROVE  FALSE
    <2>1. ASSUME SubmitRequest(g) PROVE FALSE
        BY <1>0, <2>1 DEF SubmitRequest, CreateRequest
    <2>2. ~SubmitRequest(g) => HandlerStep(g)
        BY <1>3 DEF HandlerStep, Serve, SubmitRefused, SubmitPublished, SubmitFailed, ServeOn,
            ServeDeleteTemp, ServeOk, ServeRefused, ServeConflict, ServeError,
            SubmitNotPublished
    <2> QED
        BY <1>2, <2>1, <2>2
<1>4. ASSUME NEW g \in Handlers, TimeOut(g) PROVE FALSE
    BY <1>1, <1>4 DEF TimeOut, vars
<1>5. ASSUME NEW w \in Workers,
             \/ \E m \in DOMAIN queue : Deliver(w, m)
             \/ Finish(w) \/ Abandon(w) \/ WorkerDies(w) \/ Redeliver(w) \/ TaskRaises(w)
             \/ \E c \in cleanups : NexusCleanup(w, c)
      PROVE  FALSE
    BY <1>1, <1>5 DEF Deliver, Finish, Abandon, WorkerDies, Redeliver, TaskRaises, Local,
        NexusCleanup, RunCleanup, vars
<1>6. ASSUME NEW w \in Workers, TaskStep(w) PROVE FALSE
    BY <1>1, <1>6, TaskFiles
<1>7. ASSUME NEW w \in Workers, NEW g \in Handlers, SayState(w, g) \/ SayFailed(w, g)
      PROVE  g = h
    <2>1. \E x : handler' = [handler EXCEPT ![g] = x]
        BY <1>7 DEF SayState, SayFailed, Tell, PatchBegin
    <2> QED
        BY <1>0, <2>1
<1>8. ASSUME NEW g \in Handlers, MarkAsStale(g) PROVE g = h
    BY <1>0, <1>8 DEF MarkAsStale, PatchBegin
<1>9. ASSUME ListExpired PROVE FALSE
    BY <1>1, <1>9 DEF ListExpired, vars
<1> QED
    BY <1>3, <1>4, <1>5, <1>6, <1>7, <1>8, <1>9 DEF PipelineNext, Work, Expire, Disturb

\* The request has a complete row, or is about to get one.
Completing(r) ==
    \/ HasBeen(r, {"complete"})
    \/ \E h \in Handlers : /\ handler[h] # Idle /\ handler[h].req = r
                           /\ handler[h].state = "complete"

AtEnd(m) == m.pos = Len(Chain(m.req))

\* Only finalize_request, the last task of a chain, completes a request.
LEMMA LastStep ==
    ASSUME Types, NEW w \in Workers, worker[w] # Free, StepOf(w) \in FinalSteps
    PROVE  Task(w) = "finalize_request" /\ AtEnd(worker[w].msg)
<1> DEFINE m == worker[w].msg
<1>1. /\ Task(w) = TaskOf(m) /\ Task(w) \in TaskNames /\ InChain(m)
      /\ worker[w].at \in 1..Len(Program(Task(w))) /\ m.req \in Requests
      /\ StepOf(w) = Program(Task(w))[worker[w].at]
    BY BusyRuns DEF Running, StepsOf
<1>2. Task(w) = "finalize_request"
    BY <1>1, ProgramSteps
<1>3. /\ Lists(Chain(m.req), {"fetch_app_source"} \cup managers[m.req] \cup EndTasks)
      /\ Len(Chain(m.req)) \in Nat /\ Len(Chain(m.req)) >= 3
      /\ Chain(m.req)[Len(Chain(m.req))] = "finalize_request"
    BY <1>1, TasksOfChain
<1> HIDE DEF m
<1>4. m.pos = Len(Chain(m.req))
    <2>1. \A i, j \in 1..Len(Chain(m.req)) : Chain(m.req)[i] = Chain(m.req)[j] => i = j
        BY <1>3 DEF Lists
    <2>2. m.pos \in 1..Len(Chain(m.req)) /\ Len(Chain(m.req)) \in 1..Len(Chain(m.req))
        BY <1>1, <1>3 DEF InChain
    <2>3. Chain(m.req)[m.pos] = "finalize_request"
        BY <1>1, <1>2 DEF TaskOf
    <2> QED
        BY <1>3, <2>1, <2>2, <2>3
<1> QED
    BY <1>2, <1>4 DEF AtEnd, m

LEMMA CompletingBegins ==
    ASSUME Types, PipelineNext, NEW r \in Requests, Completing(r)'
    PROVE  \/ Completing(r)
           \/ \E w \in Workers, h \in Handlers :
                  /\ SayState(w, h) /\ worker[w] # Free /\ worker[w].msg.req = r
                  /\ worker[w].phase = "run" /\ StepOf(w) = "say_complete"
<1>0. [Next]_vars /\ IInv
    BY ApiStep DEF Types, PipelineIInv
<1>1. CASE HasBeen(r, {"complete"})'
    <2>1. \/ HasBeen(r, {"complete"})
          \/ \E h \in Handlers : /\ handler[h] # Idle /\ handler[h].req = r
                                 /\ handler[h].state = "complete"
        BY <1>0, <1>1, HasBeenNew
    <2> QED
        BY <2>1 DEF Completing
<1>2. ASSUME NEW h \in Handlers, handler'[h] # Idle, handler'[h].req = r,
             handler'[h].state = "complete"
      PROVE  \/ Completing(r)
             \/ \E w \in Workers, g \in Handlers :
                  /\ SayState(w, g) /\ worker[w] # Free /\ worker[w].msg.req = r
                  /\ worker[w].phase = "run" /\ StepOf(w) = "say_complete"
    <2>1. CASE handler[h] # Idle /\ handler'[h].req = handler[h].req
               /\ handler'[h].state = handler[h].state
        BY <1>2, <2>1 DEF Completing
    <2>2. CASE handler'[h].op = "patch" /\ handler[h] = Idle
        <3>0. handler \in [Handlers -> Call \cup {Idle}]
            BY DEF Types, PipelineTypeOK, TypeOK
        <3>1. ASSUME NEW w \in Workers, SayFailed(w, h)
              PROVE  FALSE
            <4>1. handler'[h].state = "failed"
                BY <3>0, <3>1 DEF SayFailed, Tell, PatchBegin
            <4> QED
                BY <1>2, <4>1
        <3>2. ASSUME MarkAsStale(h) PROVE FALSE
            <4>1. handler'[h].state = "stale"
                BY <3>0, <3>2 DEF MarkAsStale, PatchBegin
            <4> QED
                BY <1>2, <4>1
        <3>3. PICK w \in Workers : SayState(w, h)
            BY <1>2, <2>2, <3>1, <3>2, WhoCalls
        <3>4. PICK step \in PatchSteps :
                  Doing(w, step) /\ Tell(w, h, StateSaid(step), step, "waiting")
            BY <3>3 DEF SayState
        <3>5. handler'[h].state = StateSaid(step) /\ handler'[h].req = worker[w].msg.req
            BY <3>0, <3>4 DEF Tell, PatchBegin
        <3>6. step = "say_complete"
            BY <1>2, <3>5 DEF StateSaid
        <3> QED
            BY <1>2, <3>3, <3>4, <3>5, <3>6 DEF Doing
    <2>3. CASE handler'[h].op = "create" /\ handler'[h].state = "failed"
        BY <1>2, <2>3
    <2> QED
        BY <1>0, <1>2, <2>1, <2>2, <2>3, CallGoesOn DEF PatchBegin
<1> QED
    BY <1>1, <1>2 DEF Completing

-----------------------------------------------------------------------------
(* How an execution goes on *)

\* The execution of w goes on without a step of its own: it calls, fails, or is answered.
GoesOn(w) ==
    /\ worker[w] # Free /\ worker[w].phase # "returned"
    /\ \E x : /\ Moves(w, x) /\ x.password = worker[w].password
              /\ \/ x.at = worker[w].at /\ x.phase # "returned"
                 \/ /\ StepOf(w) \in PatchSteps
                    /\ x.phase = "returned" /\ x.at = worker[w].at
                    /\ x.at = Len(Program(Task(w)))
                 \/ /\ StepOf(w) \in PatchSteps
                    /\ x.phase = "run" /\ x.at = worker[w].at + 1

LEMMA BecomesGoesOn ==
    ASSUME Types, NEW w \in Workers, worker[w] # Free, worker[w].phase # "returned",
           NEW phase \in Phases, phase # "returned", Becomes(w, phase),
           phase = "waiting" => StepOf(w) \in PatchSteps
    PROVE  GoesOn(w)
BY BecomesMoves DEF GoesOn

LEMMA AnsweredGoesOn ==
    ASSUME Types, NEW h \in Handlers, NEW outcome, Answer(h, outcome)
    PROVE  UNCHANGED worker \/ \E w \in Workers : GoesOn(w)
<1>1. ASSUME NEW w \in Workers, worker[w] # Free, worker[w].phase \in {"waiting", "reporting"},
             Answered(w, outcome)
      PROVE  GoesOn(w)
    <2>1. CASE Proceed(w) /\ worker[w].phase = "waiting"
        <3>1. StepOf(w) \in PatchSteps
            BY <1>1, <2>1, BusyRuns DEF Running
        <3> QED
            BY <1>1, <2>1, <3>1, ProceedMoves DEF GoesOn
    <2>2. CASE \E x : /\ Moves(w, x) /\ x.at = worker[w].at
                      /\ x.phase \in {"run", "raised", "gave_up"}
                      /\ x.password = worker[w].password
        BY <1>1, <2>2 DEF GoesOn
    <2> QED
        BY <1>1, <2>1, <2>2, AnsweredMoves
<1> QED
    BY <1>1, AnswerMoves

LEMMA ExecutionFlow ==
    ASSUME Types, PipelineNext
    PROVE  \/ UNCHANGED worker
           \/ \E w \in Workers : worker' = [worker EXCEPT ![w] = Free]
           \/ \E w \in Workers : \E m \in DOMAIN queue : Deliver(w, m)
           \/ \E w \in Workers : TaskStep(w)
           \/ \E w \in Workers : GoesOn(w)
<1>2. ASSUME NEW h \in Handlers, SubmitRequest(h) \/ SubmitRefused(h) \/ Serve(h)
      PROVE  UNCHANGED worker \/ \E outcome : Answer(h, outcome)
    BY <1>2 DEF SubmitRequest, SubmitRefused, Serve, SubmitPublished, SubmitFailed, ServeOn,
        ServeDeleteTemp, ServeOk, ServeRefused, ServeConflict, pipelineVars
<1>3. ASSUME NEW w \in Workers, Work(w)
      PROVE  \/ UNCHANGED worker
             \/ worker' = [worker EXCEPT ![w] = Free]
             \/ \E m \in DOMAIN queue : Deliver(w, m)
             \/ TaskStep(w)
             \/ GoesOn(w)
    <2>1. CASE Finish(w) \/ Abandon(w)
        BY <2>1 DEF Finish, Abandon
    <2>2. ASSUME NEW h \in Handlers, SayState(w, h)
          PROVE  GoesOn(w)
        BY <2>2, BecomesGoesOn DEF SayState, Doing, Tell, Phases
    <2>3. ASSUME NEW h \in Handlers, SayFailed(w, h)
          PROVE  GoesOn(w)
        BY <2>3, BecomesGoesOn DEF SayFailed, Tell, Phases
    <2>4. ASSUME NEW c \in cleanups, NexusCleanup(w, c)
          PROVE  UNCHANGED worker
        BY <2>4 DEF NexusCleanup
    <2> QED
        BY <1>3, <2>1, <2>2, <2>3, <2>4 DEF Work
<1>4. CASE Expire
    BY <1>4 DEF Expire, ListExpired, MarkAsStale
<1>5. ASSUME NEW w \in Workers, WorkerDies(w) \/ Redeliver(w) \/ TaskRaises(w)
      PROVE  UNCHANGED worker \/ worker' = [worker EXCEPT ![w] = Free] \/ GoesOn(w)
    <2>1. CASE WorkerDies(w) \/ Redeliver(w)
        BY <2>1 DEF WorkerDies, Redeliver
    <2>2. CASE TaskRaises(w)
        <3>1. worker[w] # Free /\ worker[w].phase = "run" /\ Becomes(w, "raised")
            BY <2>2 DEF TaskRaises, StepRaises, Raise
        <3> QED
            BY <3>1, BecomesGoesOn DEF Phases
    <2> QED
        BY <1>5, <2>1, <2>2
<1>6. ASSUME NEW h \in Handlers, SubmitNotPublished(h) \/ ServeError(h) \/ TimeOut(h)
      PROVE  UNCHANGED worker \/ \E outcome : Answer(h, outcome)
    BY <1>6 DEF SubmitNotPublished, ServeError, TimeOut
<1> QED
    BY <1>2, <1>3, <1>4, <1>5, <1>6, AnsweredGoesOn DEF PipelineNext, Disturb

\* What an execution was before the step.
LEMMA OneExecution ==
    ASSUME Types, PipelineNext, NEW w \in Workers, worker'[w] # Free
    PROVE  \/ worker'[w] = worker[w]
           \/ /\ \E m \in DOMAIN queue : Deliver(w, m) /\ worker'[w].msg = m
              /\ worker'[w].at = 1 /\ worker'[w].phase = "run"
           \/ TaskStep(w) /\ worker[w] # Free /\ worker'[w].msg = worker[w].msg
           \/ GoesOn(w) /\ worker[w] # Free /\ worker'[w].msg = worker[w].msg
<1>w. worker \in [Workers -> Execution \cup {Free}]
    BY DEF Types, PipelineTypeOK
<1>1. CASE UNCHANGED worker
    BY <1>1
<1>2. ASSUME NEW v \in Workers, worker' = [worker EXCEPT ![v] = Free]
      PROVE  worker'[w] = worker[w]
    BY <1>w, <1>2
<1>3. ASSUME NEW v \in Workers, NEW m \in DOMAIN queue, Deliver(v, m)
      PROVE  \/ worker'[w] = worker[w]
             \/ /\ v = w /\ worker'[w].msg = m /\ worker'[w].at = 1 /\ worker'[w].phase = "run"
    BY <1>w, <1>3, DeliverRuns
<1>4. ASSUME NEW v \in Workers, worker[v] # Free, NEW x, Moves(v, x)
      PROVE  worker'[w] = worker[w] \/ (v = w /\ worker'[w].msg = worker[w].msg)
    BY <1>w, <1>4 DEF Moves
<1>5. ASSUME NEW v \in Workers, TaskStep(v)
      PROVE  \/ worker'[w] = worker[w]
             \/ v = w /\ worker[w] # Free /\ worker'[w].msg = worker[w].msg
    BY <1>4, <1>5, TaskMoves, TaskDoes
<1>6. ASSUME NEW v \in Workers, GoesOn(v)
      PROVE  \/ worker'[w] = worker[w]
             \/ v = w /\ worker[w] # Free /\ worker'[w].msg = worker[w].msg
    BY <1>4, <1>6 DEF GoesOn
<1> QED
    BY <1>1, <1>2, <1>3, <1>5, <1>6, ExecutionFlow

\* What a message was before the step.
LEMMA OneMessage ==
    ASSUME NoRedelivery, Types, CreatedOnce, PipelineNext, NEW m \in DOMAIN queue'
    PROVE  \/ m \in DOMAIN queue
           \/ m.req \notin published /\ m.pos = 1
           \/ \E w \in Workers : worker[w] # Free /\ m = worker[w].msg
           \/ \E w \in Workers : /\ worker[w] # Free /\ worker[w].phase = "returned"
                                 /\ ~IsLast(w) /\ m = NextMessage(w)
<1>0. \A n \in DOMAIN queue : queue[n] \in Nat \ {0}
    BY Counts
<1>2. ASSUME NEW h \in Handlers, SubmitPublished(h)
      PROVE  m \in DOMAIN queue \/ (m.req \notin published /\ m.pos = 1)
    <2>1. PICK n : n = [req |-> handler[h].req, pos |-> 1, arg |-> "none"]
        OBVIOUS
    <2>2. queue' = Put(n, queue) /\ n.req \notin published /\ n.pos = 1
        BY <1>2, <2>1 DEF SubmitPublished, PublishChain, At, CreatedOnce, Creating
    <2>3. DOMAIN queue' = DOMAIN queue \cup {n}
        BY <2>2, PutKeeps
    <2> QED
        BY <2>2, <2>3
<1>3. ASSUME NEW w \in Workers, NEW n \in DOMAIN queue, Deliver(w, n)
      PROVE  m \in DOMAIN queue
    BY <1>3, TakeKeeps DEF Deliver
<1>4. ASSUME NEW w \in Workers, Ends(w)
      PROVE  \/ m \in DOMAIN queue
             \/ worker[w] # Free /\ m = worker[w].msg
             \/ /\ worker[w] # Free /\ worker[w].phase = "returned"
                /\ ~IsLast(w) /\ m = NextMessage(w)
    <2>1. ASSUME NEW n, queue' = Put(n, queue)
          PROVE  m \in DOMAIN queue \/ m = n
        <3>1. DOMAIN queue' = DOMAIN queue \cup {n}
            BY <2>1, PutKeeps
        <3> QED
            BY <3>1
    <2> QED
        BY <1>4, <2>1 DEF Ends
<1> QED
    BY <1>2, <1>3, <1>4, Flow

CompletesLast ==
    /\ \A r \in Requests : Completing(r) => r \in published
    /\ \A m \in DOMAIN queue : Completing(m.req) => AtEnd(m)
    /\ \A w \in Workers, m \in Message : worker[w] # Free /\ worker[w].msg = m =>
           (Completing(m.req) => AtEnd(m))

LEMMA CompletesLastStep ==
    ASSUME NoRedelivery, Types, CreatedOnce, OneToken, CompletesLast, PipelineNext
    PROVE  CompletesLast'
<1>0. [Next]_vars
    BY ApiStep DEF Types
<1>1. ASSUME NEW r \in Requests, Completing(r)', ~Completing(r)
      PROVE  \E w \in Workers :
                 /\ worker[w] # Free /\ worker[w].msg.req = r /\ r \in published
                 /\ AtEnd(worker[w].msg) /\ UNCHANGED queue
                 /\ \A v \in Workers : worker'[v] # Free =>
                        worker[v] # Free /\ worker'[v].msg = worker[v].msg
    <2>1. PICK w \in Workers, h \in Handlers :
              /\ SayState(w, h) /\ worker[w] # Free /\ worker[w].msg.req = r
              /\ worker[w].phase = "run" /\ StepOf(w) = "say_complete"
        BY <1>1, CompletingBegins
    <2>2. r \in published /\ AtEnd(worker[w].msg)
        BY <2>1, BusyRuns, LastStep DEF FinalSteps
    <2>3. UNCHANGED queue /\ Becomes(w, "waiting")
        BY <2>1 DEF SayState, Tell
    <2>4. \E x : Moves(w, x)
        BY <2>1, <2>3, BecomesMoves DEF Phases, PatchSteps
    <2>5. ASSUME NEW v \in Workers, worker'[v] # Free
          PROVE  worker[v] # Free /\ worker'[v].msg = worker[v].msg
        BY <2>1, <2>4, <2>5 DEF Moves, Types, PipelineTypeOK
    <2> QED
        BY <2>1, <2>2, <2>3, <2>5
<1>2. ASSUME NEW m, InChain(m), AtEnd(m)
      PROVE  AtEnd(m)'
    BY <1>0, <1>2, ManagersFixed DEF InChain, AtEnd
<1>3. ASSUME NEW r \in Requests, Completing(r)'
      PROVE  r \in published'
    BY <1>0, <1>1, <1>3, PublishedGrows DEF CompletesLast
<1>4. ASSUME NEW m, m \in DOMAIN queue', Completing(m.req)'
      PROVE  AtEnd(m)'
    <2>0. InChain(m)' /\ m.req \in Requests
        BY <1>4, TypesStep, Counts DEF Types, Located, InChain, Message
    <2>1. CASE Completing(m.req)
        <3>1. m.req \in published
            BY <2>0, <2>1 DEF CompletesLast
        <3>2. CASE m \in DOMAIN queue
            BY <1>2, <2>1, <3>2, Counts DEF CompletesLast
        <3>3. ASSUME NEW w \in Workers, worker[w] # Free, m = worker[w].msg
              PROVE  AtEnd(m)'
            <4>1. InChain(m) /\ m \in Message
                BY <3>3, NextInChain DEF InChain
            <4> QED
                BY <1>2, <2>1, <3>3, <4>1 DEF CompletesLast
        <3>4. ASSUME NEW w \in Workers, worker[w] # Free, ~IsLast(w), m = NextMessage(w)
              PROVE  FALSE
            <4>1. m.req = worker[w].msg.req /\ worker[w].msg \in Message
                BY <3>4, NextInChain DEF InChain
            <4> QED
                BY <2>1, <3>4, <4>1 DEF CompletesLast, AtEnd, IsLast
        <3> QED
            BY <1>4, <3>1, <3>2, <3>3, <3>4, OneMessage
    <2>2. CASE ~Completing(m.req)
        BY <1>1, <1>4, <2>0, <2>2 DEF OneToken
    <2> QED
        BY <2>1, <2>2
<1>5. ASSUME NEW w \in Workers, worker'[w] # Free, NEW m, m = worker'[w].msg, Completing(m.req)'
      PROVE  AtEnd(m)'
    <2>0. /\ m \in DOMAIN queue \/ (worker[w] # Free /\ m = worker[w].msg)
          /\ InChain(m) /\ m \in Message /\ m.req \in Requests
        <3>1. \/ m \in DOMAIN queue /\ InChain(m)
              \/ worker[w] # Free /\ m = worker[w].msg /\ InChain(m)
            BY <1>5, OneExecution, Counts, NextInChain
        <3> QED
            BY <3>1 DEF InChain, Message, Types, PipelineIInv, IInv, TypeOK
    <2>1. CASE Completing(m.req)
        BY <1>2, <2>0, <2>1 DEF CompletesLast
    <2>2. CASE ~Completing(m.req)
        <3>1. PICK v \in Workers :
                 /\ worker[v] # Free /\ worker[v].msg.req = m.req
                 /\ AtEnd(worker[v].msg)
                 /\ \A u \in Workers : worker'[u] # Free =>
                        worker[u] # Free /\ worker'[u].msg = worker[u].msg
            BY <1>1, <1>5, <2>0, <2>2
        <3>2. worker[w] # Free /\ m = worker[w].msg /\ v = w
            BY <1>5, <3>1 DEF OneToken
        <3> QED
            BY <1>2, <2>0, <3>1, <3>2, NextInChain
    <2> QED
        BY <2>1, <2>2
<1>6. \A m \in DOMAIN queue' : Completing(m.req)' => AtEnd(m)'
    BY <1>4
<1> QED
    BY <1>3, <1>5, <1>6 DEF CompletesLast

-----------------------------------------------------------------------------
(* What a step of a task changes *)

\* What is kept of a request r stays.
Same(r) ==
    /\ files'[r] = files[r] /\ content'[r] = content[r] /\ bundle'[r] = bundle[r]
    /\ nexus'[r] = nexus[r] /\ password'[r] = password[r] /\ configs'[r] = configs[r]

\* The step of a task t for r changes what it is there for.
FilesEffect(r) ==
    /\ files[r] \subseteq files'[r] /\ content[r] \subseteq content'[r]
    /\ content'[r] # content[r] => "temp" \in files'[r]

NexusEffect(step, r, t) ==
    /\ configs[r] \subseteq configs'[r]
    /\ step \notin NexusSteps =>
           nexus'[r] = nexus[r] /\ password'[r] = password[r] /\ configs'[r] = configs[r]
    /\ \A m, i : m # t => (<<m, i>> \in nexus'[r] <=> <<m, i>> \in nexus[r])
    /\ \A i \in {"repo", "user"} : <<t, i>> \in nexus[r] => <<t, i>> \in nexus'[r]
    /\ <<t, "open">> \in nexus'[r] => <<t, "open">> \in nexus[r] \/ step = "prepare_nexus"
    /\ \A m \in NexusManagers : m # t \/ step # "finalize_nexus" =>
           password'[r][m] = password[r][m]

BundleEffect(step, r) ==
    /\ step \notin ArchiveSteps => bundle'[r] = bundle[r]
    /\ step # "open_archive" => bundle'[r].writer = bundle[r].writer
    /\ step \notin {"open_archive", "close_archive"} =>
           bundle'[r].whole = bundle[r].whole /\ (bundle[r].sealed => bundle'[r].sealed)
    /\ step # "aggregate" => bundle'[r].listed = bundle[r].listed

LEMMA TaskEffects ==
    ASSUME Types, NEW w \in Workers, TaskStep(w), NEW r, r = worker[w].msg.req
    PROVE  /\ \A q \in Requests : q # r => Same(q)
           /\ FilesEffect(r) /\ NexusEffect(StepOf(w), r, Task(w)) /\ BundleEffect(StepOf(w), r)
<1> DEFINE t == Task(w)
<1>1. /\ worker[w] # Free /\ r \in Requests /\ t \in TaskNames
      /\ worker[w].at \in 1..Len(Program(t)) /\ StepOf(w) = Program(t)[worker[w].at]
    BY TaskDoes, BusyRuns DEF StepOf
<1>2. /\ StepOf(w) \in NexusSteps => t \in NexusManagers
    BY <1>1, ProgramSteps
<1>3. /\ content \in [Requests -> SUBSET Contents]
      /\ files \in [Requests -> SUBSET Files]
      /\ bundle \in [Requests -> BundleInfo]
      /\ nexus \in [Requests -> SUBSET (NexusManagers \X NexusItems)]
      /\ password \in [Requests -> [NexusManagers -> Nat]]
      /\ configs \in [Requests -> SUBSET (NexusManagers \X Nat)]
    BY DEF Types, PipelineTypeOK, TypeOK
<1> HIDE DEF t
<1>s. ASSUME UNCHANGED <<content, bundle, nexusVars>>,
             UNCHANGED files \/ \E more : MakeTemp(r, more)
      PROVE  /\ \A q \in Requests : q # r => Same(q)
             /\ FilesEffect(r) /\ NexusEffect(StepOf(w), r, t) /\ BundleEffect(StepOf(w), r)
    BY <1>1, <1>3, <1>s DEF MakeTemp, nexusVars, Same, FilesEffect, NexusEffect, BundleEffect
<1>5. CASE \/ CheckState(w, r) \/ QuietCall(w, r) \/ OpenDir(w, r) \/ Verify(w, r)
           \/ Resolve(w, r) \/ CheckCounts(w, r)
    BY <1>5, <1>s DEF CheckState, QuietCall, OpenDir, Verify, Resolve, CheckCounts, t
<1>6. CASE Unpack(w, r)
    BY <1>1, <1>3, <1>6 DEF Unpack, nexusVars, MakeTemp, Same, FilesEffect, NexusEffect,
        BundleEffect
<1>7. CASE WritePackages(w, r)
    BY <1>1, <1>3, <1>7 DEF WritePackages, nexusVars, Same, FilesEffect, NexusEffect,
        BundleEffect
<1>8. CASE PrepareNexus(w, r)
    <2>1. PICK items \in SUBSET {"repo", "open"} :
              nexus' = [nexus EXCEPT ![r] = @ \cup ({t} \X items)]
        BY <1>8 DEF PrepareNexus, t
    <2>2. UNCHANGED <<files, content, bundle, password, configs>> /\ StepOf(w) = "prepare_nexus"
        BY <1>8 DEF PrepareNexus, Doing
    <2>3. nexus'[r] = nexus[r] \cup ({t} \X items)
          /\ \A q \in Requests : q # r => nexus'[q] = nexus[q]
        BY <1>1, <1>3, <2>1
    <2>4. \A m, i : <<m, i>> \in {t} \X items => m = t
        OBVIOUS
    <2>5. NexusEffect(StepOf(w), r, t)
        BY <2>2, <2>3, <2>4 DEF NexusEffect, NexusSteps
    <2>6. FilesEffect(r) /\ BundleEffect(StepOf(w), r)
        BY <2>2 DEF FilesEffect, BundleEffect
    <2> QED
        BY <2>2, <2>3, <2>5, <2>6 DEF Same, t
<1>9. CASE FinalizeNexus(w, r)
    <2>1. t \in NexusManagers /\ t = Task(w) /\ StepOf(w) = "finalize_nexus"
        BY <1>2, <1>9 DEF FinalizeNexus, Doing, t, NexusSteps
    <2>2. UNCHANGED <<files, content, bundle, configs>>
        BY <1>9 DEF FinalizeNexus
    <2>3. \/ UNCHANGED <<nexus, password>>
          \/ /\ nexus' = [nexus EXCEPT ![r] = (@ \ {<<t, "open">>}) \cup {<<t, "user">>}]
             /\ password' = [password EXCEPT ![r][t] = password[r][t] + 1]
        BY <1>9, <2>1 DEF FinalizeNexus
    <2>4. /\ nexus'[r] = nexus[r] \/ nexus'[r] = (nexus[r] \ {<<t, "open">>}) \cup {<<t, "user">>}
          /\ \A q \in Requests : q # r => nexus'[q] = nexus[q]
        BY <1>1, <1>3, <2>3
    <2>5. /\ \A m \in NexusManagers : m # t => password'[r][m] = password[r][m]
          /\ \A q \in Requests : q # r => password'[q] = password[q]
        <3> DEFINE more == password[r][t] + 1
                   new == [password[r] EXCEPT ![t] = more]
        <3>1. \A m \in NexusManagers : m # t => new[m] = password[r][m]
            BY <1>1, <1>3
        <3>2. password' = password \/ password' = [password EXCEPT ![r] = new]
            BY <2>3
        <3> HIDE DEF new
        <3> QED
            BY <1>1, <1>3, <3>1, <3>2
    <2>6. NexusEffect(StepOf(w), r, t)
        <3>1. \A m, i : m # t => (<<m, i>> \in nexus'[r] <=> <<m, i>> \in nexus[r])
            BY <2>4
        <3>2. \A i \in {"repo", "user"} : <<t, i>> \in nexus[r] => <<t, i>> \in nexus'[r]
            BY <2>4
        <3>3. <<t, "open">> \in nexus'[r] => <<t, "open">> \in nexus[r]
            BY <2>4
        <3> QED
            BY <2>1, <2>2, <2>5, <3>1, <3>2, <3>3 DEF NexusEffect, NexusSteps
    <2>7. FilesEffect(r) /\ BundleEffect(StepOf(w), r)
        BY <2>2 DEF FilesEffect, BundleEffect
    <2> QED
        BY <2>2, <2>4, <2>5, <2>6, <2>7 DEF Same, t
<1>10. CASE GiveAccess(w, r)
    <2>1. /\ UNCHANGED <<files, content, bundle, nexus, password>> /\ StepOf(w) = "give_access"
          /\ configs' = [configs EXCEPT ![r] = @ \cup {<<t, worker[w].password>>}]
        BY <1>10 DEF GiveAccess, Doing, t
    <2> QED
        BY <1>1, <1>3, <2>1 DEF Same, FilesEffect, NexusEffect, NexusSteps, BundleEffect, t
<1>11. CASE OpenArchive(w, r) \/ CloseArchive(w, r) \/ SaveChecksum(w, r) \/ Aggregate(w, r)
    <2>1. /\ UNCHANGED <<content, nexusVars>>
          /\ UNCHANGED files \/ \E more : MakeTemp(r, more)
        BY <1>11 DEF OpenArchive, CloseArchive, SaveChecksum, Aggregate
    <2>2. FilesEffect(r) /\ NexusEffect(StepOf(w), r, t)
        BY <1>1, <1>3, <2>1 DEF nexusVars, MakeTemp, FilesEffect, NexusEffect
    <2>3. bundle[r] \in BundleInfo
        BY <1>1, <1>3
    <2>4. BundleEffect(StepOf(w), r) /\ \A q \in Requests : q # r => bundle'[q] = bundle[q]
        <3>1. CASE OpenArchive(w, r)
            <4>1. PICK who : bundle' = [bundle EXCEPT ![r].writer = who,
                                 ![r].whole = FALSE, ![r].sealed = FALSE]
                BY <3>1 DEF OpenArchive
            <4>2. StepOf(w) = "open_archive"
                BY <3>1 DEF OpenArchive, Doing
            <4> QED
                BY <1>1, <1>3, <2>3, <4>1, <4>2 DEF BundleEffect, ArchiveSteps, BundleInfo
        <3>2. CASE CloseArchive(w, r)
            <4>1. PICK is : bundle' = [bundle EXCEPT ![r].whole = is, ![r].sealed = FALSE]
                BY <3>2 DEF CloseArchive
            <4>2. StepOf(w) = "close_archive"
                BY <3>2 DEF CloseArchive, Doing
            <4> QED
                BY <1>1, <1>3, <2>3, <4>1, <4>2 DEF BundleEffect, ArchiveSteps, BundleInfo
        <3>3. CASE SaveChecksum(w, r)
            <4>1. bundle' = bundle \/ bundle' = [bundle EXCEPT ![r].sealed = TRUE]
                BY <3>3 DEF SaveChecksum
            <4>2. StepOf(w) = "checksum"
                BY <3>3 DEF SaveChecksum, Doing
            <4> QED
                BY <1>1, <1>3, <2>3, <4>1, <4>2 DEF BundleEffect, ArchiveSteps, BundleInfo
        <3>4. CASE Aggregate(w, r)
            <4>1. PICK what : bundle' = [bundle EXCEPT ![r].listed = what]
                BY <3>4 DEF Aggregate
            <4>2. StepOf(w) = "aggregate"
                BY <3>4 DEF Aggregate, Doing
            <4> QED
                BY <1>1, <1>3, <2>3, <4>1, <4>2 DEF BundleEffect, ArchiveSteps, BundleInfo
        <3> QED
            BY <1>11, <3>1, <3>2, <3>3, <3>4
    <2>5. \A q \in Requests : q # r => files'[q] = files[q]
        BY <1>1, <1>3, <2>1 DEF MakeTemp
    <2> QED
        BY <2>1, <2>2, <2>4, <2>5 DEF Same, nexusVars, t
<1>12. \/ CheckState(w, r) \/ QuietCall(w, r) \/ Unpack(w, r) \/ OpenDir(w, r)
       \/ Verify(w, r) \/ PrepareNexus(w, r) \/ Resolve(w, r) \/ WritePackages(w, r)
       \/ FinalizeNexus(w, r) \/ GiveAccess(w, r) \/ OpenArchive(w, r)
       \/ CloseArchive(w, r) \/ SaveChecksum(w, r) \/ Aggregate(w, r) \/ CheckCounts(w, r)
    BY TaskDoes
<1> QED
    BY <1>5, <1>6, <1>7, <1>8, <1>9, <1>10, <1>11, <1>12 DEF t

-----------------------------------------------------------------------------
(* What stays while a request is in progress, or is not disturbed *)

Unsettled(r) == ~HasBeen(r, {"complete", "failed", "stale"})
Undisturbed(r) == ~HasBeen(r, {"failed", "stale"})

TempHoldsContent == \A r \in Requests : content[r] # {} => "temp" \in files[r]

NexusOfManagers ==
    \A r \in Requests : \A m \in NexusManagers, i \in NexusItems :
        <<m, i>> \in nexus[r] => m \in managers[r] /\ r \in published

\* A request that was submitted has a newest row.
HasNewest ==
    \A r \in Requests : Submitted(r) =>
        \E i \in DOMAIN rows[r] :
            \A j \in DOMAIN rows[r] : rows[r][j].updated <= rows[r][i].updated

LEMMA NewestIsARow ==
    ASSUME HasNewest, NEW r \in Requests, Submitted(r)
    PROVE  \E i \in DOMAIN rows[r] : Newest(r) = rows[r][i]
<1> DEFINE all == {rows[r][i] : i \in DOMAIN rows[r]}
           Top(row) == \A i \in DOMAIN rows[r] : rows[r][i].updated <= row.updated
<1>1. \E row \in all : Top(row)
    BY DEF HasNewest
<1>2. Newest(r) = CHOOSE row \in all : Top(row)
    BY DEF Newest
<1>3. Newest(r) \in all
    BY <1>1, <1>2
<1> QED
    BY <1>3

\* runs_if_request_in_progress lets the tasks of a request in progress run.
LEMMA UnsettledRuns ==
    ASSUME Types, HasNewest, NEW r \in Requests, Submitted(r), Unsettled(r)
    PROVE  Newest(r).state = "in_progress"
<1>1. PICK i \in DOMAIN rows[r] : Newest(r) = rows[r][i]
    BY NewestIsARow
<1>2. rows[r] \in Seq(Row)
    BY DEF Types, PipelineTypeOK, TypeOK
<1>3. rows[r][i] \in Row
    BY <1>1, <1>2
<1>4. rows[r][i].state \in States
    BY <1>3 DEF Row
<1> QED
    BY <1>1, <1>4 DEF Unsettled, HasBeen, States

LEMMA HasNewestStep ==
    ASSUME IInv, HasNewest, [Next]_vars
    PROVE  HasNewest'
<1> SUFFICES ASSUME NEW r \in Requests, Submitted(r)'
             PROVE  \E i \in DOMAIN rows'[r] :
                        \A j \in DOMAIN rows'[r] : rows'[r][j].updated <= rows'[r][i].updated
    BY DEF HasNewest
<1>0. rows[r] \in Seq(Row)
    BY DEF IInv, TypeOK
<1>1. CASE rows'[r] = rows[r]
    BY <1>1 DEF HasNewest, Submitted
<1>2. ASSUME NEW row \in Row, rows'[r] = Append(rows[r], row)
      PROVE  \E i \in DOMAIN rows'[r] :
                 \A j \in DOMAIN rows'[r] : rows'[r][j].updated <= rows'[r][i].updated
    <2>1. /\ rows'[r] \in Seq(Row)
          /\ Len(rows'[r]) = Len(rows[r]) + 1 /\ Len(rows[r]) \in Nat
          /\ \A i \in 1..Len(rows[r]) : rows'[r][i] = rows[r][i]
          /\ rows'[r][Len(rows[r]) + 1] = row
          /\ DOMAIN rows'[r] = 1..(Len(rows[r]) + 1) /\ DOMAIN rows[r] = 1..Len(rows[r])
        BY <1>0, <1>2, Appended
    <2>2. \A i \in DOMAIN rows'[r] : rows'[r][i].updated \in Nat
        <3>1. \A i \in DOMAIN rows'[r] : rows'[r][i] \in Row
            BY <2>1
        <3> QED
            BY <3>1 DEF Row
    <2>3. CASE rows[r] = <<>>
        <3>1. Len(rows[r]) = 0
            BY <2>3
        <3> QED
            BY <2>1, <2>2, <3>1
    <2>4. CASE Submitted(r)
        <3>1. PICK i \in DOMAIN rows[r] :
                  \A j \in DOMAIN rows[r] : rows[r][j].updated <= rows[r][i].updated
            BY <2>4 DEF HasNewest
        <3>2. i \in DOMAIN rows'[r] /\ rows'[r][i] = rows[r][i]
            BY <2>1
        <3>3. \A j \in DOMAIN rows'[r] : j \in 1..Len(rows[r]) \/ j = Len(rows[r]) + 1
            BY <2>1
        <3>4. CASE row.updated <= rows[r][i].updated
            <4>1. \A j \in DOMAIN rows'[r] : rows'[r][j].updated <= rows'[r][i].updated
                BY <2>1, <3>1, <3>2, <3>3, <3>4
            <4> QED
                BY <3>2, <4>1
        <3>5. CASE ~(row.updated <= rows[r][i].updated)
            <4>0. \A j \in 1..Len(rows[r]) :
                      /\ rows'[r][j].updated \in Nat /\ rows[r][i].updated \in Nat
                      /\ row.updated \in Nat
                      /\ rows'[r][j].updated <= rows[r][i].updated
                <5>1. \A j \in 1..Len(rows[r]) : j \in DOMAIN rows'[r] /\ j \in DOMAIN rows[r]
                    BY <2>1
                <5>2. row.updated \in Nat
                    BY DEF Row
                <5> QED
                    BY <2>1, <2>2, <3>1, <3>2, <5>1, <5>2
            <4>1. \A j \in 1..Len(rows[r]) : rows'[r][j].updated <= row.updated
                BY <3>5, <4>0
            <4>2. \A j \in DOMAIN rows'[r] :
                      rows'[r][j].updated <= rows'[r][Len(rows[r]) + 1].updated
                BY <2>1, <2>2, <3>3, <4>1
            <4>3. Len(rows[r]) + 1 \in DOMAIN rows'[r]
                BY <2>1
            <4> QED
                BY <4>2, <4>3
        <3> QED
            BY <3>4, <3>5
    <2> QED
        BY <2>3, <2>4 DEF Submitted
<1> QED
    BY <1>1, <1>2, RowsGrow DEF vars

\* Only a PATCH that settles a request deletes its temporary directory.
LEMMA TempKept ==
    ASSUME Types, PipelineNext, NEW r \in Requests, "temp" \in files[r], "temp" \notin files'[r]
    PROVE  \E h \in Handlers : ServeDeleteTemp(h) /\ HasBeen(r, {"complete", "failed", "stale"})
<1>0. files \in [Requests -> SUBSET Files] /\ IInv
    BY DEF Types, PipelineIInv, IInv, TypeOK
<1>1. ASSUME NEW q, NEW more, files' = [files EXCEPT ![q] = @ \cup more]
      PROVE  FALSE
    BY <1>0, <1>1
<1>2. ASSUME NEW w \in Workers, TaskStep(w) PROVE FALSE
    BY <1>1, <1>2, TaskFiles
<1>3. ASSUME NEW h \in Handlers, ServeOn(h) PROVE FALSE
    <2>1. CASE DeleteBundle(h)
        <3>1. \/ files' = files
              \/ files' = [files EXCEPT ![handler[h].req] = @ \ UnlinkedFiles(@)]
            BY <2>1 DEF DeleteBundle
        <3>2. files'[r] = files[r] \/ files'[r] = files[r] \ UnlinkedFiles(files[r])
            BY <1>0, <3>1
        <3>3. "temp" \notin UnlinkedFiles(files[r])
            BY DEF UnlinkedFiles
        <3> QED
            BY <3>2, <3>3
    <2>2. CASE DeleteLog(h)
        <3>1. files' = files \/ files' = [files EXCEPT ![handler[h].req] = @ \ {"log"}]
            BY <2>2 DEF DeleteLog
        <3> QED
            BY <1>0, <3>1
    <2> QED
        BY <1>3, <2>1, <2>2 DEF ServeOn, PatchRead, Commit
<1>4. ASSUME NEW h \in Handlers,
             SubmitRequest(h) \/ SubmitRefused(h) \/ SubmitPublished(h) \/ SubmitFailed(h)
                 \/ ServeOk(h) \/ ServeRefused(h) \/ ServeConflict(h)
      PROVE  FALSE
    BY <1>4 DEF SubmitRequest, SubmitRefused, SubmitPublished, SubmitFailed, ServeOk,
        ServeRefused, ServeConflict, CreateRequest, RefuseReplacements, PublishChain,
        FailUnscheduled, Commit, ScheduleCleanups, PatchRefuse, HandlerFails
<1>5. ASSUME NEW w \in Workers,
             \/ Finish(w) \/ Abandon(w) \/ WorkerDies(w) \/ Redeliver(w) \/ TaskRaises(w)
             \/ \E h \in Handlers : SayState(w, h) \/ SayFailed(w, h)
      PROVE  FALSE
    BY <1>5 DEF Finish, Abandon, WorkerDies, Redeliver, TaskRaises, StepRaises, SayState,
        SayFailed, Tell, PatchBegin, vars
<1>6. ASSUME NEW w \in Workers, NEW m \in DOMAIN queue, Deliver(w, m) PROVE FALSE
    BY <1>1, <1>6 DEF Deliver
<1>7. ASSUME NEW w \in Workers, NEW c \in cleanups, NexusCleanup(w, c) PROVE FALSE
    BY <1>1, <1>7 DEF NexusCleanup, RunCleanup
<1>8. ASSUME Expire PROVE FALSE
    BY <1>8 DEF Expire, ListExpired, MarkAsStale, PatchBegin, vars
<1>9. ASSUME NEW h \in Handlers, SubmitNotPublished(h) \/ ServeError(h) \/ TimeOut(h)
      PROVE  FALSE
    BY <1>9 DEF SubmitNotPublished, ServeError, TimeOut, PublishFails, HandlerFails, vars
<1>10. PICK h \in Handlers : ServeDeleteTemp(h)
    BY <1>2, <1>3, <1>4, <1>5, <1>6, <1>7, <1>8, <1>9 DEF PipelineNext, Serve, Work, Disturb
<1>11. /\ At(h, "patch", "temp") /\ DeletesTemp(handler[h]) /\ handler[h].req = r
    BY <1>0, <1>10 DEF ServeDeleteTemp, DeleteTemp
<1>12. HasBeen(r, {"complete", "failed", "stale"})
    BY <1>0, <1>11, CommittedState DEF At, DeletesTemp
<1> QED
    BY <1>10, <1>12

LEMMA TempHoldsContentStep ==
    ASSUME Types, TempHoldsContent, PipelineNext
    PROVE  TempHoldsContent'
<1> SUFFICES ASSUME NEW r \in Requests, content'[r] # {}
             PROVE  "temp" \in files'[r]
    BY DEF TempHoldsContent
<1>1. CASE UNCHANGED content
    <2>1. CASE \E h \in Handlers : ServeDeleteTemp(h)
        BY <2>1 DEF ServeDeleteTemp
    <2> QED
        BY <1>1, <2>1, TempKept DEF TempHoldsContent
<1>2. ASSUME NEW w \in Workers, TaskStep(w) PROVE "temp" \in files'[r]
    BY <1>2, TaskEffects, BusyRuns, TaskDoes DEF Same, FilesEffect, TempHoldsContent
<1>3. ASSUME NEW h \in Handlers, ServeDeleteTemp(h) PROVE "temp" \in files'[r]
    BY <1>3 DEF ServeDeleteTemp
<1>4. ASSUME NEW w \in Workers, NEW c \in cleanups, NexusCleanup(w, c) PROVE UNCHANGED content
    BY <1>4 DEF NexusCleanup
<1> QED
    BY <1>1, <1>2, <1>3, <1>4, WhoStores

LEMMA NexusOfManagersStep ==
    ASSUME Types, NexusOfManagers, PipelineNext
    PROVE  NexusOfManagers'
<1> SUFFICES ASSUME NEW r \in Requests, NEW m \in NexusManagers, NEW i \in NexusItems,
                    <<m, i>> \in nexus'[r]
             PROVE  m \in managers'[r] /\ r \in published'
    BY DEF NexusOfManagers
<1>0. [Next]_vars
    BY ApiStep DEF Types
<1>1. CASE <<m, i>> \in nexus[r]
    BY <1>0, <1>1, ManagersFixed DEF NexusOfManagers
<1>2. CASE <<m, i>> \notin nexus[r]
    <2>1. ASSUME NEW w \in Workers, TaskStep(w)
          PROVE  m \in managers[r] /\ r \in published
        <3>1. r = worker[w].msg.req
            BY <1>2, <2>1, TaskEffects DEF Same
        <3>2. m = Task(w)
            BY <1>2, <2>1, <3>1, TaskEffects DEF NexusEffect
        <3> QED
            BY <2>1, <3>1, <3>2, TaskFiles, BusyRuns DEF NexusManagers, TaskManagers
    <2>2. ASSUME NEW w \in Workers, NEW c \in cleanups, NexusCleanup(w, c)
          PROVE  FALSE
        <3>1. \/ nexus' = nexus
              \/ nexus' = [nexus EXCEPT ![c[1]] = @ \ ({c[2]} \X NexusItems)]
            BY <2>2 DEF NexusCleanup
        <3> QED
            BY <1>2, <3>1 DEF Types, PipelineTypeOK
    <2>3. ASSUME NEW h \in Handlers, ServeDeleteTemp(h)
          PROVE  FALSE
        BY <1>2, <2>3 DEF ServeDeleteTemp, nexusVars
    <2>4. PICK w \in Workers : TaskStep(w)
        BY <1>2, <2>2, <2>3, WhoStores DEF nexusVars
    <2> QED
        BY <1>0, <2>1, <2>4, ManagersFixed
<1> QED
    BY <1>1, <1>2

\* The bundle of r, its Nexus content and what it offers its user stay.
BundleStays(r) ==
    /\ \A f \in {"archive", "checksum", "packages"} : f \in files[r] => f \in files'[r]
    /\ bundle'[r] = bundle[r]
    /\ nexus'[r] = nexus[r] /\ password'[r] = password[r] /\ configs'[r] = configs[r]

\* Only a task of a request that neither failed nor expired changes them.
LEMMA BundleStay ==
    ASSUME Types, CleanupsJustified, PipelineNext, NEW r \in Requests, Undisturbed(r)
    PROVE  BundleStays(r) \/ \E w \in Workers : TaskStep(w) /\ worker[w].msg.req = r
<1>1. ASSUME NEW f \in {"archive", "checksum", "packages"}, f \in files[r], f \notin files'[r]
      PROVE  FALSE
    <2>1. Next
        BY <1>1, ApiStep DEF Types, vars
    <2> QED
        BY <1>1, <2>1, BundleKept DEF Types, PipelineIInv, Undisturbed, HasBeen
<1>2. CASE UNCHANGED <<bundle, nexusVars>>
    BY <1>1, <1>2 DEF BundleStays, nexusVars
<1>3. ASSUME NEW w \in Workers, TaskStep(w), worker[w].msg.req # r
      PROVE  BundleStays(r)
    BY <1>3, TaskEffects DEF Same, BundleStays
<1>4. ASSUME NEW w \in Workers, NEW c \in cleanups, NexusCleanup(w, c)
      PROVE  BundleStays(r)
    <2>1. c[1] # r
        BY DEF CleanupsJustified, Undisturbed, HasBeen
    <2>2. nexus' = nexus \/ nexus' = [nexus EXCEPT ![c[1]] = @ \ ({c[2]} \X NexusItems)]
        BY <1>4 DEF NexusCleanup
    <2>3. nexus'[r] = nexus[r]
        BY <2>1, <2>2 DEF Types, PipelineTypeOK
    <2> QED
        BY <1>1, <1>4, <2>3 DEF NexusCleanup, BundleStays
<1>5. ASSUME NEW h \in Handlers, ServeDeleteTemp(h)
      PROVE  UNCHANGED <<bundle, nexusVars>>
    BY <1>5 DEF ServeDeleteTemp
<1> QED
    BY <1>2, <1>3, <1>4, <1>5, WhoStores

LEMMA ContentStays ==
    ASSUME Types, TempHoldsContent, PipelineNext, NEW r \in Requests, Unsettled(r)
    PROVE  content[r] \subseteq content'[r]
<1>1. ASSUME NEW w \in Workers, TaskStep(w) PROVE content[r] \subseteq content'[r]
    BY <1>1, TaskEffects DEF Same, FilesEffect
<1>2. ASSUME NEW h \in Handlers, ServeDeleteTemp(h)
      PROVE  content[r] \subseteq content'[r]
    <2>1. content[r] # {} => "temp" \in files'[r]
        BY TempKept DEF TempHoldsContent, Unsettled
    <2> QED
        BY <1>2, <2>1 DEF ServeDeleteTemp
<1>3. ASSUME NEW w \in Workers, NEW c \in cleanups, NexusCleanup(w, c) PROVE UNCHANGED content
    BY <1>3 DEF NexusCleanup
<1> QED
    BY <1>1, <1>2, <1>3, WhoStores

-----------------------------------------------------------------------------
(* Programs *)

\* The step b takes away what the step a has left.
Undoes(b, a) ==
    \/ b = "prepare_nexus" /\ a = "finalize_nexus"
    \/ b = "finalize_nexus" /\ a = "give_access"
    \/ b = "open_archive" /\ a \in {"close_archive", "checksum"}
    \/ b = "close_archive" /\ a = "checksum"
    \/ b = a /\ a \in NexusSteps \cup ArchiveSteps

\* No step undoes an earlier one; a password is offered after it was made, an archive is
\* closed after it was opened.
Orderly(program) ==
    /\ \A i, j \in 1..Len(program) : i < j => ~Undoes(program[j], program[i])
    /\ \A j \in 1..Len(program) :
           /\ program[j] = "give_access" => \E i \in 1..(j - 1) : program[i] = "finalize_nexus"
           /\ program[j] = "close_archive" => \E i \in 1..(j - 1) : program[i] = "open_archive"

Does(program, step) == \E i \in 1..Len(program) : program[i] = step

LEMMA Programs ==
    ASSUME NEW t \in TaskNames
    PROVE  /\ Orderly(Program(t))
           /\ t \in TaskManagers => Does(Program(t), "write_packages")
           /\ t \in NexusManagers => \A step \in NexusSteps : Does(Program(t), step)
           /\ t = "process_fetched_sources" => \A step \in ArchiveSteps : Does(Program(t), step)
<1> USE DEF Orderly, Undoes, Does, NexusSteps, ArchiveSteps
<1>1. Orderly(AppSourceSteps) /\ Orderly(FinalizeSteps)
    BY DEF AppSourceSteps, FinalizeSteps
<1>2. Orderly(SubmoduleSteps) /\ Does(SubmoduleSteps, "write_packages")
    BY DEF SubmoduleSteps
<1>3. Orderly(GomodSteps) /\ Does(GomodSteps, "write_packages")
    BY DEF GomodSteps
<1>4. Orderly(JsSteps) /\ \A step \in NexusSteps \cup {"write_packages"} : Does(JsSteps, step)
    BY DEF JsSteps
<1>5. Orderly(PipSteps) /\ \A step \in NexusSteps \cup {"write_packages"} : Does(PipSteps, step)
    BY DEF PipSteps
<1>6. Orderly(RubygemsSteps)
      /\ \A step \in NexusSteps \cup {"write_packages"} : Does(RubygemsSteps, step)
    BY DEF RubygemsSteps
<1>7. Orderly(ProcessSteps) /\ \A step \in ArchiveSteps : Does(ProcessSteps, step)
    BY DEF ProcessSteps
<1> HIDE DEF Orderly, Undoes, Does, NexusSteps, ArchiveSteps
<1>8. CASE t \in {"fetch_app_source", "finalize_request", "process_fetched_sources"}
    BY <1>1, <1>7, <1>8 DEF TaskManagers, NexusManagers, JsManagers, Program
<1>9. CASE t \in TaskManagers
    BY <1>2, <1>3, <1>4, <1>5, <1>6, <1>9 DEF TaskManagers, NexusManagers, JsManagers, Program
<1> QED
    BY <1>8, <1>9 DEF TaskNames, EndTasks

-----------------------------------------------------------------------------
(* What the tasks have left *)

\* What the step of a task t leaves for r.
Left(step, r, t) ==
    /\ step = "write_packages" => t \in content[r]
    /\ step = "prepare_nexus" => <<t, "repo">> \in nexus[r]
    /\ step = "finalize_nexus" => <<t, "user">> \in nexus[r] /\ <<t, "open">> \notin nexus[r]
    /\ step = "give_access" => <<t, password[r][t]>> \in configs[r]
    /\ step = "open_archive" => "archive" \in files[r]
    /\ step = "close_archive" => bundle[r].whole
    /\ step = "checksum" => "checksum" \in files[r] /\ bundle[r].sealed
    /\ step = "aggregate" => "packages" \in files[r] /\ bundle[r].listed = "full"

TaskDone(r, t) == \A i \in 1..Len(Program(t)) : Left(Program(t)[i], r, t)

\* The tasks before the one of m are done.
Before(m) == \A i \in 1..(m.pos - 1) : TaskDone(m.req, Chain(m.req)[i])

LEMMA LeftStays ==
    ASSUME NEW r, BundleStays(r), content[r] \subseteq content'[r], NEW step, NEW t,
           Left(step, r, t)
    PROVE  Left(step, r, t)'
BY DEF BundleStays, Left

\* A step takes away only what Undoes says, and only from its own task.
LEMMA LeftUnlessUndone ==
    ASSUME Types, NEW w \in Workers, TaskStep(w), NEW r, r = worker[w].msg.req,
           NEW t \in TaskNames, NEW step, Does(Program(t), step), Left(step, r, t),
           t = Task(w) => ~Undoes(StepOf(w), step)
    PROVE  Left(step, r, t)'
<1>0. /\ step \in NexusSteps => t \in NexusManagers
      /\ step \in ArchiveSteps => t = "process_fetched_sources"
    BY ProgramSteps DEF Does
<1>1. StepOf(w) \in ArchiveSteps => Task(w) = "process_fetched_sources"
    BY TaskFiles, BusyRuns, ProgramSteps DEF StepOf
<1>2. FilesEffect(r) /\ NexusEffect(StepOf(w), r, Task(w)) /\ BundleEffect(StepOf(w), r)
    BY TaskEffects
<1>3. step = "write_packages" => t \in content'[r]
    BY <1>2 DEF Left, FilesEffect
<1>4. step = "prepare_nexus" => <<t, "repo">> \in nexus'[r]
    BY <1>2 DEF Left, NexusEffect
<1>5. step = "finalize_nexus" => <<t, "user">> \in nexus'[r] /\ <<t, "open">> \notin nexus'[r]
    BY <1>2 DEF Left, NexusEffect, Undoes
<1>6. step = "give_access" => <<t, password'[r][t]>> \in configs'[r]
    <2>1. ASSUME step = "give_access" PROVE password'[r][t] = password[r][t]
        BY <1>0, <1>2, <2>1 DEF NexusEffect, Undoes, NexusSteps
    <2> QED
        BY <1>2, <2>1 DEF Left, NexusEffect
<1>7. step = "open_archive" => "archive" \in files'[r]
    BY <1>2 DEF Left, FilesEffect
<1>8. ASSUME step \in ArchiveSteps, StepOf(w) \in ArchiveSteps
      PROVE  ~Undoes(StepOf(w), step)
    BY <1>0, <1>1, <1>8
<1>9. step = "close_archive" => bundle'[r].whole
    BY <1>2, <1>8 DEF Left, BundleEffect, Undoes, ArchiveSteps
<1>10. step = "checksum" => "checksum" \in files'[r] /\ bundle'[r].sealed
    BY <1>2, <1>8 DEF Left, FilesEffect, BundleEffect, Undoes, ArchiveSteps
<1>11. step = "aggregate" => "packages" \in files'[r] /\ bundle'[r].listed = "full"
    BY <1>2, <1>8 DEF Left, FilesEffect, BundleEffect, Undoes, ArchiveSteps
<1> QED
    BY <1>3, <1>4, <1>5, <1>6, <1>7, <1>9, <1>10, <1>11 DEF Left

LEMMA BeforeStays ==
    ASSUME Types, [Next]_vars, NEW m, InChain(m), Before(m), BundleStays(m.req),
           content[m.req] \subseteq content'[m.req]
    PROVE  Before(m)'
<1>1. Chain(m.req)' = Chain(m.req)
    BY ManagersFixed DEF InChain
<1> QED
    BY <1>1, LeftStays DEF Before, TaskDone

LEMMA BeforeOwnStep ==
    ASSUME Types, [Next]_vars, NEW w \in Workers, TaskStep(w), NEW m, m = worker[w].msg,
           Before(m)
    PROVE  Before(m)'
<1>1. worker[w] # Free /\ InChain(m) /\ m.req \in Requests /\ Task(w) = TaskOf(m)
    BY TaskFiles, BusyRuns DEF Running
<1>2. Chain(m.req)' = Chain(m.req)
    BY <1>1, ManagersFixed DEF InChain
<1>3. ASSUME NEW i \in 1..(m.pos - 1)
      PROVE  TaskDone(m.req, Chain(m.req)[i])'
    <2>0. PICK t : t = Chain(m.req)[i]
        OBVIOUS
    <2>1. m.pos \in 1..Len(Chain(m.req)) /\ i \in 1..Len(Chain(m.req)) /\ i # m.pos
        BY <1>1, <1>3, TasksOfChain DEF InChain
    <2>2. t # Task(w) /\ t \in TaskNames
        <3>1. \A j, k \in 1..Len(Chain(m.req)) : Chain(m.req)[j] = Chain(m.req)[k] => j = k
            BY <1>1, TasksOfChain DEF Lists
        <3>2. t \in TaskNames
            BY <1>1, <2>0, <2>1, TasksOfChain
        <3> QED
            BY <1>1, <2>0, <2>1, <3>1, <3>2 DEF TaskOf
    <2>3. TaskDone(m.req, t)
        BY <2>0 DEF Before
    <2>4. ASSUME NEW j \in 1..Len(Program(t))
          PROVE  Left(Program(t)[j], m.req, t)'
        <3>1. Does(Program(t), Program(t)[j]) /\ Left(Program(t)[j], m.req, t)
            BY <2>3 DEF TaskDone, Does
        <3> QED
            BY <2>2, <3>1, LeftUnlessUndone
    <2>5. TaskDone(m.req, t)'
        BY <2>4 DEF TaskDone
    <2> QED
        BY <1>2, <2>0, <2>5
<1> QED
    BY <1>2, <1>3 DEF Before

-----------------------------------------------------------------------------
(* What an execution has left *)

\* The execution x is past the step i of its task.
Passed(x, i) == i < x.at \/ x.phase = "returned"

\* What only the execution that did the step knows.
Own(w, x, step) ==
    /\ step = "finalize_nexus" => x.password = password[x.msg.req][TaskOf(x.msg)]
    /\ step = "open_archive" => bundle[x.msg.req].writer = w

Progress(w, x) ==
    \A i \in 1..Len(StepsOf(x.msg)) : Passed(x, i) =>
        /\ Left(StepsOf(x.msg)[i], x.msg.req, TaskOf(x.msg))
        /\ Own(w, x, StepsOf(x.msg)[i])

\* While a request is in progress nothing that its tasks have left is gone.
Progressing ==
    /\ \A m \in DOMAIN queue : Unsettled(m.req) => Before(m)
    /\ \A w \in Workers, x \in Execution : worker[w] = x /\ Unsettled(x.msg.req) =>
           Before(x.msg) /\ Progress(w, x)

\* The execution x is one step further than that of w, or its task is over.
Further(w, x) ==
    \/ x.phase = "returned" /\ x.at = worker[w].at /\ x.at = Len(Program(Task(w)))
    \/ x.phase = "run" /\ x.at = worker[w].at + 1

\* The step of w fails, or leaves what it is there for.
Leaves(w, step, r, t) ==
    \E x : /\ Moves(w, x)
           /\ \/ x.phase # "returned" /\ x.at = worker[w].at
              \/ /\ Further(w, x) /\ Left(step, r, t)'
                 /\ step = "open_archive" => bundle'[r].writer = w
           /\ step # "finalize_nexus" => x.password = worker[w].password
           /\ step = "finalize_nexus" => x.at = worker[w].at \/ x.password = password'[r][t]

LEMMA RaiseLeaves ==
    ASSUME Types, NEW w \in Workers, worker[w] # Free, Raise(w), NEW step, NEW r, NEW t
    PROVE  Leaves(w, step, r, t)
<1>1. PICK x : /\ Moves(w, x) /\ x.phase = "raised" /\ x.at = worker[w].at
               /\ x.password = worker[w].password
    BY BecomesMoves DEF Raise, Phases
<1> QED
    BY <1>1 DEF Leaves

LEMMA ProceedLeaves ==
    ASSUME Types, NEW w \in Workers, worker[w] # Free, Proceed(w), NEW step, NEW r, NEW t,
           Left(step, r, t)', step # "finalize_nexus",
           step = "open_archive" => bundle'[r].writer = w
    PROVE  Leaves(w, step, r, t)
<1>1. PICK x : /\ Moves(w, x) /\ x.password = worker[w].password
               /\ \/ x.phase = "returned" /\ x.at = worker[w].at
                     /\ x.at = Len(Program(Task(w)))
                  \/ x.phase = "run" /\ x.at = worker[w].at + 1
    BY ProceedMoves
<1>2. Further(w, x)
    BY <1>1 DEF Further
<1> QED
    BY <1>1, <1>2 DEF Leaves

\* The managers of a request come before the last two tasks.
LEMMA ManagersFirst ==
    ASSUME Types, NEW m, InChain(m), NEW t \in managers[m.req],
           TaskOf(m) \in EndTasks
    PROVE  \E i \in 1..(m.pos - 1) : Chain(m.req)[i] = t
<1> DEFINE c == Chain(m.req)
           n == Len(Chain(m.req))
<1>1. /\ m.req \in Requests /\ m.pos \in 1..n /\ c[m.pos] \in EndTasks
      /\ Lists(c, {"fetch_app_source"} \cup managers[m.req] \cup EndTasks)
      /\ n \in Nat /\ n >= 3
      /\ c[n] = "finalize_request" /\ c[n - 1] = "process_fetched_sources"
      /\ t \in TaskManagers
    BY TasksOfChain DEF InChain, TaskOf, Types, PipelineIInv, IInv, TypeOK
<1> HIDE DEF c, n
<1>2. /\ \E i \in 1..n : c[i] = t
      /\ \A i, j \in 1..n : c[i] = c[j] => i = j
    BY <1>1 DEF Lists, n, c
<1>3. PICK i \in 1..n : c[i] = t
    BY <1>2
<1>4. t \notin EndTasks
    BY <1>1 DEF TaskManagers, EndTasks
<1>5. i # n /\ i # n - 1
    BY <1>1, <1>3, <1>4 DEF EndTasks
<1>6. m.pos = n \/ m.pos = n - 1
    <2>1. n \in 1..n /\ n - 1 \in 1..n
        BY <1>1
    <2> QED
        BY <1>1, <1>2, <2>1 DEF EndTasks
<1> QED
    BY <1>1, <1>3, <1>5, <1>6 DEF c

LEMMA StepLeaves ==
    ASSUME Types, OneToken, HasNewest, NEW w \in Workers, TaskStep(w),
           NEW x, x = worker[w], NEW r, r = x.msg.req, NEW t, t = Task(w),
           NEW step, step = StepOf(w),
           Unsettled(r), Before(x.msg), Progress(w, x)
    PROVE  Leaves(w, step, r, t)
<1>1. /\ worker[w] # Free /\ r \in Requests /\ r \in published /\ Submitted(r)
      /\ t \in TaskNames /\ t = TaskOf(x.msg) /\ InChain(x.msg)
      /\ x.at \in 1..Len(Program(t)) /\ step = Program(t)[x.at]
      /\ StepsOf(x.msg) = Program(t) /\ x \in Execution
    BY TaskFiles, BusyRuns DEF StepOf, StepsOf, Types, Located, Running
<1>2. ASSUME NEW i \in 1..(x.at - 1)
      PROVE  Own(w, x, Program(t)[i])
    <2>1. i \in 1..Len(Program(t)) /\ Passed(x, i)
        BY <1>1, <1>2 DEF Passed
    <2> QED
        BY <1>1, <2>1 DEF Progress
<1>3. /\ nexus \in [Requests -> SUBSET (NexusManagers \X NexusItems)]
      /\ files \in [Requests -> SUBSET Files]
      /\ content \in [Requests -> SUBSET Contents]
      /\ bundle \in [Requests -> BundleInfo] /\ bundle[r] \in BundleInfo
      /\ password \in [Requests -> [NexusManagers -> Nat]]
      /\ configs \in [Requests -> SUBSET (NexusManagers \X Nat)]
    BY <1>1 DEF Types, PipelineTypeOK, TypeOK
<1>4. CASE CheckState(w, r)
    <2>1. Proceed(w) /\ step = "check"
        BY <1>1, <1>4, UnsettledRuns DEF CheckState, Doing
    <2>2. Left(step, r, t)'
        BY <2>1 DEF Left
    <2> QED
        BY <1>1, <2>1, <2>2, ProceedLeaves
<1>5. CASE \/ QuietCall(w, r) \/ Unpack(w, r) \/ OpenDir(w, r) \/ Verify(w, r)
           \/ Resolve(w, r) \/ CheckCounts(w, r)
    <2>1. /\ Proceed(w) \/ Raise(w)
          /\ step \in {"environment", "counts", "unpack", "open_dir", "verify", "resolve", "count"}
        BY <1>5 DEF QuietCall, Unpack, OpenDir, Verify, Resolve, CheckCounts, Doing
    <2>2. Left(step, r, t)'
        BY <2>1 DEF Left
    <2> QED
        BY <1>1, <2>1, <2>2, ProceedLeaves, RaiseLeaves
<1>6. CASE PrepareNexus(w, r)
    <2>0. PICK items : items = IF t \in JsManagers THEN {"repo", "open"} ELSE {"repo"}
        OBVIOUS
    <2>1. /\ nexus' = [nexus EXCEPT ![r] = @ \cup ({t} \X items)]
          /\ "repo" \in items
        BY <1>6, <2>0 DEF PrepareNexus
    <2>2. Proceed(w) /\ step = "prepare_nexus"
        BY <1>6 DEF PrepareNexus, Doing
    <2>3. <<t, "repo">> \in nexus'[r]
        BY <1>1, <1>3, <2>1
    <2>4. Left(step, r, t)'
        BY <2>2, <2>3 DEF Left
    <2> QED
        BY <1>1, <2>2, <2>4, ProceedLeaves
<1>7. CASE WritePackages(w, r)
    <2>1. step = "write_packages" /\ (Raise(w) \/ (Proceed(w) /\ t \in content'[r]))
        <3>1. /\ step = "write_packages"
              /\ \/ Proceed(w) /\ content' = [content EXCEPT ![r] = @ \cup {t}]
                 \/ Raise(w)
            BY <1>7 DEF WritePackages, Doing
        <3> QED
            BY <1>1, <1>3, <3>1
    <2>2. CASE Proceed(w) /\ t \in content'[r]
        <3>1. Left(step, r, t)'
            BY <2>1, <2>2 DEF Left
        <3> QED
            BY <1>1, <2>1, <2>2, <3>1, ProceedLeaves
    <2> QED
        BY <1>1, <2>1, <2>2, RaiseLeaves
<1>8. CASE FinalizeNexus(w, r)
    <2>0. step = "finalize_nexus"
        BY <1>8 DEF FinalizeNexus, Doing
    <2>1. PICK y : /\ Moves(w, y)
                   /\ \/ y.phase = "raised" /\ y.at = worker[w].at
                      \/ /\ y.phase = "run" /\ y.at = worker[w].at + 1
                         /\ y.password = password[r][t] + 1
                         /\ nexus' = [nexus EXCEPT ![r] = (@ \ {<<t, "open">>})
                                                              \cup {<<t, "user">>}]
                         /\ password' = [password EXCEPT ![r][t] = password[r][t] + 1]
        BY <1>8, FinalizeMoves
    <2>2. CASE y.phase = "raised" /\ y.at = worker[w].at
        BY <2>0, <2>1, <2>2 DEF Leaves
    <2>3. CASE y.phase = "run" /\ y.at = worker[w].at + 1
        <3>1. nexus'[r] = (nexus[r] \ {<<t, "open">>}) \cup {<<t, "user">>}
            BY <1>1, <1>3, <2>1, <2>3
        <3>2. Left(step, r, t)'
            BY <2>0, <3>1 DEF Left
        <3>3. y.password = password'[r][t]
            <4>1. t \in NexusManagers
                BY <1>1, <2>0, ProgramSteps DEF NexusSteps
            <4> DEFINE more == password[r][t] + 1
            <4>2. y.password = more /\ password' = [password EXCEPT ![r][t] = more]
                BY <2>1, <2>3
            <4> HIDE DEF more
            <4> QED
                BY <1>1, <1>3, <4>1, <4>2
        <3>4. Further(w, y)
            BY <2>3 DEF Further
        <3> QED
            BY <2>0, <2>1, <3>2, <3>3, <3>4 DEF Leaves
    <2> QED
        BY <2>1, <2>2, <2>3
<1>9. CASE GiveAccess(w, r)
    <2>1. /\ Proceed(w) /\ step = "give_access" /\ UNCHANGED password
          /\ configs' = [configs EXCEPT ![r] = @ \cup {<<t, worker[w].password>>}]
        BY <1>9 DEF GiveAccess, Doing
    <2>2. PICK i \in 1..(x.at - 1) : Program(t)[i] = "finalize_nexus"
        BY <1>1, <2>1, Programs DEF Orderly
    <2>3. worker[w].password = password[r][t]
        BY <1>1, <1>2, <2>2 DEF Own
    <2>4. <<t, password'[r][t]>> \in configs'[r]
        BY <1>1, <1>3, <2>1, <2>3
    <2>5. Left(step, r, t)'
        BY <2>1, <2>4 DEF Left
    <2> QED
        BY <1>1, <2>1, <2>5, ProceedLeaves
<1>10. CASE OpenArchive(w, r)
    <2>1. ~\E v \in Workers \ {w} : Doing(v, "close_archive") /\ worker[v].msg.req = r
        BY <1>1 DEF OneToken, Doing
    <2>2. /\ step = "open_archive" /\ MakeTemp(r, {"archive"}) /\ (Proceed(w) \/ Raise(w))
          /\ bundle' = [bundle EXCEPT ![r].writer = w,
                                      ![r].whole = FALSE, ![r].sealed = FALSE]
        BY <1>10, <2>1 DEF OpenArchive, Doing
    <2>3. "archive" \in files'[r]
        BY <1>1, <1>3, <2>2 DEF MakeTemp
    <2>4. bundle'[r].writer = w
        BY <1>1, <1>3, <2>2 DEF BundleInfo
    <2>5. Left(step, r, t)'
        BY <2>2, <2>3 DEF Left
    <2> QED
        BY <1>1, <2>2, <2>4, <2>5, ProceedLeaves, RaiseLeaves
<1>11. CASE CloseArchive(w, r)
    <2>1. /\ Proceed(w) /\ step = "close_archive"
          /\ bundle' = [bundle EXCEPT ![r].whole = bundle[r].writer = w, ![r].sealed = FALSE]
        BY <1>11 DEF CloseArchive, Doing
    <2>2. PICK i \in 1..(x.at - 1) : Program(t)[i] = "open_archive"
        BY <1>1, <2>1, Programs DEF Orderly
    <2>3. bundle[r].writer = w
        BY <1>2, <2>2 DEF Own
    <2>4. bundle'[r].whole
        BY <1>1, <1>3, <2>1, <2>3 DEF BundleInfo
    <2>5. Left(step, r, t)'
        BY <2>1, <2>4 DEF Left
    <2> QED
        BY <1>1, <2>1, <2>5, ProceedLeaves
<1>12. CASE SaveChecksum(w, r)
    <2>1. /\ step = "checksum"
          /\ \/ Raise(w)
             \/ /\ Proceed(w) /\ MakeTemp(r, {"checksum"})
                /\ bundle' = [bundle EXCEPT ![r].sealed = TRUE]
        BY <1>12 DEF SaveChecksum, Doing
    <2>2. CASE Proceed(w) /\ MakeTemp(r, {"checksum"})
               /\ bundle' = [bundle EXCEPT ![r].sealed = TRUE]
        <3>1. "checksum" \in files'[r] /\ bundle'[r].sealed
            BY <1>1, <1>3, <2>2 DEF MakeTemp, BundleInfo
        <3>2. Left(step, r, t)'
            BY <2>1, <3>1 DEF Left
        <3> QED
            BY <1>1, <2>1, <2>2, <3>2, ProceedLeaves
    <2> QED
        BY <1>1, <2>1, <2>2, RaiseLeaves
<1>13. CASE Aggregate(w, r)
    <2>1. /\ step = "aggregate" /\ MakeTemp(r, {"packages"})
          /\ bundle' = [bundle EXCEPT ![r].listed = Listing(r)]
        BY <1>13 DEF Aggregate, Doing
    <2>2. t = "process_fetched_sources"
        BY <1>1, <2>1, ProgramSteps DEF ArchiveSteps
    <2>3. ASSUME NEW m \in managers[r]
          PROVE  m \in content[r]
        <3>1. PICK i \in 1..(x.msg.pos - 1) : Chain(r)[i] = m
            BY <1>1, <2>2, ManagersFirst DEF EndTasks
        <3>2. TaskDone(r, m)
            BY <3>1 DEF Before
        <3>3. m \in TaskManagers
            BY <1>1, TasksOfChain
        <3>4. Does(Program(m), "write_packages")
            BY <3>3, Programs DEF TaskNames
        <3> QED
            BY <3>2, <3>4 DEF TaskDone, Does, Left
    <2>4. Listing(r) = "full"
        BY <2>3 DEF Listing
    <2>5. "packages" \in files'[r] /\ bundle'[r].listed = "full"
        BY <1>1, <1>3, <2>1, <2>4 DEF MakeTemp, BundleInfo
    <2>6. Left(step, r, t)'
        BY <2>1, <2>5 DEF Left
    <2>7. PICK y : /\ Moves(w, y) /\ y.phase = "run" /\ y.at = worker[w].at + 1
                   /\ y.password = worker[w].password
        BY <1>13, AggregateMoves
    <2> QED
        BY <2>1, <2>6, <2>7 DEF Leaves, Further
<1> QED
    BY <1>4, <1>5, <1>6, <1>7, <1>8, <1>9, <1>10, <1>11, <1>12, <1>13, TaskDoes

\* A step of the execution itself.
LEMMA ProgressOwnStep ==
    ASSUME Types, OneToken, HasNewest, [Next]_vars, NEW w \in Workers, TaskStep(w),
           NEW x, x = worker[w], Unsettled(x.msg.req), Before(x.msg), Progress(w, x),
           NEW y, y = worker'[w]
    PROVE  Progress(w, y)'
<1>0. PICK r, t, step : r = x.msg.req /\ t = Task(w) /\ step = StepOf(w)
    OBVIOUS
<1>1. /\ worker[w] # Free /\ t = TaskOf(x.msg) /\ InChain(x.msg) /\ t \in TaskNames
      /\ x.at \in 1..Len(Program(t)) /\ step = Program(t)[x.at] /\ Len(Program(t)) \in Nat
      /\ StepsOf(x.msg) = Program(t)
    BY <1>0, TaskFiles, BusyRuns DEF StepOf, StepsOf, Running
<1>2. Leaves(w, step, r, t)
    BY <1>0, StepLeaves
<1>3. /\ y.msg = x.msg
      /\ \/ y.phase # "returned" /\ y.at = x.at
         \/ /\ Further(w, y) /\ Left(step, r, t)'
            /\ step = "open_archive" => bundle'[r].writer = w
      /\ step # "finalize_nexus" => y.password = x.password
      /\ step = "finalize_nexus" => y.at = x.at \/ y.password = password'[r][t]
    BY <1>2 DEF Leaves, Moves, Types, PipelineTypeOK
<1>4. TaskOf(y.msg)' = t
    BY <1>1, <1>3, InChainLasts
<1>5. /\ NexusEffect(step, r, t) /\ BundleEffect(step, r)
    BY <1>0, TaskEffects
<1>6. ASSUME NEW i \in 1..Len(Program(t)), Passed(y, i), NEW s, s = Program(t)[i]
      PROVE  Left(s, r, t)' /\ Own(w, y, s)'
    <2>1. i < x.at \/ (i = x.at /\ Further(w, y))
        BY <1>0, <1>1, <1>3, <1>6 DEF Passed, Further
    <2>2. CASE i < x.at
        <3>1. Left(s, r, t) /\ Own(w, x, s)
            BY <1>0, <1>1, <1>6, <2>2 DEF Progress, Passed
        <3>2. ~Undoes(step, s) /\ Does(Program(t), s)
            BY <1>1, <1>6, <2>2, Programs DEF Orderly, Does
        <3>3. Left(s, r, t)'
            BY <1>0, <1>1, <3>1, <3>2, LeftUnlessUndone
        <3>4. s = "finalize_nexus" => y.password = password'[r][t]
            <4>1. ASSUME s = "finalize_nexus"
                  PROVE  t \in NexusManagers /\ step # "finalize_nexus"
                BY <1>1, <1>6, <3>2, <4>1, ProgramSteps DEF NexusSteps, Undoes
            <4> QED
                BY <1>0, <1>1, <1>3, <1>5, <3>1, <4>1 DEF Own, NexusEffect
        <3>5. s = "open_archive" => bundle'[r].writer = w
            BY <1>0, <1>5, <3>1, <3>2 DEF Own, BundleEffect, Undoes, ArchiveSteps
        <3> QED
            BY <1>0, <1>3, <1>4, <3>3, <3>4, <3>5 DEF Own
    <2>3. CASE i = x.at /\ Further(w, y)
        <3>1. s = step
            BY <1>1, <1>6, <2>3
        <3>2. step = "finalize_nexus" => y.at # x.at
            <4>1. step = "finalize_nexus" => x.at < Len(Program(t))
                BY <1>1, ProgramSteps
            <4> QED
                BY <1>0, <1>1, <2>3, <4>1 DEF Further
        <3>3. Left(step, r, t)' /\ (step = "open_archive" => bundle'[r].writer = w)
            BY <1>0, <1>1, <1>3, <2>3 DEF Further
        <3> QED
            BY <1>0, <1>3, <1>4, <3>1, <3>2, <3>3 DEF Own
    <2> QED
        BY <2>1, <2>2, <2>3
<1> QED
    BY <1>0, <1>3, <1>4, <1>6 DEF Progress, StepsOf

\* The execution calls, fails, or is answered.
LEMMA ProgressGoesOn ==
    ASSUME Types, [Next]_vars, NEW w \in Workers, GoesOn(w), NEW x, x = worker[w],
           Progress(w, x), BundleStays(x.msg.req),
           content[x.msg.req] \subseteq content'[x.msg.req], NEW y, y = worker'[w]
    PROVE  Progress(w, y)'
<1>0. PICK r, t, step : r = x.msg.req /\ t = Task(w) /\ step = StepOf(w)
    OBVIOUS
<1>1. /\ worker[w] # Free /\ t = TaskOf(x.msg) /\ InChain(x.msg) /\ t \in TaskNames
      /\ x.at \in 1..Len(Program(t)) /\ step = Program(t)[x.at] /\ Len(Program(t)) \in Nat
      /\ StepsOf(x.msg) = Program(t)
    BY <1>0, BusyRuns DEF GoesOn, StepOf, StepsOf, Running
<1>3. /\ y.msg = x.msg /\ y.password = x.password
      /\ \/ y.at = x.at /\ y.phase # "returned"
         \/ step \in PatchSteps /\ y.phase = "returned" /\ y.at = x.at
               /\ x.at = Len(Program(t))
         \/ step \in PatchSteps /\ y.phase = "run" /\ y.at = x.at + 1
    BY <1>0 DEF GoesOn, Moves, Types, PipelineTypeOK
<1>4. TaskOf(y.msg)' = t
    BY <1>1, <1>3, InChainLasts
<1>6. ASSUME NEW i \in 1..Len(Program(t)), Passed(y, i), NEW s, s = Program(t)[i]
      PROVE  Left(s, r, t)' /\ Own(w, y, s)'
    <2>1. i < x.at \/ (i = x.at /\ step \in PatchSteps)
        BY <1>0, <1>1, <1>3, <1>6 DEF Passed
    <2>2. CASE i < x.at
        <3>1. Left(s, r, t) /\ Own(w, x, s)
            BY <1>0, <1>1, <1>6, <2>2 DEF Progress, Passed
        <3>2. Left(s, r, t)'
            BY <1>0, <3>1, LeftStays
        <3> QED
            BY <1>0, <1>1, <1>3, <1>4, <3>1, <3>2 DEF Own, BundleStays
    <2>3. CASE i = x.at /\ step \in PatchSteps
        BY <1>1, <1>6, <2>3 DEF PatchSteps, Left, Own
    <2> QED
        BY <2>1, <2>2, <2>3
<1> QED
    BY <1>0, <1>3, <1>4, <1>6 DEF Progress, StepsOf

LEMMA ProgressStays ==
    ASSUME Types, [Next]_vars, NEW w \in Workers, NEW x, InChain(x.msg),
           Progress(w, x), BundleStays(x.msg.req),
           content[x.msg.req] \subseteq content'[x.msg.req]
    PROVE  Progress(w, x)'
<1>0. PICK r, t : r = x.msg.req /\ t = TaskOf(x.msg)
    OBVIOUS
<1>1. TaskOf(x.msg)' = t
    BY <1>0, InChainLasts
<1>2. ASSUME NEW i \in 1..Len(Program(t)), Passed(x, i), NEW s, s = Program(t)[i]
      PROVE  Left(s, r, t)' /\ Own(w, x, s)'
    <2>1. Left(s, r, t) /\ Own(w, x, s)
        BY <1>0, <1>2 DEF Progress, StepsOf
    <2>2. Left(s, r, t)'
        BY <1>0, <2>1, LeftStays
    <2> QED
        BY <1>0, <1>1, <2>1, <2>2 DEF Own, BundleStays
<1> QED
    BY <1>0, <1>1, <1>2 DEF Progress, StepsOf

\* With one token per request, only its execution changes what is kept of a request.
LEMMA ProgressingStep ==
    ASSUME NoRedelivery, Types, CreatedOnce, OneToken, CleanupsJustified, HasNewest,
           TempHoldsContent, Progressing, PipelineNext
    PROVE  Progressing'
<1>0. [Next]_vars /\ IInv
    BY ApiStep DEF Types, PipelineIInv
<1>1. ASSUME NEW r \in Requests, Unsettled(r)'
      PROVE  /\ Unsettled(r) /\ content[r] \subseteq content'[r]
             /\ BundleStays(r) \/ \E w \in Workers : TaskStep(w) /\ worker[w].msg.req = r
    <2>1. Unsettled(r)
        BY <1>0, <1>1, HasBeenStays DEF Unsettled
    <2>2. Undisturbed(r)
        BY <2>1 DEF Unsettled, Undisturbed, HasBeen
    <2> QED
        BY <2>1, <2>2, BundleStay, ContentStays
<1>2. ASSUME NEW m, m \in DOMAIN queue', Unsettled(m.req)'
      PROVE  Before(m)'
    <2>1. InChain(m)' /\ m.req \in Requests
        BY <1>2, TypesStep, Counts DEF Types, Located, InChain, Message
    <2>2. /\ Unsettled(m.req) /\ content[m.req] \subseteq content'[m.req]
          /\ BundleStays(m.req) \/ \E w \in Workers : TaskStep(w) /\ worker[w].msg.req = m.req
        BY <1>1, <1>2, <2>1
    <2>3. ASSUME NEW w \in Workers, TaskStep(w), worker[w].msg.req = m.req
          PROVE  FALSE
        <3>1. worker[w] # Free /\ m \in DOMAIN queue
            BY <1>2, <2>3, TaskFiles
        <3> QED
            BY <2>3, <3>1 DEF OneToken
    <2>4. BundleStays(m.req)
        BY <2>2, <2>3
    <2>5. CASE m \in DOMAIN queue
        <3>1. Before(m) /\ InChain(m)
            BY <2>2, <2>5, Counts DEF Progressing
        <3> QED
            BY <1>0, <2>2, <2>4, <3>1, BeforeStays
    <2>6. CASE m.pos = 1
        BY <2>6 DEF Before
    <2>7. ASSUME NEW w \in Workers, worker[w] # Free, m = worker[w].msg
          PROVE  Before(m)'
        <3>1. PICK x \in Execution : x = worker[w] /\ m = x.msg
            BY <2>7, BusyRuns
        <3>2. Before(m) /\ InChain(m)
            BY <2>2, <2>7, <3>1, NextInChain DEF Progressing
        <3> QED
            BY <1>0, <2>2, <2>4, <3>2, BeforeStays
    <2>8. ASSUME NEW w \in Workers, worker[w] # Free, worker[w].phase = "returned",
                 ~IsLast(w), m = NextMessage(w)
          PROVE  Before(m)'
        <3>1. PICK x \in Execution : x = worker[w]
            BY <2>8, BusyRuns
        <3>2. /\ InChain(m) /\ m.req = x.msg.req /\ m.pos = x.msg.pos + 1
              /\ x.msg.pos \in 1..Len(Chain(m.req)) /\ InChain(x.msg)
            BY <2>8, <3>1, NextInChain DEF InChain
        <3>3. Before(x.msg) /\ Progress(w, x)
            BY <2>2, <3>1, <3>2 DEF Progressing
        <3>4. TaskDone(m.req, Chain(m.req)[x.msg.pos])
            BY <2>8, <3>1, <3>2, <3>3 DEF Progress, Passed, TaskDone, StepsOf, TaskOf
        <3>5. ASSUME NEW i \in 1..(m.pos - 1)
              PROVE  TaskDone(m.req, Chain(m.req)[i])
            <4>1. i \in 1..(x.msg.pos - 1) \/ i = x.msg.pos
                BY <3>2
            <4> QED
                BY <3>2, <3>3, <3>4, <4>1 DEF Before
        <3>6. Before(m)
            BY <3>5 DEF Before
        <3> QED
            BY <1>0, <2>2, <2>4, <3>2, <3>6, BeforeStays
    <2> QED
        BY <1>2, <2>5, <2>6, <2>7, <2>8, OneMessage
<1>3. ASSUME NEW w \in Workers, NEW y \in Execution, y = worker'[w], Unsettled(y.msg.req)'
      PROVE  Before(y.msg)' /\ Progress(w, y)'
    <2>0. PICK x : x = worker[w]
        OBVIOUS
    <2>1. y # Free /\ worker'[w] # Free
        BY <1>3, FreeIsIdle
    <2>2. y.msg.req \in Requests
        BY DEF Execution, Message
    <2>3. /\ Unsettled(y.msg.req) /\ content[y.msg.req] \subseteq content'[y.msg.req]
          /\ \/ BundleStays(y.msg.req)
             \/ \E v \in Workers : TaskStep(v) /\ worker[v].msg.req = y.msg.req
        BY <1>1, <1>3, <2>2
    <2>4. ASSUME worker[w] # Free, y.msg = worker[w].msg
          PROVE  Before(x.msg) /\ Progress(w, x) /\ InChain(x.msg) /\ x \in Execution
        <3>1. x \in Execution /\ InChain(x.msg)
            BY <2>0, <2>4, BusyRuns DEF Running
        <3> QED
            BY <2>0, <2>3, <2>4, <3>1 DEF Progressing
    <2>5. ASSUME NEW v \in Workers, TaskStep(v), worker[v].msg.req = y.msg.req
          PROVE  Before(y.msg)' /\ Progress(w, y)'
        <3>1. worker[v] # Free /\ \A m \in DOMAIN queue : m.req # y.msg.req
            BY <2>5, TaskFiles DEF OneToken
        <3>2. worker[w] # Free /\ y.msg = worker[w].msg
            BY <1>3, <2>1, <3>1, OneExecution
        <3>3. v = w
            BY <2>5, <3>1, <3>2 DEF OneToken
        <3>4. y.msg = x.msg /\ Before(x.msg) /\ Progress(w, x) /\ Unsettled(x.msg.req)
            BY <2>0, <2>3, <2>4, <3>2
        <3>5. Before(x.msg)'
            BY <1>0, <2>0, <2>5, <3>3, <3>4, BeforeOwnStep
        <3>6. Progress(w, y)'
            BY <1>0, <1>3, <2>0, <2>5, <3>3, <3>4, ProgressOwnStep
        <3> QED
            BY <3>4, <3>5, <3>6
    <2>6. CASE BundleStays(y.msg.req)
        <3>1. CASE y = worker[w]
            <4>1. worker[w] # Free /\ x = y
                BY <2>0, <2>1, <3>1
            <4>2. Before(y.msg) /\ Progress(w, y) /\ InChain(y.msg)
                BY <2>0, <2>4, <4>1
            <4> QED
                BY <1>0, <2>3, <2>6, <4>2, BeforeStays, ProgressStays
        <3>2. ASSUME NEW m \in DOMAIN queue, y.msg = m, y.at = 1, y.phase = "run"
              PROVE  Before(y.msg)' /\ Progress(w, y)'
            <4>1. Before(m) /\ InChain(m)
                BY <2>3, <3>2, Counts DEF Progressing
            <4>2. Before(m)'
                BY <1>0, <2>3, <2>6, <3>2, <4>1, BeforeStays
            <4>3. Progress(w, y)'
                BY <3>2 DEF Progress, Passed
            <4> QED
                BY <3>2, <4>2, <4>3
        <3>3. CASE TaskStep(w) /\ worker[w] # Free /\ y.msg = worker[w].msg
            BY <2>5, <3>3
        <3>4. CASE GoesOn(w) /\ worker[w] # Free /\ y.msg = worker[w].msg
            <4>1. Before(x.msg) /\ Progress(w, x) /\ InChain(x.msg) /\ y.msg = x.msg
                BY <2>0, <2>4, <3>4
            <4>2. Before(x.msg)'
                BY <1>0, <2>3, <2>6, <4>1, BeforeStays
            <4>3. Progress(w, y)'
                BY <1>0, <1>3, <2>0, <2>3, <2>6, <3>4, <4>1, ProgressGoesOn
            <4> QED
                BY <4>1, <4>2, <4>3
        <3> QED
            BY <1>3, <2>1, <3>1, <3>2, <3>3, <3>4, OneExecution
    <2> QED
        BY <2>3, <2>5, <2>6
<1>4. \A m \in DOMAIN queue' : Unsettled(m.req)' => Before(m)'
    BY <1>2
<1>5. \A w \in Workers, y \in Execution :
          worker'[w] = y /\ Unsettled(y.msg.req)' => Before(y.msg)' /\ Progress(w, y)'
    BY <1>3
<1> QED
    BY <1>4, <1>5 DEF Progressing

-----------------------------------------------------------------------------
(* A request that completes can be used *)

\* What the tasks before finalize_request leave is what Usable asks for.
LEMMA DoneIsUsable ==
    ASSUME Types, NexusOfManagers, NEW m, InChain(m), AtEnd(m), Before(m)
    PROVE  Usable(m.req)
<1> DEFINE r == m.req
           c == Chain(m.req)
           n == Len(Chain(m.req))
<1>1. /\ r \in Requests /\ m.pos = n /\ n \in Nat /\ n >= 3
      /\ c[n] = "finalize_request" /\ c[n - 1] = "process_fetched_sources"
      /\ TaskOf(m) \in EndTasks
    BY TasksOfChain DEF InChain, Message, AtEnd, TaskOf, EndTasks
<1>2. ASSUME NEW t \in TaskNames, NEW i \in 1..(m.pos - 1), c[i] = t, NEW step,
             Does(Program(t), step)
      PROVE  Left(step, r, t)
    BY <1>2 DEF Before, TaskDone, Does
<1>3. \A step \in ArchiveSteps : Left(step, r, "process_fetched_sources")
    <2>1. n - 1 \in 1..(m.pos - 1) /\ "process_fetched_sources" \in TaskNames
        BY <1>1 DEF TaskNames, EndTasks
    <2> HIDE DEF c, n, r
    <2> QED
        BY <1>1, <1>2, <2>1, Programs
<1>4. ASSUME NEW t \in managers[r] \cap NexusManagers
      PROVE  \A step \in NexusSteps : Left(step, r, t)
    <2>1. PICK i \in 1..(m.pos - 1) : c[i] = t
        BY <1>1, ManagersFirst
    <2>2. t \in TaskNames
        BY DEF NexusManagers, TaskNames, TaskManagers
    <2> HIDE DEF c, n, r
    <2> QED
        BY <1>2, <2>1, <2>2, Programs
<1> HIDE DEF c, n, r
<1>5. /\ {"archive", "checksum", "packages"} \subseteq files[r]
      /\ bundle[r].whole /\ bundle[r].sealed /\ bundle[r].listed = "full"
    BY <1>3 DEF ArchiveSteps, Left
<1>6. ASSUME NEW t \in managers[r] \cap NexusManagers
      PROVE  /\ <<t, "user">> \in nexus[r] /\ <<t, "repo">> \in nexus[r]
             /\ <<t, password[r][t]>> \in configs[r] /\ <<t, "open">> \notin nexus[r]
    BY <1>4, <1>6 DEF NexusSteps, Left
<1>7. ASSUME NEW t \in JsManagers, <<t, "open">> \in nexus[r]
      PROVE  FALSE
    <2>1. t \in NexusManagers
        BY DEF JsManagers, NexusManagers
    <2>2. t \in managers[r]
        BY <1>1, <1>7, <2>1 DEF NexusOfManagers, NexusItems
    <2> QED
        BY <1>6, <1>7, <2>1, <2>2
<1>8. Usable(r)
    BY <1>5, <1>6, <1>7 DEF Usable
<1> QED
    BY <1>8 DEF r

LEMMA UsableStays ==
    ASSUME NEW r, Usable(r), BundleStays(r), managers'[r] = managers[r]
    PROVE  Usable(r)'
BY DEF Usable, BundleStays

CompletingIsUsable == \A r \in Requests : Undisturbed(r) /\ Completing(r) => Usable(r)

LEMMA CompletingIsUsableStep ==
    ASSUME Types, CleanupsJustified, NexusOfManagers, CompletesLast, Progressing,
           CompletingIsUsable, PipelineNext
    PROVE  CompletingIsUsable'
<1> SUFFICES ASSUME NEW r \in Requests, Undisturbed(r)', Completing(r)'
             PROVE  Usable(r)'
    BY DEF CompletingIsUsable
<1>0. [Next]_vars /\ IInv
    BY ApiStep DEF Types, PipelineIInv
<1>1. Undisturbed(r)
    BY <1>0, HasBeenStays DEF Undisturbed
<1>2. CASE Completing(r)
    <2>1. Usable(r) /\ r \in published
        BY <1>1, <1>2 DEF CompletingIsUsable, CompletesLast
    <2>2. managers'[r] = managers[r]
        BY <1>0, <2>1, ManagersFixed
    <2>3. ASSUME NEW w \in Workers, TaskStep(w), worker[w].msg.req = r
          PROVE  BundleStays(r)
        <3>1. worker[w] # Free /\ InChain(worker[w].msg) /\ worker[w].msg \in Message
            BY <2>3, TaskFiles, BusyRuns DEF Running, InChain
        <3>2. AtEnd(worker[w].msg)
            BY <1>2, <2>3, <3>1 DEF CompletesLast
        <3>3. Task(w) = "finalize_request"
            BY <2>3, <3>2, TasksOfChain DEF AtEnd, Task
        <3>4. StepOf(w) \notin NexusSteps \cup ArchiveSteps
            <4>1. /\ Task(w) \in TaskNames /\ worker[w].at \in 1..Len(Program(Task(w)))
                  /\ StepOf(w) = Program(Task(w))[worker[w].at]
                BY <3>1, BusyRuns DEF StepOf
            <4>2. Task(w) \notin NexusManagers
                BY <3>3 DEF NexusManagers
            <4> QED
                BY <3>3, <4>1, <4>2, ProgramSteps
        <3>5. FilesEffect(r) /\ NexusEffect(StepOf(w), r, Task(w)) /\ BundleEffect(StepOf(w), r)
            BY <2>3, TaskEffects
        <3> QED
            BY <3>4, <3>5 DEF FilesEffect, NexusEffect, BundleEffect, BundleStays
    <2> QED
        BY <1>1, <2>1, <2>2, <2>3, BundleStay, UsableStays
<1>3. CASE ~Completing(r)
    <2>1. PICK w \in Workers, h \in Handlers :
              /\ SayState(w, h) /\ worker[w] # Free /\ worker[w].msg.req = r
              /\ worker[w].phase = "run" /\ StepOf(w) = "say_complete"
        BY <1>3, CompletingBegins
    <2>2. PICK x \in Execution : x = worker[w]
        BY <2>1, BusyRuns
    <2>3. InChain(x.msg) /\ AtEnd(x.msg) /\ x.msg.req = r
        BY <2>1, <2>2, BusyRuns, LastStep DEF FinalSteps, Running
    <2>4. Unsettled(r)
        BY <1>1, <1>3 DEF Unsettled, Undisturbed, Completing, HasBeen
    <2>5. Before(x.msg)
        BY <2>2, <2>3, <2>4 DEF Progressing
    <2>6. Usable(r)
        BY <2>3, <2>5, DoneIsUsable
    <2>7. UNCHANGED <<files, managers, bundle, nexusVars>>
        BY <2>1 DEF SayState, Tell, PatchBegin
    <2> QED
        BY <2>6, <2>7 DEF Usable, nexusVars
<1> QED
    BY <1>2, <1>3

-----------------------------------------------------------------------------
(* A request that failed or expired does not complete *)

\* As long as its transactions do not overlap, a settled request is only marked as stale.
NoReturn ==
    \A r \in Requests : ~Overlapped(r) /\ HasBeen(r, {"failed", "stale"}) =>
        Current(r).state \in {"failed", "stale"}

LEMMA NoReturnStep ==
    ASSUME IInv, NoReturn, [Next]_vars
    PROVE  NoReturn'
<1> SUFFICES ASSUME NEW r \in Requests, ~Overlapped(r)', HasBeen(r, {"failed", "stale"})'
             PROVE  Current(r)'.state \in {"failed", "stale"}
    BY DEF NoReturn
<1>0. rows[r] \in Seq(Row)
    BY DEF IInv, TypeOK
<1>1. CASE rows'[r] = rows[r]
    BY <1>1 DEF NoReturn, Overlapped, HasBeen, Current
<1>2. CASE \E row : rows[r] = <<>> /\ rows'[r] = <<row>> /\ row.state = "in_progress"
    <2>1. PICK row : rows'[r] = <<row>> /\ row.state = "in_progress"
        BY <1>2
    <2>2. PICK i \in DOMAIN rows'[r] : rows'[r][i].state \in {"failed", "stale"}
        BY DEF HasBeen
    <2> QED
        BY <2>1, <2>2
<1>3. ASSUME NEW h \in Handlers, Next, handler[h] # Idle, handler[h].step = "read",
             handler[h].req = r, handler[h].adds, Commit(h),
             rows'[r] = Append(rows[r], [state |-> handler[h].state,
                                         reason |-> handler[h].reason,
                                         updated |-> handler[h].began,
                                         seen |-> handler[h].seen])
      PROVE  Current(r)'.state \in {"failed", "stale"}
    <2> DEFINE row == [state |-> handler[h].state, reason |-> handler[h].reason,
                       updated |-> handler[h].began, seen |-> handler[h].seen]
               n == Len(rows[r])
    <2>1. row \in Row /\ row.state = handler[h].state /\ row.seen = handler[h].seen
        BY <1>3, CommittedRow
    <2>2. rows'[r] = Append(rows[r], row)
        BY <1>3
    <2>3. /\ handler[h].seen \in 1..n
          /\ AllowTransition(rows[r][handler[h].seen].state, handler[h].state)
        BY <1>3 DEF IInv, CallsJustified, CallJustified
    <2> HIDE DEF row
    <2>4. /\ n \in Nat /\ Len(rows'[r]) = n + 1
          /\ \A j \in 1..n : rows'[r][j] = rows[r][j]
          /\ rows'[r][n + 1] = row
          /\ DOMAIN rows'[r] = 1..(n + 1) /\ DOMAIN rows[r] = 1..n
        BY <1>0, <2>1, <2>2, Appended
    <2> HIDE DEF n
    <2>5. Current(r)' = row
        BY <2>4 DEF Current
    <2>6. row.seen = n
        <3>1. \A i \in DOMAIN rows'[r] : rows'[r][i].seen = i - 1
            BY DEF Overlapped
        <3>2. n + 1 \in DOMAIN rows'[r]
            BY <2>4
        <3>3. row.seen = (n + 1) - 1
            BY <2>4, <3>1, <3>2
        <3> QED
            BY <2>4, <3>3
    <2>7. ~Overlapped(r)
        <3>1. \A i \in 1..n : i \in 1..(n + 1)
            BY <2>4
        <3> QED
            BY <2>4, <3>1 DEF Overlapped
    <2>8. CASE HasBeen(r, {"failed", "stale"})
        <3>1. Current(r).state \in {"failed", "stale"}
            BY <2>7, <2>8 DEF NoReturn
        <3>2. AllowTransition(Current(r).state, handler[h].state)
            BY <2>1, <2>3, <2>6 DEF Current, n
        <3> QED
            BY <2>1, <2>5, <3>1, <3>2 DEF AllowTransition, AllowedFrom, States
    <2>9. CASE ~HasBeen(r, {"failed", "stale"})
        <3>1. PICK i \in 1..(n + 1) : rows'[r][i].state \in {"failed", "stale"}
            BY <2>4 DEF HasBeen
        <3>2. i \notin 1..n
            BY <2>4, <2>9, <3>1 DEF HasBeen
        <3>3. i = n + 1
            BY <2>4, <3>1, <3>2
        <3> QED
            BY <2>4, <2>5, <3>1, <3>3
    <2> QED
        BY <2>8, <2>9
<1> QED
    BY <1>1, <1>2, <1>3, WhoCommits DEF vars

-----------------------------------------------------------------------------
(* The inductive invariant *)

Completes ==
    /\ CreatedOnce /\ OneToken /\ CleanupsJustified /\ HasNewest
    /\ TempHoldsContent /\ NexusOfManagers /\ CompletesLast /\ Progressing
    /\ CompletingIsUsable /\ NoReturn

CompletesIInv == Types /\ Completes

LEMMA InitCompletes == PipelineInit => CompletesIInv
<1> SUFFICES ASSUME PipelineInit PROVE Completes
    BY InitTypes DEF CompletesIInv
<1>1. /\ DOMAIN queue = {} /\ \A w \in Workers : worker[w] = Free
      /\ \A h \in Handlers : handler[h] = Idle
      /\ \A r \in Requests : rows[r] = <<>> /\ content[r] = {} /\ nexus[r] = {}
      /\ cleanups = {}
    BY DEF PipelineInit, Init, EmptyBag, SetToBag
<1>2. \A r \in Requests : \A states : ~HasBeen(r, states)
    BY <1>1 DEF HasBeen
<1>3. \A r \in Requests : ~Completing(r) /\ ~Submitted(r)
    BY <1>1, <1>2 DEF Completing, Submitted
<1>4. CreatedOnce /\ OneToken /\ CleanupsJustified /\ HasNewest
    BY <1>1, <1>3 DEF CreatedOnce, Creating, OneToken, CleanupsJustified, HasNewest
<1>5. TempHoldsContent /\ NexusOfManagers
    BY <1>1 DEF TempHoldsContent, NexusOfManagers
<1>6. CompletesLast /\ Progressing
    BY <1>1, <1>3, FreeIsIdle DEF CompletesLast, Progressing
<1>7. CompletingIsUsable /\ NoReturn
    BY <1>2, <1>3 DEF CompletingIsUsable, NoReturn
<1> QED
    BY <1>4, <1>5, <1>6, <1>7 DEF Completes

LEMMA CompletesStep ==
    ASSUME NoRedelivery, CompletesIInv, PipelineNext
    PROVE  CompletesIInv'
<1>0. Types /\ Completes /\ IInv /\ [Next]_vars
    BY ApiStep DEF CompletesIInv, Types, PipelineIInv
<1>1. Types'
    BY <1>0, TypesStep
<1>2. CreatedOnce'
    BY <1>0, CreatedOnceStep DEF Completes
<1>3. OneToken'
    BY <1>0, OneTokenStep DEF Completes
<1>4. CleanupsJustified'
    <2>1. CASE Next
        BY <1>0, <2>1, CleanupsStep DEF Completes
    <2>2. CASE UNCHANGED vars
        BY <1>0, <2>2 DEF Completes, vars, CleanupsJustified, HasBeen
    <2> QED
        BY <1>0, <2>1, <2>2
<1>5. HasNewest' /\ NoReturn'
    BY <1>0, HasNewestStep, NoReturnStep DEF Completes
<1>6. TempHoldsContent' /\ NexusOfManagers'
    BY <1>0, TempHoldsContentStep, NexusOfManagersStep DEF Completes
<1>7. CompletesLast' /\ Progressing'
    BY <1>0, CompletesLastStep, ProgressingStep DEF Completes
<1>8. CompletingIsUsable'
    BY <1>0, CompletingIsUsableStep DEF Completes
<1> QED
    BY <1>1, <1>2, <1>3, <1>4, <1>5, <1>6, <1>7, <1>8 DEF CompletesIInv, Completes

LEMMA CompletesStutter ==
    ASSUME CompletesIInv, UNCHANGED allVars
    PROVE  CompletesIInv'
<1>0. /\ UNCHANGED <<rows, managers, error, gauge, handler, clock, published, files, cleanups>>
      /\ UNCHANGED <<queue, worker, client, content, bundle, nexus, password, configs>>
    BY DEF allVars, pipelineVars, vars, nexusVars
<1>1. Types'
    BY TypesStutter DEF CompletesIInv
<1>2. Completes
    BY DEF CompletesIInv
<1>3. CreatedOnce' /\ OneToken' /\ CleanupsJustified' /\ HasNewest' /\ NoReturn'
    BY <1>0, <1>2 DEF Completes, CreatedOnce, Creating, OneToken, CleanupsJustified, HasNewest,
        NoReturn, HasBeen, Submitted, Overlapped, Current
<1>4. TempHoldsContent' /\ NexusOfManagers'
    BY <1>0, <1>2 DEF Completes, TempHoldsContent, NexusOfManagers
<1>5. \A r \in Requests : /\ Completing(r)' = Completing(r) /\ Unsettled(r)' = Unsettled(r)
                          /\ Undisturbed(r)' = Undisturbed(r) /\ Usable(r)' = Usable(r)
    BY <1>0 DEF Completing, Unsettled, Undisturbed, HasBeen, Usable
<1>6. CompletingIsUsable'
    BY <1>2, <1>5 DEF Completes, CompletingIsUsable
<1>7. \A m \in Message : AtEnd(m)' = AtEnd(m) /\ Before(m)' = Before(m)
    BY <1>0 DEF AtEnd, Before, TaskDone, Left, Chain, Scheduled
<1>8. \A m \in DOMAIN queue : m \in Message /\ m.req \in Requests
    BY DEF CompletesIInv, Types, PipelineTypeOK, Message
<1>9. CompletesLast'
    <2>1. \A r \in Requests : Completing(r)' => r \in published'
        BY <1>0, <1>2, <1>5 DEF Completes, CompletesLast
    <2>2. \A m \in DOMAIN queue : Completing(m.req)' => AtEnd(m)'
        BY <1>2, <1>5, <1>7, <1>8 DEF Completes, CompletesLast
    <2>3. \A w \in Workers, m \in Message : worker[w] # Free /\ worker[w].msg = m =>
              (Completing(m.req)' => AtEnd(m)')
        <3>1. \A m \in Message : m.req \in Requests
            BY DEF Message
        <3> QED
            BY <1>2, <1>5, <1>7, <3>1 DEF Completes, CompletesLast
    <2> QED
        BY <1>0, <2>1, <2>2, <2>3 DEF CompletesLast
<1>10. Progressing'
    <2>1. \A m \in DOMAIN queue : Unsettled(m.req)' => Before(m)'
        BY <1>2, <1>5, <1>7, <1>8 DEF Completes, Progressing
    <2>2. ASSUME NEW w \in Workers, NEW x \in Execution, worker[w] = x, Unsettled(x.msg.req)'
          PROVE  Before(x.msg)' /\ Progress(w, x)'
        <3>1. x.msg \in Message /\ x.msg.req \in Requests
            BY DEF Execution, Message
        <3>2. Before(x.msg) /\ Progress(w, x)
            BY <1>2, <1>5, <2>2, <3>1 DEF Completes, Progressing
        <3>3. /\ TaskOf(x.msg)' = TaskOf(x.msg) /\ StepsOf(x.msg)' = StepsOf(x.msg)
              /\ \A step, r, t : Left(step, r, t)' = Left(step, r, t)
              /\ \A step : Own(w, x, step)' = Own(w, x, step)
            BY <1>0 DEF Own, Left, StepsOf, TaskOf, Chain, Scheduled
        <3>4. Progress(w, x)'
            BY <3>2, <3>3 DEF Progress, Passed
        <3> QED
            BY <1>7, <3>1, <3>2, <3>4
    <2> QED
        BY <1>0, <2>1, <2>2 DEF Progressing
<1> QED
    BY <1>1, <1>3, <1>4, <1>6, <1>9, <1>10 DEF CompletesIInv, Completes

LEMMA CompletesInvariance ==
    ASSUME NoRedelivery
    PROVE  PipelineSpec => []CompletesIInv
BY InitCompletes, CompletesStep, CompletesStutter, PTL DEF PipelineSpec

LEMMA UsableWhenComplete == CompletesIInv => CompleteIsUsable
<1> SUFFICES ASSUME CompletesIInv, NEW r \in Requests, InState(r, "complete"), ~Overlapped(r)
             PROVE  Usable(r)
    BY DEF CompleteIsUsable
<1>1. rows[r] \in Seq(Row) /\ rows[r] # <<>> /\ Current(r).state = "complete"
    BY DEF CompletesIInv, Types, PipelineTypeOK, TypeOK, InState, Submitted
<1>2. Len(rows[r]) \in DOMAIN rows[r]
    BY <1>1
<1>3. Completing(r)
    BY <1>1, <1>2 DEF Completing, HasBeen, Current
<1>4. Undisturbed(r)
    BY <1>1 DEF CompletesIInv, Completes, NoReturn, Undisturbed
<1> QED
    BY <1>3, <1>4 DEF CompletesIInv, Completes, CompletingIsUsable

\* As long as no message is delivered a second time, a complete request can be consumed,
\* whatever else fails: workers that die and are replaced, steps that raise, lost and
\* repeated PATCHes, the broker and the cleanup scripts (finalize_request, patch_request).
THEOREM CompleteRequestsAreUsable ==
    ASSUME NoRedelivery
    PROVE  PipelineSpec => []CompleteIsUsable
BY CompletesInvariance, UsableWhenComplete, PTL

-----------------------------------------------------------------------------
(* A complete request has its packages *)

PackagesOrStale(r) == "packages" \in files[r] \/ HasBeen(r, {"stale"})

LEMMA PackagesStay ==
    ASSUME IInv, [Next]_vars, NEW r \in Requests, PackagesOrStale(r)
    PROVE  PackagesOrStale(r)'
<1>1. CASE HasBeen(r, {"stale"})
    BY <1>1, HasBeenStays DEF PackagesOrStale
<1>2. CASE "packages" \in files[r]
    <2>1. CASE Next
        BY <1>1, <1>2, <2>1, BundleKept DEF PackagesOrStale
    <2>2. CASE UNCHANGED vars
        BY <1>2, <2>2 DEF PackagesOrStale, vars
    <2> QED
        BY <2>1, <2>2
<1> QED
    BY <1>1, <1>2 DEF PackagesOrStale

\* finalize_request has compared the counts, and is about to complete the request.
Counted(x) == TaskOf(x.msg) = "finalize_request" /\ x.at = 3

CountedHasPackages ==
    \A w \in Workers, x \in Execution : worker[w] = x /\ Counted(x) => PackagesOrStale(x.msg.req)

CompletingHasPackages == \A r \in Requests : Completing(r) => PackagesOrStale(r)

LEMMA CountsBefore ==
    ASSUME Types, NEW w \in Workers, worker[w] # Free, Task(w) = "finalize_request",
           worker[w].at = 2
    PROVE  StepOf(w) = "count"
BY BusyRuns DEF StepOf, Program, JsManagers, FinalizeSteps

\* The step that leads to the last one finds the packages.
LEMMA CountFindsPackages ==
    ASSUME Types, NEW w \in Workers, TaskStep(w), Task(w) = "finalize_request",
           worker[w].at # 3, worker'[w].at = 3
    PROVE  "packages" \in files[worker[w].msg.req]
<1> DEFINE r == worker[w].msg.req
<1>1. /\ worker[w] # Free /\ Task(w) \in TaskNames
      /\ worker[w].at \in 1..Len(Program(Task(w))) /\ Len(Program(Task(w))) \in Nat
      /\ StepOf(w) = Program(Task(w))[worker[w].at]
    BY TaskDoes, BusyRuns DEF StepOf
<1>2. StepOf(w) \notin NexusSteps \cup ArchiveSteps
    BY <1>1, ProgramSteps DEF NexusManagers
<1>3. Proceed(w) \/ Becomes(w, "returned") \/ Becomes(w, "raised")
    BY <1>2, TaskDoes DEF CheckState, QuietCall, Unpack, OpenDir, Verify, PrepareNexus,
        Resolve, WritePackages, FinalizeNexus, GiveAccess, OpenArchive, CloseArchive,
        SaveChecksum, Aggregate, CheckCounts, Raise, Doing, NexusSteps, ArchiveSteps
<1>4. \E x : /\ Moves(w, x)
             /\ x.at = worker[w].at \/ (Proceed(w) /\ x.at = worker[w].at + 1)
    BY <1>1, <1>3, ProceedMoves, BecomesMoves DEF Phases
<1>5. worker'[w].at = worker[w].at \/ (Proceed(w) /\ worker'[w].at = worker[w].at + 1)
    BY <1>4 DEF Moves, Types, PipelineTypeOK
<1>6. Proceed(w) /\ worker[w].at = 2
    BY <1>1, <1>5
<1>7. StepOf(w) = "count"
    BY <1>1, <1>6, CountsBefore
<1>8. CheckCounts(w, r)
    BY <1>7, TaskDoes DEF CheckState, QuietCall, Unpack, OpenDir, Verify, PrepareNexus,
        Resolve, WritePackages, FinalizeNexus, GiveAccess, OpenArchive, CloseArchive,
        SaveChecksum, Aggregate, Doing
<1>9. CASE CountsAgree(w, r)
    BY <1>9 DEF CountsAgree
<1>10. CASE ~CountsAgree(w, r)
    <2>1. Becomes(w, "raised")
        BY <1>8, <1>10 DEF CheckCounts, Raise
    <2>2. worker'[w].at = worker[w].at
        <3>1. \E x : Moves(w, x) /\ x.at = worker[w].at
            BY <1>1, <2>1, BecomesMoves DEF Phases
        <3> QED
            BY <3>1 DEF Moves, Types, PipelineTypeOK
    <2> QED
        BY <1>6, <2>2
<1> QED
    BY <1>9, <1>10

LEMMA CountedStep ==
    ASSUME Types, CountedHasPackages, PipelineNext
    PROVE  CountedHasPackages'
<1> SUFFICES ASSUME NEW w \in Workers, NEW y \in Execution, worker'[w] = y, Counted(y)'
             PROVE  PackagesOrStale(y.msg.req)'
    BY DEF CountedHasPackages
<1> DEFINE m == y.msg
<1>0. [Next]_vars /\ IInv /\ worker'[w] # Free
    BY ApiStep, FreeIsIdle DEF Types, PipelineIInv
<1>1. m \in Message /\ m.req \in Requests
    BY DEF Execution, Message
<1>2. ASSUME InChain(m)
      PROVE  Counted(y)
    BY <1>0, <1>2, ManagersFixed DEF InChain, Counted, TaskOf
<1>3. ASSUME PackagesOrStale(m.req)
      PROVE  PackagesOrStale(m.req)'
    BY <1>0, <1>1, <1>3, PackagesStay
<1>4. ASSUME worker[w] # Free, y.msg = worker[w].msg
      PROVE  /\ worker[w] \in Execution /\ InChain(m) /\ Counted(y)
             /\ Task(w) = "finalize_request"
             /\ worker[w].at = 3 => PackagesOrStale(m.req)
    <2>1. worker[w] \in Execution /\ InChain(m) /\ Task(w) = TaskOf(m)
        BY <1>4, BusyRuns DEF Running
    <2>2. Counted(y)
        BY <1>2, <2>1
    <2>3. ASSUME worker[w].at = 3
          PROVE  PackagesOrStale(m.req)
        <3>1. Counted(worker[w])
            BY <1>4, <2>2, <2>3 DEF Counted
        <3> QED
            BY <1>4, <2>1, <3>1 DEF CountedHasPackages
    <2> QED
        BY <2>1, <2>2, <2>3 DEF Counted
<1>5. CASE worker'[w] = worker[w]
    <2>1. worker[w].at = 3
        BY <1>0, <1>4, <1>5 DEF Counted
    <2> QED
        BY <1>0, <1>3, <1>4, <1>5, <2>1
<1>6. ASSUME NEW n \in DOMAIN queue, y.msg = n, y.at = 1
      PROVE  FALSE
    BY <1>2, <1>6, Counts DEF Counted
<1>7. CASE TaskStep(w) /\ worker[w] # Free /\ y.msg = worker[w].msg
    <2>1. CASE worker[w].at = 3
        BY <1>3, <1>4, <1>7, <2>1
    <2>2. CASE worker[w].at # 3
        <3>1. "packages" \in files[m.req]
            BY <1>4, <1>7, <2>2, CountFindsPackages DEF Counted
        <3> QED
            BY <1>3, <3>1 DEF PackagesOrStale
    <2> QED
        BY <2>1, <2>2
<1>8. CASE GoesOn(w) /\ worker[w] # Free /\ y.msg = worker[w].msg
    <2>1. y.at = worker[w].at \/ (StepOf(w) \in PatchSteps /\ y.at = worker[w].at + 1)
        BY <1>8 DEF GoesOn, Moves, Types, PipelineTypeOK
    <2>2. worker[w].at # 2
        BY <1>4, <1>8, <2>1, CountsBefore DEF PatchSteps, Counted
    <2>3. worker[w].at \in Nat
        BY <1>4, <1>8 DEF Execution
    <2>4. worker[w].at = 3
        BY <1>4, <1>8, <2>1, <2>2, <2>3 DEF Counted
    <2> QED
        BY <1>3, <1>4, <1>8, <2>4
<1> QED
    BY <1>0, <1>5, <1>6, <1>7, <1>8, OneExecution

LEMMA CompletingHasPackagesStep ==
    ASSUME Types, CountedHasPackages, CompletingHasPackages, PipelineNext
    PROVE  CompletingHasPackages'
<1> SUFFICES ASSUME NEW r \in Requests, Completing(r)'
             PROVE  PackagesOrStale(r)'
    BY DEF CompletingHasPackages
<1>0. [Next]_vars /\ IInv
    BY ApiStep DEF Types, PipelineIInv
<1>1. ASSUME NEW w \in Workers, worker[w] # Free, worker[w].msg.req = r,
             StepOf(w) = "say_complete"
      PROVE  PackagesOrStale(r)
    <2>1. PICK x \in Execution : x = worker[w]
        BY <1>1, BusyRuns
    <2>2. /\ TaskOf(x.msg) = "finalize_request" /\ x.at \in 1..Len(FinalizeSteps)
          /\ FinalizeSteps[x.at] = "say_complete"
        <3>1. Task(w) = "finalize_request"
            BY <1>1, LastStep DEF FinalSteps
        <3>2. Program(Task(w)) = FinalizeSteps
            BY <3>1 DEF Program, JsManagers
        <3> QED
            BY <1>1, <2>1, <3>1, <3>2, BusyRuns DEF StepOf
    <2>3. Counted(x)
        BY <2>2 DEF FinalizeSteps, Counted
    <2> QED
        BY <1>1, <2>1, <2>3 DEF CountedHasPackages
<1>2. PackagesOrStale(r)
    BY <1>1, CompletingBegins DEF CompletingHasPackages
<1> QED
    BY <1>0, <1>2, PackagesStay

\* With one thread no transaction overlaps another one.
NeverOverlapped == \A r \in Requests : ~Overlapped(r)

LEMMA NeverOverlappedStep ==
    ASSUME IInv, NotOvertaken, NeverOverlapped, [Next]_vars
    PROVE  NeverOverlapped'
<1> SUFFICES ASSUME NEW r \in Requests PROVE ~Overlapped(r)'
    BY DEF NeverOverlapped
<1>0. rows[r] \in Seq(Row) /\ ~Overlapped(r)
    BY DEF IInv, TypeOK, NeverOverlapped
<1>1. CASE rows'[r] = rows[r]
    BY <1>0, <1>1 DEF Overlapped
<1>2. ASSUME NEW row, rows'[r] = <<row>>, row.seen = 0
      PROVE  ~Overlapped(r)'
    BY <1>2 DEF Overlapped
<1>3. ASSUME NEW h \in Handlers, Next, handler[h] # Idle, handler[h].step = "read",
             handler[h].req = r, handler[h].adds, Commit(h),
             rows'[r] = Append(rows[r], [state |-> handler[h].state,
                                         reason |-> handler[h].reason,
                                         updated |-> handler[h].began,
                                         seen |-> handler[h].seen])
      PROVE  ~Overlapped(r)'
    <2> DEFINE row == [state |-> handler[h].state, reason |-> handler[h].reason,
                       updated |-> handler[h].began, seen |-> handler[h].seen]
               n == Len(rows[r])
    <2>1. row \in Row /\ row.seen = n
        BY <1>3, CommittedRow DEF NotOvertaken
    <2>2. rows'[r] = Append(rows[r], row)
        BY <1>3
    <2> HIDE DEF row
    <2>3. /\ n \in Nat /\ Len(rows'[r]) = n + 1
          /\ \A j \in 1..n : rows'[r][j] = rows[r][j]
          /\ rows'[r][n + 1] = row
          /\ DOMAIN rows'[r] = 1..(n + 1) /\ DOMAIN rows[r] = 1..n
        BY <1>0, <2>1, <2>2, Appended
    <2> HIDE DEF n
    <2>4. ASSUME NEW i \in 1..(n + 1)
          PROVE  rows'[r][i].seen = i - 1
        <3>1. CASE i \in 1..n
            BY <1>0, <2>3, <3>1 DEF Overlapped
        <3>2. CASE i \notin 1..n
            <4>1. i = n + 1 /\ n = i - 1
                BY <2>3, <3>2
            <4> QED
                BY <2>1, <2>3, <4>1
        <3> QED
            BY <3>1, <3>2
    <2> QED
        BY <2>3, <2>4 DEF Overlapped
<1>4. CASE Next /\ rows'[r] # rows[r]
    <2>1. \/ \E row : rows'[r] = <<row>> /\ row.seen = 0
          \/ \E h \in Handlers :
                  /\ handler[h] # Idle /\ handler[h].step = "read"
                  /\ handler[h].req = r /\ handler[h].adds
                  /\ rows'[r] = Append(rows[r], [state |-> handler[h].state,
                                                reason |-> handler[h].reason,
                                                updated |-> handler[h].began,
                                                seen |-> handler[h].seen])
                  /\ Commit(h)
        BY <1>4, WhoCommits
    <2> QED
        BY <1>2, <1>3, <1>4, <2>1
<1> QED
    BY <1>1, <1>4 DEF vars

PackagesIInv ==
    /\ CountedHasPackages /\ CompletingHasPackages /\ NeverOverlapped /\ NoReturn

LEMMA PackagesStep ==
    ASSUME Types, NotOvertaken, PackagesIInv, PipelineNext
    PROVE  PackagesIInv'
<1>1. [Next]_vars /\ IInv
    BY ApiStep DEF Types, PipelineIInv
<1> QED
    BY <1>1, CountedStep, CompletingHasPackagesStep, NeverOverlappedStep, NoReturnStep
    DEF PackagesIInv

LEMMA PackagesStutter ==
    ASSUME PackagesIInv, UNCHANGED allVars
    PROVE  PackagesIInv'
<1>0. UNCHANGED <<rows, managers, handler, files, worker>>
    BY DEF allVars, pipelineVars, vars
<1>1. \A r \in Requests : /\ PackagesOrStale(r)' = PackagesOrStale(r)
                          /\ Completing(r)' = Completing(r)
    BY <1>0 DEF PackagesOrStale, Completing, HasBeen
<1>2. \A x \in Execution : x.msg.req \in Requests /\ Counted(x)' = Counted(x)
    BY <1>0 DEF Counted, TaskOf, Chain, Scheduled, Execution, Message
<1>3. CountedHasPackages' /\ CompletingHasPackages'
    BY <1>0, <1>1, <1>2 DEF PackagesIInv, CountedHasPackages, CompletingHasPackages
<1>4. NeverOverlapped' /\ NoReturn'
    BY <1>0 DEF PackagesIInv, NeverOverlapped, NoReturn, Overlapped, HasBeen, Current
<1> QED
    BY <1>3, <1>4 DEF PackagesIInv

LEMMA InitPackages == PipelineInit => PackagesIInv
<1> SUFFICES ASSUME PipelineInit PROVE PackagesIInv
    OBVIOUS
<1>1. /\ \A w \in Workers : worker[w] = Free
      /\ \A h \in Handlers : handler[h] = Idle
      /\ \A r \in Requests : rows[r] = <<>>
    BY DEF PipelineInit, Init
<1>2. \A r \in Requests : ~Completing(r) /\ ~Overlapped(r) /\ ~HasBeen(r, {"failed", "stale"})
    BY <1>1 DEF Completing, Overlapped, HasBeen
<1> QED
    BY <1>1, <1>2, FreeIsIdle DEF PackagesIInv, CountedHasPackages, CompletingHasPackages,
        NeverOverlapped, NoReturn

LEMMA PackagesWhenComplete == Types /\ PackagesIInv => CompleteHasPackages
<1> SUFFICES ASSUME Types, PackagesIInv, NEW r \in Requests, InState(r, "complete")
             PROVE  "packages" \in files[r]
    BY DEF CompleteHasPackages
<1>1. rows[r] \in Seq(Row) /\ rows[r] # <<>> /\ Current(r).state = "complete"
    BY DEF Types, PipelineTypeOK, TypeOK, InState, Submitted
<1>2. Len(rows[r]) \in DOMAIN rows[r]
    BY <1>1
<1>3. Completing(r)
    BY <1>1, <1>2 DEF Completing, HasBeen, Current
<1>4. ~HasBeen(r, {"failed", "stale"})
    BY <1>1 DEF PackagesIInv, NeverOverlapped, NoReturn
<1> QED
    BY <1>3, <1>4 DEF PackagesIInv, CompletingHasPackages, PackagesOrStale, HasBeen

\* With one API thread a complete request has its packages file, whatever fails and even if
\* tasks are delivered twice: list_packages_and_dependencies never meets what it calls "an
\* invalid state" (finalize_request compares the counts before it completes the request).
THEOREM CompleteRequestsHavePackages ==
    ASSUME OneThread
    PROVE  PipelineSpec => []CompleteHasPackages
<1>1. PipelineSpec => []NotOvertaken
    BY PipelineImplementsApi, NeverOvertaken, PTL DEF ImplementsApi
<1> QED
    BY <1>1, InitPackages, PackagesStep, PackagesStutter, PackagesWhenComplete,
        TypesInvariance, PTL DEF PipelineSpec

=============================================================================
