-------------------------- MODULE RequestApiProofs --------------------------
(***************************************************************************)
(* The API keeps its promises for any number of requests, threads, reasons *)
(* and package managers, and for behaviours of any length.                 *)
(*                                                                         *)
(* The invariants are not inductive: a commit is legal because of what the *)
(* thread found when it read the request.  CallsJustified says what every  *)
(* thread still knows about the history of its request; histories only     *)
(* grow (RowsGrow), so that knowledge never becomes false.                 *)
(*                                                                         *)
(* With one thread (the second part) the API implements the abstract life  *)
(* cycle of a request, and the history it shows is in the order of the     *)
(* commits: no transaction is overtaken (NotOvertaken), and every row is   *)
(* older than the transaction (InOrder).                                   *)
(***************************************************************************)
EXTENDS RequestApi, TLAPS

\* What a thread that serves `call` knows about the history of its request.
CallJustified(call, history) ==
    /\ history # <<>>
    /\ call.op = "create" =>
           call.state = "failed" /\ call.adds /\ call.step \in {"submitted", "begun", "read"}
    /\ call.step \notin {"submitted", "begun"} => call.seen \in 1..Len(history)
    /\ call.step = "read" /\ call.adds =>
           AllowTransition(history[call.seen].state, call.state)
    /\ call.step = "read" /\ ~call.adds => history[call.seen].state = call.state
    /\ call.step \in {"bundle", "temp", "log", "nexus"} =>
           \E i \in 1..Len(history) : history[i].state = call.state

CallsJustified ==
    \A h \in Handlers : handler[h] # Idle =>
        CallJustified(handler[h], rows[handler[h].req])

IInv == TypeOK /\ CallsJustified

-----------------------------------------------------------------------------
(* Histories *)

\* A row that is committed leaves the older ones where they are.
LEMMA Appended ==
    ASSUME NEW history \in Seq(Row), NEW row \in Row
    PROVE  /\ Append(history, row) \in Seq(Row)
           /\ Len(Append(history, row)) = Len(history) + 1
           /\ Append(history, row) # <<>>
           /\ \A i \in 1..Len(history) : Append(history, row)[i] = history[i]
           /\ Append(history, row)[Len(history) + 1] = row
  OBVIOUS

\* What a thread knows stays true when another row is committed.
LEMMA KnowledgeLasts ==
    ASSUME NEW history \in Seq(Row), NEW row \in Row, NEW call \in Call,
           CallJustified(call, history)
    PROVE  CallJustified(call, Append(history, row))
<1> DEFINE longer == Append(history, row)
<1>1. /\ longer # <<>> /\ Len(longer) = Len(history) + 1 /\ Len(history) \in Nat
      /\ \A i \in 1..Len(history) : longer[i] = history[i]
    BY Appended
<1>2. 1..Len(history) \subseteq 1..Len(longer)
    BY <1>1
<1> HIDE DEF longer
<1>3. CallJustified(call, longer)
    BY <1>1, <1>2 DEF CallJustified
<1> QED
    BY <1>3 DEF longer

-----------------------------------------------------------------------------
(* Types *)

LEMMA NextStepTypes ==
    ASSUME NEW call \in Call
    PROVE  /\ [call EXCEPT !.step = "temp"] \in Call
           /\ [call EXCEPT !.step = "log"] \in Call
           /\ [call EXCEPT !.step = "nexus"] \in Call
  BY DEF Call, Steps

\* The gauges are integers whichever way they move.
LEMMA GaugeTypes ==
    ASSUME NEW counts \in [GaugeLabels -> Int], NEW a \in GaugeLabels, NEW b \in GaugeLabels
    PROVE  /\ [counts EXCEPT ![a] = @ - 1] \in [GaugeLabels -> Int]
           /\ [counts EXCEPT ![a] = @ + 1, ![b] = @ + 1] \in [GaugeLabels -> Int]
           /\ [counts EXCEPT ![a] = @ + 1, ![b] = @ - 1] \in [GaugeLabels -> Int]
           /\ [counts EXCEPT ![a] = @ - 1, ![b] = @ + 1] \in [GaugeLabels -> Int]
  OBVIOUS

\* A thread works for a request that exists; its state is one of States.
LEMMA CurrentState ==
    ASSUME IInv, NEW h \in Handlers, handler[h] # Idle
    PROVE  /\ handler[h] \in Call
           /\ rows[handler[h].req] \in Seq(Row) /\ rows[handler[h].req] # <<>>
           /\ Len(rows[handler[h].req]) \in Nat \ {0}
           /\ Current(handler[h].req) \in Row
           /\ Current(handler[h].req).state \in States
<1>1. handler[h] \in Call
    BY DEF IInv, TypeOK
<1>2. rows[handler[h].req] \in Seq(Row) /\ rows[handler[h].req] # <<>>
    BY <1>1 DEF IInv, TypeOK, Call, CallsJustified, CallJustified
<1>3. Current(handler[h].req) \in Row /\ Len(rows[handler[h].req]) \in Nat \ {0}
    BY <1>2 DEF Current
<1> QED
    BY <1>1, <1>2, <1>3 DEF Row

LEMMA InitIInv == Init => IInv
<1> SUFFICES ASSUME Init PROVE IInv
    OBVIOUS
<1>1. TypeOK
    BY DEF Init, TypeOK, GaugeLabels, AskedStates, States
<1>2. CallsJustified
    BY DEF Init, CallsJustified
<1> QED
    BY <1>1, <1>2 DEF IInv

LEMMA TypeStep ==
    ASSUME IInv, Next
    PROVE  TypeOK'
<1> USE DEF IInv
<1>1. ASSUME NEW h \in Handlers, NEW r \in Requests, NEW ms \in SUBSET PkgManagers,
             CreateRequest(h, r, ms)
      PROVE  TypeOK'
    <2>1. [state |-> "in_progress", reason |-> "initiated", updated |-> clock, seen |-> 0]
              \in Row
        BY DEF TypeOK, Row, States, RowReasons
    <2>2. [op |-> "create", step |-> "submitted", req |-> r, state |-> "failed",
           reason |-> "unscheduled", began |-> clock, seen |-> 0, adds |-> TRUE] \in Call
        BY DEF TypeOK, Call, Steps, AskedStates, States, RowReasons
    <2>3. gauge' \in [GaugeLabels -> Int]
        <3>1. "total" \in GaugeLabels /\ "in_progress" \in GaugeLabels
            BY DEF GaugeLabels, AskedStates, States
        <3> QED
            BY <1>1, <3>1, GaugeTypes DEF CreateRequest, TypeOK
    <2>4. rows' \in [Requests -> Seq(Row)]
        BY <1>1, <2>1 DEF CreateRequest, TypeOK
    <2>5. handler' \in [Handlers -> Call \cup {Idle}]
        BY <1>1, <2>2 DEF CreateRequest, TypeOK
    <2> QED
        BY <1>1, <2>3, <2>4, <2>5 DEF CreateRequest, TypeOK
<1>2. ASSUME NEW h \in Handlers, NEW r \in Requests, NEW state \in AskedStates,
             NEW reason \in Reasons, PatchBegin(h, r, state, reason)
      PROVE  TypeOK'
    <2>1. [op |-> "patch", step |-> "begun", req |-> r, state |-> state,
           reason |-> reason, began |-> clock, seen |-> 0, adds |-> TRUE] \in Call
        BY DEF TypeOK, Call, Steps, RowReasons
    <2> QED
        BY <1>2, <2>1 DEF PatchBegin, TypeOK
<1>3. ASSUME NEW h \in Handlers, HandlerStep(h)
      PROVE  TypeOK'
    <2> DEFINE call == handler[h]
    <2>0. handler[h] # Idle
        BY <1>3 DEF HandlerStep, At, RefuseReplacements, PublishChain, PublishFails,
            FailUnscheduled, PatchRead, PatchRefuse, Commit, HandlerFails, DeleteBundle,
            DeleteTemp, DeleteLog, ScheduleCleanups
    <2>a. call \in Call
        BY <2>0, CurrentState
    <2>b. Current(call.req).state \in GaugeLabels /\ call.state \in GaugeLabels
        BY <2>0, <2>a, CurrentState DEF GaugeLabels, AskedStates, Call
    <2>d. Len(rows[call.req]) \in Nat
        BY <2>0, CurrentState
    <2>c. "failed" \in GaugeLabels
        BY DEF GaugeLabels, AskedStates, States
    <2>1. CASE RefuseReplacements(h)
        BY <2>1 DEF RefuseReplacements, Respond, TypeOK
    <2>2. CASE PublishChain(h)
        BY <2>a, <2>2 DEF PublishChain, Respond, TypeOK, Call
    <2>3. CASE PublishFails(h)
        <3>1. [call EXCEPT !.step = "begun", !.began = clock] \in Call
            BY <2>a DEF Call, Steps, TypeOK
        <3> QED
            BY <2>3, <3>1 DEF PublishFails, TypeOK
    <2>4. CASE FailUnscheduled(h)
        <3> DEFINE now == Current(call.req).state
        <3>1. [call EXCEPT !.step = "read", !.seen = Len(rows[call.req])] \in Call
            BY <2>a, <2>d DEF Call, Steps
        <3>2. /\ [gauge EXCEPT ![now] = @ - 1] \in [GaugeLabels -> Int]
              /\ [gauge EXCEPT ![now] = @ - 1, !["failed"] = @ + 1] \in [GaugeLabels -> Int]
            BY <2>b, <2>c, GaugeTypes DEF TypeOK
        <3> HIDE DEF now
        <3>3. gauge' \in [GaugeLabels -> Int] /\ handler' \in [Handlers -> Call \cup {Idle}]
            BY <2>4, <3>1, <3>2 DEF FailUnscheduled, Respond, TypeOK, now
        <3> QED
            BY <2>4, <3>3 DEF FailUnscheduled, TypeOK
    <2>5. CASE PatchRead(h)
        <3> DEFINE adds == ~SameState(call.req, call.state, call.reason)
        <3>0. adds \in BOOLEAN
            BY DEF SameState
        <3> HIDE DEF adds
        <3>1. [call EXCEPT !.step = "read", !.seen = Len(rows[call.req]), !.adds = adds] \in Call
            BY <2>a, <2>d, <3>0 DEF Call, Steps
        <3>2. gauge' \in [GaugeLabels -> Int]
            BY <2>5, <2>b, GaugeTypes DEF PatchRead, MoveGauge, TypeOK
        <3> QED
            BY <2>5, <3>1, <3>2 DEF PatchRead, TypeOK, adds
    <2>6. CASE PatchRefuse(h)
        <3>1. gauge' \in [GaugeLabels -> Int]
            BY <2>6, <2>b, GaugeTypes DEF PatchRefuse, MoveGauge, TypeOK
        <3> QED
            BY <2>6, <3>1 DEF PatchRefuse, Respond, TypeOK
    <2>7. CASE Commit(h)
        <3> DEFINE row == [state |-> call.state, reason |-> call.reason,
                           updated |-> call.began, seen |-> call.seen]
        <3>1. call.adds => row \in Row
            BY <1>3, <2>a, <2>7
            DEF Commit, Row, Call, CallsJustified, CallJustified, AllowTransition
        <3>2. rows' \in [Requests -> Seq(Row)]
            BY <2>a, <2>7, <3>1, Appended DEF Commit, TypeOK, Call
        <3>3. error' \in [Requests -> BOOLEAN]
            BY <2>7 DEF Commit, WritesError, TypeOK
        <3>4. [call EXCEPT !.step = "bundle"] \in Call
            BY <2>a DEF Call, Steps
        <3>5. handler' \in [Handlers -> Call \cup {Idle}]
            BY <2>7, <3>4 DEF Commit, Advance, Respond, TypeOK
        <3> QED
            BY <2>7, <3>2, <3>3, <3>5 DEF Commit, TypeOK
    <2>8. CASE HandlerFails(h)
        BY <2>8 DEF HandlerFails, Respond, TypeOK
    <2>9. CASE DeleteBundle(h)
        BY <2>a, <2>9, NextStepTypes DEF DeleteBundle, Advance, TypeOK
    <2>10. CASE DeleteTemp(h)
        BY <2>a, <2>10, NextStepTypes DEF DeleteTemp, Advance, TypeOK
    <2>11. CASE DeleteLog(h)
        BY <2>a, <2>11, NextStepTypes DEF DeleteLog, Advance, TypeOK
    <2>12. CASE ScheduleCleanups(h)
        BY <2>a, <2>12 DEF ScheduleCleanups, Respond, TypeOK, Call
    <2> QED
        BY <1>3, <2>1, <2>2, <2>3, <2>4, <2>5, <2>6, <2>7, <2>8, <2>9, <2>10, <2>11, <2>12
        DEF HandlerStep
<1>4. ASSUME NEW r \in Requests, NEW written \in SUBSET (Files \ files[r]), WorkerWrites(r, written)
      PROVE  TypeOK'
    BY <1>4 DEF WorkerWrites, TypeOK
<1>5. ASSUME NEW c \in cleanups, RunCleanup(c)
      PROVE  TypeOK'
    BY <1>5 DEF RunCleanup, TypeOK, Files
<1> QED
    BY <1>1, <1>2, <1>3, <1>4, <1>5 DEF Next

-----------------------------------------------------------------------------
(* What the threads know *)

\* A committed row is well typed.
LEMMA CommittedRow ==
    ASSUME IInv, NEW h \in Handlers, Commit(h), handler[h].adds
    PROVE  [state |-> handler[h].state, reason |-> handler[h].reason,
            updated |-> handler[h].began, seen |-> handler[h].seen] \in Row
<1>1. handler[h] \in Call
    BY CurrentState DEF Commit
<1>2. handler[h].step = "read" /\ CallJustified(handler[h], rows[handler[h].req])
    BY DEF Commit, IInv, CallsJustified
<1>3. handler[h].state \in States /\ handler[h].seen \in Nat
    BY <1>1, <1>2 DEF CallJustified, AllowTransition, Call
<1> QED
    BY <1>1, <1>3 DEF Row, Call

\* A history changes only by a row that is added at its end.
LEMMA RowsGrow ==
    ASSUME IInv, Next, NEW r \in Requests
    PROVE  \/ rows'[r] = rows[r]
           \/ \E row \in Row : rows'[r] = Append(rows[r], row)
<1>1. ASSUME NEW h \in Handlers, NEW q \in Requests, NEW ms \in SUBSET PkgManagers,
             CreateRequest(h, q, ms)
      PROVE  \/ rows'[r] = rows[r]
             \/ \E row \in Row : rows'[r] = Append(rows[r], row)
    <2> DEFINE first == [state |-> "in_progress", reason |-> "initiated", updated |-> clock,
                         seen |-> 0]
    <2>1. first \in Row
        BY DEF IInv, TypeOK, Row, States, RowReasons
    <2>2. rows[q] = <<>> /\ rows' = [rows EXCEPT ![q] = <<first>>]
        BY <1>1 DEF CreateRequest, Submitted
    <2>3. <<first>> = Append(<<>>, first)
        OBVIOUS
    <2> HIDE DEF first
    <2> QED
        BY <2>1, <2>2, <2>3 DEF IInv, TypeOK
<1>2. ASSUME NEW h \in Handlers, NEW q \in Requests, NEW state \in AskedStates,
             NEW reason \in Reasons, PatchBegin(h, q, state, reason)
      PROVE  rows'[r] = rows[r]
    BY <1>2 DEF PatchBegin
<1>3. ASSUME NEW h \in Handlers, HandlerStep(h)
      PROVE  \/ rows'[r] = rows[r]
             \/ \E row \in Row : rows'[r] = Append(rows[r], row)
    <2>1. CASE Commit(h)
        <3>1. CASE ~handler[h].adds
            BY <2>1, <3>1 DEF Commit
        <3>2. CASE handler[h].adds
            <4> DEFINE row == [state |-> handler[h].state, reason |-> handler[h].reason,
                               updated |-> handler[h].began, seen |-> handler[h].seen]
            <4>1. row \in Row
                BY <2>1, <3>2, CommittedRow
            <4>2. rows' = [rows EXCEPT ![handler[h].req] = Append(@, row)]
                BY <2>1, <3>2 DEF Commit
            <4> HIDE DEF row
            <4> QED
                BY <4>1, <4>2 DEF IInv, TypeOK
        <3> QED
            BY <3>1, <3>2
    <2>2. CASE ~Commit(h)
        BY <1>3, <2>2 DEF HandlerStep, RefuseReplacements, PublishChain, PublishFails,
            FailUnscheduled, PatchRead, PatchRefuse, HandlerFails, DeleteBundle,
            DeleteTemp, DeleteLog, ScheduleCleanups
    <2> QED
        BY <2>1, <2>2
<1>4. ASSUME NEW q \in Requests, NEW written \in SUBSET (Files \ files[q]), WorkerWrites(q, written)
      PROVE  rows'[r] = rows[r]
    BY <1>4 DEF WorkerWrites
<1>5. ASSUME NEW c \in cleanups, RunCleanup(c)
      PROVE  rows'[r] = rows[r]
    BY <1>5 DEF RunCleanup
<1> QED
    BY <1>1, <1>2, <1>3, <1>4, <1>5 DEF Next

\* What a thread knows is not disturbed by the others.
LEMMA KnowledgeStays ==
    ASSUME IInv, Next, NEW g \in Handlers, handler[g] # Idle
    PROVE  CallJustified(handler[g], rows'[handler[g].req])
<1>1. /\ handler[g] \in Call /\ handler[g].req \in Requests
      /\ rows[handler[g].req] \in Seq(Row)
      /\ CallJustified(handler[g], rows[handler[g].req])
    BY CurrentState DEF IInv, CallsJustified, Call
<1> QED
    BY <1>1, RowsGrow, KnowledgeLasts

LEMMA CallsStep ==
    ASSUME IInv, Next
    PROVE  CallsJustified'
<1> SUFFICES ASSUME NEW g \in Handlers, handler'[g] # Idle
             PROVE  CallJustified(handler'[g], rows'[handler'[g].req])
    BY DEF CallsJustified
<1>0. CASE handler'[g] = handler[g]
    BY <1>0, KnowledgeStays
<1> SUFFICES ASSUME handler'[g] # handler[g]
             PROVE  CallJustified(handler'[g], rows'[handler'[g].req])
    BY <1>0
<1>1. ASSUME NEW h \in Handlers, NEW r \in Requests, NEW ms \in SUBSET PkgManagers,
             CreateRequest(h, r, ms)
      PROVE  CallJustified(handler'[g], rows'[handler'[g].req])
    <2>1. /\ handler'[g] = [op |-> "create", step |-> "submitted", req |-> r,
                            state |-> "failed", reason |-> "unscheduled", began |-> clock,
                            seen |-> 0, adds |-> TRUE]
          /\ rows'[r] # <<>>
        BY <1>1 DEF CreateRequest, IInv, TypeOK
    <2> QED
        BY <2>1 DEF CallJustified
<1>2. ASSUME NEW h \in Handlers, NEW r \in Requests, NEW state \in AskedStates,
             NEW reason \in Reasons, PatchBegin(h, r, state, reason)
      PROVE  CallJustified(handler'[g], rows'[handler'[g].req])
    <2>1. /\ handler'[g] = [op |-> "patch", step |-> "begun", req |-> r, state |-> state,
                            reason |-> reason, began |-> clock, seen |-> 0, adds |-> TRUE]
          /\ rows'[r] # <<>>
        BY <1>2 DEF PatchBegin, IInv, TypeOK, Submitted
    <2> QED
        BY <2>1 DEF CallJustified
<1>3. ASSUME HandlerStep(g)
      PROVE  CallJustified(handler'[g], rows'[handler'[g].req])
    <2> DEFINE call == handler[g]
               history == rows[call.req]
    <2>0. handler[g] # Idle
        BY <1>3 DEF HandlerStep, At, RefuseReplacements, PublishChain, PublishFails,
            FailUnscheduled, PatchRead, PatchRefuse, Commit, HandlerFails, DeleteBundle,
            DeleteTemp, DeleteLog, ScheduleCleanups
    <2>1. /\ call \in Call /\ call.req \in Requests
          /\ history \in Seq(Row) /\ Len(history) \in Nat \ {0} /\ history # <<>>
        BY <2>0, CurrentState DEF Call
    <2>2. CallJustified(call, history)
        BY <2>0 DEF IInv, CallsJustified
    <2>3. CASE /\ RefuseReplacements(g) \/ PublishChain(g) \/ PatchRefuse(g)
                  \/ HandlerFails(g) \/ ScheduleCleanups(g)
        BY <2>3 DEF RefuseReplacements, PublishChain, PatchRefuse, HandlerFails,
            ScheduleCleanups, Respond, IInv, TypeOK
    <2>4. CASE PublishFails(g)
        <3>1. handler'[g] = [call EXCEPT !.step = "begun", !.began = clock]
            BY <2>4 DEF PublishFails, IInv, TypeOK
        <3>2. rows' = rows /\ call.op = "create"
            BY <2>4 DEF PublishFails, At
        <3> QED
            BY <2>1, <2>2, <3>1, <3>2 DEF CallJustified, Call
    <2>5. CASE FailUnscheduled(g)
        <3>1. /\ AllowTransition(Current(call.req).state, "failed")
              /\ handler'[g] = [call EXCEPT !.step = "read", !.seen = Len(history)]
            BY <2>5 DEF FailUnscheduled, Respond, IInv, TypeOK
        <3>2. rows' = rows /\ call.op = "create"
            BY <2>5 DEF FailUnscheduled, At
        <3>3. call.adds
            BY <2>2, <3>2 DEF CallJustified
        <3> QED
            BY <2>1, <2>2, <3>1, <3>2, <3>3 DEF CallJustified, Call, Current
    <2>6. CASE PatchRead(g)
        <3> DEFINE adds == ~SameState(call.req, call.state, call.reason)
        <3>1. handler'[g] = [call EXCEPT !.step = "read", !.seen = Len(history), !.adds = adds]
            BY <2>6 DEF PatchRead, IInv, TypeOK
        <3>2. rows' = rows /\ call.op = "patch"
            BY <2>6 DEF PatchRead, At
        <3>3. /\ adds => AllowTransition(history[Len(history)].state, call.state)
              /\ ~adds => history[Len(history)].state = call.state
            BY <2>6 DEF PatchRead, SameState, Current
        <3>4. adds \in BOOLEAN
            BY DEF SameState
        <3> HIDE DEF adds
        <3>5. /\ handler'[g].op = "patch" /\ handler'[g].step = "read"
              /\ handler'[g].seen = Len(history) /\ handler'[g].adds = adds
              /\ handler'[g].state = call.state /\ handler'[g].req = call.req
            BY <2>1, <3>1, <3>2 DEF Call
        <3> QED
            BY <2>1, <3>2, <3>3, <3>4, <3>5 DEF CallJustified
    <2>7. CASE Commit(g)
        <3>1. /\ handler'[g] = [call EXCEPT !.step = "bundle"]
              /\ call.op = "patch" /\ call.step = "read"
            BY <2>7 DEF Commit, Respond, Advance, IInv, TypeOK
        <3>2. CASE ~call.adds
            <4>1. rows' = rows
                BY <2>7, <3>2 DEF Commit
            <4> QED
                BY <2>1, <2>2, <3>1, <3>2, <4>1 DEF CallJustified, Call
        <3>3. CASE call.adds
            <4> DEFINE row == [state |-> call.state, reason |-> call.reason,
                               updated |-> call.began, seen |-> call.seen]
            <4>1. row \in Row
                BY <2>7, <3>3, CommittedRow
            <4>2. rows'[call.req] = Append(history, row)
                BY <2>1, <2>7, <3>3 DEF Commit, IInv, TypeOK
            <4>3. row.state = call.state
                OBVIOUS
            <4> HIDE DEF row
            <4>4. /\ Len(rows'[call.req]) = Len(history) + 1
                  /\ rows'[call.req] # <<>>
                  /\ rows'[call.req][Len(history) + 1].state = call.state
                BY <2>1, <4>1, <4>2, <4>3, Appended
            <4>5. /\ handler'[g].op = "patch" /\ handler'[g].step = "bundle"
                  /\ handler'[g].seen = call.seen
                  /\ handler'[g].state = call.state /\ handler'[g].req = call.req
                BY <2>1, <3>1 DEF Call
            <4>6. call.seen \in 1..Len(rows'[call.req])
                BY <2>1, <2>2, <3>1, <4>4 DEF CallJustified
            <4> QED
                BY <2>1, <4>4, <4>5, <4>6 DEF CallJustified
        <3> QED
            BY <3>2, <3>3
    <2>8. CASE DeleteBundle(g) \/ DeleteTemp(g) \/ DeleteLog(g)
        <3>1. PICK step \in {"temp", "log", "nexus"} : handler'[g] = [call EXCEPT !.step = step]
            BY <2>8 DEF DeleteBundle, DeleteTemp, DeleteLog, Advance, IInv, TypeOK
        <3>2. rows' = rows /\ call.op = "patch" /\ call.step \in {"bundle", "temp", "log"}
            BY <2>8 DEF DeleteBundle, DeleteTemp, DeleteLog, At
        <3> QED
            BY <2>1, <2>2, <3>1, <3>2 DEF CallJustified, Call
    <2> QED
        BY <1>3, <2>3, <2>4, <2>5, <2>6, <2>7, <2>8 DEF HandlerStep
<1>4. ASSUME NEW h \in Handlers, HandlerStep(h), h # g
      PROVE  handler'[g] = handler[g]
    BY <1>4 DEF HandlerStep, RefuseReplacements, PublishChain, PublishFails,
        FailUnscheduled, PatchRead, PatchRefuse, Commit, HandlerFails, DeleteBundle,
        DeleteTemp, DeleteLog, ScheduleCleanups, Advance, Respond, IInv, TypeOK
<1>5. (\E r \in Requests : \E written \in SUBSET (Files \ files[r]) : WorkerWrites(r, written))
          => handler'[g] = handler[g]
    BY DEF WorkerWrites
<1>6. (\E c \in cleanups : RunCleanup(c)) => handler'[g] = handler[g]
    BY DEF RunCleanup
<1> QED
    BY <1>1, <1>2, <1>3, <1>4, <1>5, <1>6 DEF Next

-----------------------------------------------------------------------------
(* The invariant *)

LEMMA Stutter ==
    ASSUME IInv, UNCHANGED vars
    PROVE  IInv'
  BY DEF IInv, TypeOK, CallsJustified, vars

LEMMA Invariance == Spec => []IInv
<1>1. IInv /\ [Next]_vars => IInv'
    BY TypeStep, CallsStep, Stutter DEF IInv
<1> QED
    BY <1>1, InitIInv, PTL DEF Spec

\* Every variable keeps its type: no thread commits a state that does not exist, whatever
\* a client asks for (patch_request, Request.add_state).
THEOREM TypeCorrect == Spec => []TypeOK
<1>1. IInv => TypeOK
    BY DEF IInv
<1> QED
    BY <1>1, Invariance, PTL

-----------------------------------------------------------------------------
(* Histories are justified *)

\* What HistoryJustified says of one request.
Justified(history) ==
    \A i \in 2..Len(history) :
        /\ history[i].seen \in 1..(i - 1)
        /\ AllowTransition(history[history[i].seen].state, history[i].state)

LEMMA JustifiedGrows ==
    ASSUME NEW history \in Seq(Row), NEW row \in Row, Justified(history),
           row.seen \in 1..Len(history),
           AllowTransition(history[row.seen].state, row.state)
    PROVE  Justified(Append(history, row))
<1> DEFINE longer == Append(history, row)
<1>1. /\ Len(longer) = Len(history) + 1 /\ Len(history) \in Nat
      /\ \A i \in 1..Len(history) : longer[i] = history[i]
      /\ longer[Len(history) + 1] = row
    BY Appended
<1> HIDE DEF longer
<1>2. ASSUME NEW i \in 2..Len(longer)
      PROVE  /\ longer[i].seen \in 1..(i - 1)
             /\ AllowTransition(longer[longer[i].seen].state, longer[i].state)
    <2>1. CASE i = Len(history) + 1
        BY <1>1, <2>1
    <2>2. CASE i # Len(history) + 1
        <3>1. i \in 2..Len(history) /\ longer[i] = history[i]
            BY <1>1, <2>2
        <3>2. history[i].seen \in 1..Len(history)
            BY <1>1, <3>1 DEF Justified
        <3> QED
            BY <1>1, <3>1, <3>2 DEF Justified
    <2> QED
        BY <2>1, <2>2
<1>3. Justified(longer)
    BY <1>2 DEF Justified
<1> QED
    BY <1>3 DEF longer

LEMMA OneRowJustified ==
    ASSUME NEW row
    PROVE  Justified(<<row>>)
  BY DEF Justified

\* The rows of a request change when it is created and when a transaction that adds a row
\* is committed.
LEMMA WhoCommits ==
    ASSUME IInv, Next, NEW r \in Requests, rows'[r] # rows[r]
    PROVE  \/ \E row : /\ rows[r] = <<>> /\ rows'[r] = <<row>>
                       /\ row.state = "in_progress" /\ row.seen = 0
           \/ \E h \in Handlers :
                  /\ handler[h] # Idle /\ handler[h].step = "read"
                  /\ handler[h].req = r /\ handler[h].adds
                  /\ rows'[r] = Append(rows[r], [state |-> handler[h].state,
                                                reason |-> handler[h].reason,
                                                updated |-> handler[h].began,
                                                seen |-> handler[h].seen])
                  /\ Commit(h)
<1>1. ASSUME NEW h \in Handlers, NEW q \in Requests, NEW ms \in SUBSET PkgManagers,
             CreateRequest(h, q, ms)
      PROVE  \E row : /\ rows[r] = <<>> /\ rows'[r] = <<row>>
                       /\ row.state = "in_progress" /\ row.seen = 0
    BY <1>1 DEF CreateRequest, Submitted, IInv, TypeOK
<1>2. ASSUME NEW h \in Handlers, HandlerStep(h)
      PROVE  /\ handler[h] # Idle /\ handler[h].step = "read"
             /\ handler[h].req = r /\ handler[h].adds
             /\ rows'[r] = Append(rows[r], [state |-> handler[h].state,
                                           reason |-> handler[h].reason,
                                           updated |-> handler[h].began,
                                           seen |-> handler[h].seen])
             /\ Commit(h)
    <2>1. Commit(h)
        BY <1>2 DEF HandlerStep, RefuseReplacements, PublishChain, PublishFails,
            FailUnscheduled, PatchRead, PatchRefuse, HandlerFails, DeleteBundle,
            DeleteTemp, DeleteLog, ScheduleCleanups
    <2>2. handler[h] \in Call /\ handler[h].req \in Requests
        BY <2>1, CurrentState DEF Commit, Call
    <2> QED
        BY <2>1, <2>2 DEF Commit, IInv, TypeOK
<1>3. ~ \E h \in Handlers, q \in Requests : \E state \in AskedStates, reason \in Reasons :
            PatchBegin(h, q, state, reason)
    BY DEF PatchBegin
<1>4. ~ \E q \in Requests : \E written \in SUBSET (Files \ files[q]) : WorkerWrites(q, written)
    BY DEF WorkerWrites
<1>5. ~ \E c \in cleanups : RunCleanup(c)
    BY DEF RunCleanup
<1> QED
    BY <1>1, <1>2, <1>3, <1>4, <1>5 DEF Next

LEMMA HistoryStep ==
    ASSUME IInv, HistoryJustified, Next
    PROVE  HistoryJustified'
<1>1. \A r \in Requests : Justified(rows[r])
    BY DEF HistoryJustified, Justified
<1>2. ASSUME NEW r \in Requests
      PROVE  Justified(rows'[r])
    <2>1. CASE rows'[r] = rows[r]
        BY <1>1, <2>1
    <2>2. CASE \E row : rows[r] = <<>> /\ rows'[r] = <<row>>
        BY <2>2, OneRowJustified
    <2>3. ASSUME NEW h \in Handlers,
                 handler[h] # Idle, handler[h].step = "read", handler[h].req = r,
                 handler[h].adds, Commit(h),
                 rows'[r] = Append(rows[r], [state |-> handler[h].state,
                                            reason |-> handler[h].reason,
                                            updated |-> handler[h].began,
                                            seen |-> handler[h].seen])
          PROVE  Justified(rows'[r])
        <3> DEFINE row == [state |-> handler[h].state, reason |-> handler[h].reason,
                           updated |-> handler[h].began, seen |-> handler[h].seen]
        <3>1. row \in Row
            BY <2>3, CommittedRow
        <3>2. /\ handler[h].seen \in 1..Len(rows[r])
              /\ AllowTransition(rows[r][handler[h].seen].state, handler[h].state)
            BY <2>3 DEF IInv, CallsJustified, CallJustified
        <3>3. row.seen = handler[h].seen /\ row.state = handler[h].state
            OBVIOUS
        <3>4. rows[r] \in Seq(Row)
            BY DEF IInv, TypeOK
        <3>5. rows'[r] = Append(rows[r], row)
            BY <2>3
        <3> HIDE DEF row
        <3> QED
            BY <1>1, <3>1, <3>2, <3>3, <3>4, <3>5, JustifiedGrows
    <2> QED
        BY <2>1, <2>2, <2>3, WhoCommits
<1> QED
    BY <1>2 DEF HistoryJustified, Justified

\* However PATCHes overlap, every row is a legal successor of the row its transaction read.
THEOREM HistoriesAreJustified == Spec => []HistoryJustified
<1>1. Init => HistoryJustified
    BY DEF Init, HistoryJustified
<1>2. HistoryJustified /\ UNCHANGED vars => HistoryJustified'
    BY DEF HistoryJustified, vars
<1>3. IInv /\ HistoryJustified /\ [Next]_vars => HistoryJustified'
    BY <1>2, HistoryStep
<1> QED
    BY <1>1, <1>3, Invariance, PTL DEF Spec

\* A thread whose transaction was not overtaken commits a legal successor of the current
\* state.
THEOREM CommitsAreLegal == Spec => LegalUnlessOvertaken
<1>1. ASSUME IInv, Next, NEW r \in Requests, Submitted(r), rows'[r] # rows[r], ~Overtaken(r)
      PROVE  AllowTransition(Current(r).state, Current(r)'.state)
    <2>1. PICK h \in Handlers :
              /\ handler[h] # Idle /\ handler[h].step = "read"
              /\ handler[h].req = r /\ handler[h].adds
              /\ rows'[r] = Append(rows[r], [state |-> handler[h].state,
                                            reason |-> handler[h].reason,
                                            updated |-> handler[h].began,
                                            seen |-> handler[h].seen])
              /\ Commit(h)
        BY <1>1, WhoCommits DEF Submitted
    <2> DEFINE row == [state |-> handler[h].state, reason |-> handler[h].reason,
                       updated |-> handler[h].began, seen |-> handler[h].seen]
    <2>2. /\ handler[h].seen \in 1..Len(rows[r])
          /\ AllowTransition(rows[r][handler[h].seen].state, handler[h].state)
        BY <1>1, <2>1 DEF IInv, CallsJustified, CallJustified
    <2>3. rows[r] \in Seq(Row) /\ Len(rows[r]) \in Nat
        BY <1>1 DEF IInv, TypeOK
    <2>4. handler[h].seen = Len(rows[r])
        BY <1>1, <2>1, <2>2, <2>3 DEF Overtaken
    <2>5. row \in Row
        BY <1>1, <2>1, CommittedRow
    <2>6. rows'[r] = Append(rows[r], row) /\ row.state = handler[h].state
        BY <2>1
    <2> HIDE DEF row
    <2>7. rows'[r][Len(rows'[r])] = row
        BY <2>3, <2>5, <2>6, Appended
    <2> QED
        BY <2>2, <2>4, <2>6, <2>7 DEF Current
<1>2. IInv /\ [Next]_vars =>
          [\A r \in Requests :
              (Submitted(r) /\ rows'[r] # rows[r] /\ ~Overtaken(r))
                  => AllowTransition(Current(r).state, Current(r)'.state)]_vars
    BY <1>1
<1> QED
    BY <1>2, Invariance, PTL DEF Spec, LegalUnlessOvertaken

-----------------------------------------------------------------------------
(* What is deleted, and why *)

\* What was once in a history stays in it.
LEMMA HasBeenLasts ==
    ASSUME IInv, Next, NEW r \in Requests, NEW states, HasBeen(r, states)
    PROVE  HasBeen(r, states)'
<1>1. rows[r] \in Seq(Row)
    BY DEF IInv, TypeOK
<1>2. PICK i \in 1..Len(rows[r]) : rows[r][i].state \in states
    BY <1>1 DEF HasBeen
<1>3. CASE rows'[r] = rows[r]
    BY <1>3 DEF HasBeen
<1>4. CASE \E row \in Row : rows'[r] = Append(rows[r], row)
    <2>1. rows'[r][i] = rows[r][i] /\ i \in DOMAIN rows'[r]
        BY <1>1, <1>2, <1>4, Appended
    <2> QED
        BY <1>2, <2>1 DEF HasBeen
<1> QED
    BY <1>3, <1>4, RowsGrow

\* After its commit a thread has its own state in the history.
LEMMA CommittedState ==
    ASSUME IInv, NEW h \in Handlers, handler[h] # Idle,
           handler[h].step \in {"bundle", "temp", "log", "nexus"}
    PROVE  \A states : handler[h].state \in states => HasBeen(handler[h].req, states)
<1>1. rows[handler[h].req] \in Seq(Row)
    BY CurrentState
<1>2. \E i \in 1..Len(rows[handler[h].req]) : rows[handler[h].req][i].state = handler[h].state
    BY DEF IInv, CallsJustified, CallJustified
<1> QED
    BY <1>1, <1>2 DEF HasBeen

\* A cleanup task is scheduled by ScheduleCleanups only; the managers of a request that has
\* one do not change, for the request exists.
LEMMA CleanupsStep ==
    ASSUME IInv, CleanupsJustified, Next
    PROVE  CleanupsJustified'
<1> SUFFICES ASSUME NEW c \in cleanups'
             PROVE  c[2] \in managers'[c[1]] /\ HasBeen(c[1], {"stale", "failed"})'
    BY DEF CleanupsJustified
<1>1. ASSUME c \in cleanups
      PROVE  c[2] \in managers'[c[1]] /\ HasBeen(c[1], {"stale", "failed"})'
    <2>1. c[1] \in Requests /\ c[2] \in managers[c[1]] /\ HasBeen(c[1], {"stale", "failed"})
        BY <1>1 DEF CleanupsJustified, IInv, TypeOK
    <2>2. HasBeen(c[1], {"stale", "failed"})'
        BY <2>1, HasBeenLasts
    <2>3. Submitted(c[1])
        BY <2>1 DEF HasBeen, Submitted
    <2>4. managers'[c[1]] = managers[c[1]]
        BY <2>1, <2>3 DEF Next, CreateRequest, PatchBegin, WorkerWrites, RunCleanup, HandlerStep,
            RefuseReplacements, PublishChain, PublishFails, FailUnscheduled, PatchRead,
            PatchRefuse, Commit, HandlerFails, DeleteBundle, DeleteTemp, DeleteLog,
            ScheduleCleanups, IInv, TypeOK
    <2> QED
        BY <2>1, <2>2, <2>4
<1>2. ASSUME c \notin cleanups
      PROVE  c[2] \in managers'[c[1]] /\ HasBeen(c[1], {"stale", "failed"})'
    <2>1. PICK h \in Handlers : ScheduleCleanups(h)
        BY <1>2 DEF Next, CreateRequest, PatchBegin, WorkerWrites, RunCleanup, HandlerStep,
            RefuseReplacements, PublishChain, PublishFails, FailUnscheduled, PatchRead,
            PatchRefuse, Commit, HandlerFails, DeleteBundle, DeleteTemp, DeleteLog
    <2>2. /\ CleansNexus(handler[h])
          /\ c[1] = handler[h].req /\ c[2] \in managers[handler[h].req]
          /\ UNCHANGED <<rows, managers>>
        BY <1>2, <2>1 DEF ScheduleCleanups
    <2>3. HasBeen(c[1], {"stale", "failed"})
        BY <2>1, <2>2, CommittedState DEF ScheduleCleanups, At, CleansNexus
    <2> QED
        BY <2>2, <2>3 DEF HasBeen
<1> QED
    BY <1>1, <1>2

\* Nexus content is cleaned up only for the managers of a stale or failed request.
THEOREM CleanupsAreJustified == Spec => []CleanupsJustified
<1>1. Init => CleanupsJustified
    BY DEF Init, CleanupsJustified
<1>2. CleanupsJustified /\ UNCHANGED vars => CleanupsJustified'
    BY DEF CleanupsJustified, HasBeen, vars
<1>3. IInv /\ CleanupsJustified /\ [Next]_vars => CleanupsJustified'
    BY <1>2, CleanupsStep
<1> QED
    BY <1>1, <1>3, Invariance, PTL DEF Spec

\* A file of the bundle is deleted only by a thread that has committed a stale row.
LEMMA BundleKept ==
    ASSUME IInv, Next, NEW r \in Requests, NEW f \in {"archive", "checksum", "packages"},
           f \in files[r], f \notin files'[r]
    PROVE  HasBeen(r, {"stale"})
<1>0. f # "temp" /\ f # "log" /\ files \in [Requests -> SUBSET Files]
    BY DEF IInv, TypeOK
<1>1. ASSUME NEW h \in Handlers, DeleteTemp(h) \/ DeleteLog(h)
      PROVE  FALSE
    <2>1. \/ files'[r] = files[r] \/ files'[r] = files[r] \ {"temp"}
          \/ files'[r] = files[r] \ {"log"}
        BY <1>0, <1>1 DEF DeleteTemp, DeleteLog
    <2> QED
        BY <1>0, <2>1
<1>2. ASSUME NEW q \in Requests, NEW written \in SUBSET (Files \ files[q]), WorkerWrites(q, written)
      PROVE  FALSE
    <2>1. files'[r] = files[r] \/ files'[r] = files[r] \cup written
        BY <1>0, <1>2 DEF WorkerWrites
    <2> QED
        BY <2>1
<1>3. ASSUME NEW c \in cleanups, RunCleanup(c)
      PROVE  FALSE
    <2>1. files'[r] = files[r] \/ files'[r] = files[r] \cup {"log"}
        BY <1>0, <1>3 DEF RunCleanup
    <2> QED
        BY <2>1
<1>4. PICK h \in Handlers : DeleteBundle(h)
    BY <1>1, <1>2, <1>3 DEF Next, CreateRequest, PatchBegin, HandlerStep,
        RefuseReplacements, PublishChain, PublishFails, FailUnscheduled, PatchRead,
        PatchRefuse, Commit, HandlerFails, ScheduleCleanups
<1>5. handler[h].req = r /\ DeletesBundle(handler[h])
    BY <1>4 DEF DeleteBundle, IInv, TypeOK
<1> QED
    BY <1>4, <1>5, CommittedState DEF DeleteBundle, At, DeletesBundle

\* No request loses its bundle, its checksum or its packages before it is marked stale.
THEOREM BundlesOutliveRequests == Spec => BundleOutlivesRequest
<1>1. IInv /\ [Next]_vars =>
          [\A r \in Requests :
              (files[r] \ files'[r]) \cap {"archive", "checksum", "packages"} # {}
                  => HasBeen(r, {"stale"})]_vars
    BY BundleKept
<1> QED
    BY <1>1, Invariance, PTL DEF Spec, BundleOutlivesRequest

-----------------------------------------------------------------------------
(* One thread *)

OneThread == \E h \in Handlers : Handlers = {h}

NotOvertaken ==
    \A h \in Handlers : handler[h] # Idle /\ handler[h].step = "read"
        => handler[h].seen = Len(rows[handler[h].req])

\* Rows are in the order of their transactions, and those lie in the past.
Ordered(history, now) ==
    /\ \A i \in 1..Len(history) : history[i].updated < now
    /\ \A i, j \in 1..Len(history) : i < j => history[i].updated < history[j].updated

InOrder ==
    /\ \A r \in Requests : Ordered(rows[r], clock)
    /\ \A h \in Handlers : handler[h] # Idle /\ handler[h].step \in {"begun", "read"} =>
           /\ handler[h].began < clock
           /\ Ordered(rows[handler[h].req], handler[h].began)

\* The steps that leave the histories alone and the thread that runs them where it was.
LEMMA OtherSteps ==
    ASSUME NEW h \in Handlers, Handlers = {h}, IInv, Next
    PROVE  \/ \E r \in Requests, ms \in SUBSET PkgManagers : CreateRequest(h, r, ms)
           \/ \E r \in Requests, state \in AskedStates, reason \in Reasons :
                  PatchBegin(h, r, state, reason)
           \/ PublishFails(h) \/ FailUnscheduled(h) \/ PatchRead(h) \/ Commit(h)
           \/ /\ rows' = rows /\ clock' = clock
              /\ \/ handler'[h] = handler[h]
                 \/ handler'[h] = Idle
                 \/ /\ handler[h] # Idle /\ handler'[h].step \in {"temp", "log", "nexus"}
                    /\ handler'[h].req = handler[h].req
<1>1. ASSUME DeleteBundle(h) \/ DeleteTemp(h) \/ DeleteLog(h)
      PROVE  /\ handler[h] # Idle /\ handler'[h].step \in {"temp", "log", "nexus"}
             /\ handler'[h].req = handler[h].req
    <2>1. handler[h] # Idle
        BY <1>1 DEF DeleteBundle, DeleteTemp, DeleteLog, At
    <2>2. PICK step \in {"temp", "log", "nexus"} :
              handler'[h] = [handler[h] EXCEPT !.step = step]
        BY <1>1 DEF DeleteBundle, DeleteTemp, DeleteLog, Advance, IInv, TypeOK
    <2>3. handler[h] \in Call
        BY <2>1, CurrentState
    <2> QED
        BY <2>1, <2>2, <2>3 DEF Call
<1>2. ASSUME RefuseReplacements(h) \/ PublishChain(h) \/ PatchRefuse(h) \/ HandlerFails(h)
             \/ ScheduleCleanups(h)
      PROVE  handler'[h] = Idle
    BY <1>2 DEF RefuseReplacements, PublishChain, PatchRefuse, HandlerFails, ScheduleCleanups,
        Respond, IInv, TypeOK
<1>3. ASSUME NEW r \in Requests, NEW written \in SUBSET (Files \ files[r]), WorkerWrites(r, written)
      PROVE  rows' = rows /\ clock' = clock /\ handler'[h] = handler[h]
    BY <1>3 DEF WorkerWrites
<1>4. ASSUME NEW c \in cleanups, RunCleanup(c)
      PROVE  rows' = rows /\ clock' = clock /\ handler'[h] = handler[h]
    BY <1>4 DEF RunCleanup
<1>5. ASSUME RefuseReplacements(h) \/ PublishChain(h) \/ PatchRefuse(h) \/ HandlerFails(h)
             \/ ScheduleCleanups(h) \/ DeleteBundle(h) \/ DeleteTemp(h) \/ DeleteLog(h)
      PROVE  rows' = rows /\ clock' = clock
    BY <1>5 DEF RefuseReplacements, PublishChain, PatchRefuse, HandlerFails, ScheduleCleanups,
        DeleteBundle, DeleteTemp, DeleteLog
<1> QED
    BY <1>1, <1>2, <1>3, <1>4, <1>5 DEF Next, HandlerStep

LEMMA NotOvertakenStep ==
    ASSUME NEW h \in Handlers, Handlers = {h}, IInv, NotOvertaken, Next
    PROVE  NotOvertaken'
<1> SUFFICES ASSUME handler'[h] # Idle, handler'[h].step = "read"
             PROVE  handler'[h].seen = Len(rows'[handler'[h].req])
    BY DEF NotOvertaken
<1>0. handler[h] # Idle => handler[h] \in Call
    BY CurrentState
<1>1. ASSUME NEW r \in Requests, NEW ms \in SUBSET PkgManagers, CreateRequest(h, r, ms)
      PROVE  FALSE
    BY <1>1 DEF CreateRequest, IInv, TypeOK
<1>2. ASSUME NEW r \in Requests, NEW state \in AskedStates, NEW reason \in Reasons,
             PatchBegin(h, r, state, reason)
      PROVE  FALSE
    BY <1>2 DEF PatchBegin, IInv, TypeOK
<1>3. ASSUME PublishFails(h)
      PROVE  FALSE
    <2>1. handler'[h] = [handler[h] EXCEPT !.step = "begun", !.began = clock]
        BY <1>3 DEF PublishFails, IInv, TypeOK
    <2> QED
        BY <1>0, <1>3, <2>1 DEF PublishFails, At, Call
<1>4. ASSUME FailUnscheduled(h)
      PROVE  handler'[h].seen = Len(rows'[handler'[h].req])
    <2>1. rows' = rows /\ handler'[h] = [handler[h] EXCEPT !.step = "read",
                                                  !.seen = Len(rows[handler[h].req])]
        BY <1>4 DEF FailUnscheduled, Respond, IInv, TypeOK
    <2> QED
        BY <1>0, <1>4, <2>1 DEF FailUnscheduled, At, Call
<1>5. ASSUME PatchRead(h)
      PROVE  handler'[h].seen = Len(rows'[handler'[h].req])
    <2>1. rows' = rows
        BY <1>5 DEF PatchRead
    <2>2. PICK adds : handler'[h] = [handler[h] EXCEPT !.step = "read",
                          !.seen = Len(rows[handler[h].req]), !.adds = adds]
        BY <1>5 DEF PatchRead, IInv, TypeOK
    <2> QED
        BY <1>0, <1>5, <2>1, <2>2 DEF PatchRead, At, Call
<1>6. ASSUME Commit(h)
      PROVE  FALSE
    <2>1. handler'[h] = [handler[h] EXCEPT !.step = "bundle"]
        BY <1>6 DEF Commit, Advance, Respond, IInv, TypeOK
    <2> QED
        BY <1>0, <1>6, <2>1 DEF Commit, Call
<1> QED
    BY <1>1, <1>2, <1>3, <1>4, <1>5, <1>6, OtherSteps DEF NotOvertaken

THEOREM NeverOvertaken ==
    ASSUME OneThread
    PROVE  Spec => []NotOvertaken
<1>1. Init => NotOvertaken
    BY DEF Init, NotOvertaken
<1>2. NotOvertaken /\ UNCHANGED vars => NotOvertaken'
    BY DEF NotOvertaken, vars
<1>3. IInv /\ NotOvertaken /\ [Next]_vars => NotOvertaken'
    BY OneThread, <1>2, NotOvertakenStep DEF OneThread
<1> QED
    BY <1>1, <1>3, Invariance, PTL DEF Spec

-----------------------------------------------------------------------------
(* The abstract life cycle *)

\* The status of the abstract specification.
StatusMap == [r \in Requests |-> IF Submitted(r) THEN Current(r).state ELSE "none"]

LEMMA LifecycleStep ==
    ASSUME NEW h \in Handlers, Handlers = {h}, IInv, NotOvertaken, Next
    PROVE  Lifecycle!Next \/ StatusMap' = StatusMap
<1>1. CASE rows' = rows
    BY <1>1 DEF StatusMap, Submitted, Current
<1>2. ASSUME NEW r \in Requests, NEW ms \in SUBSET PkgManagers, CreateRequest(h, r, ms)
      PROVE  Lifecycle!Submit(r)
    <2>1. /\ rows[r] = <<>>
          /\ rows' = [rows EXCEPT ![r] = <<[state |-> "in_progress", reason |-> "initiated",
                                           updated |-> clock, seen |-> 0]>>]
        BY <1>2 DEF CreateRequest, Submitted
    <2>2. StatusMap[r] = "none"
        BY <2>1 DEF StatusMap, Submitted
    <2>3. StatusMap'[r] = "in_progress"
        BY <2>1 DEF StatusMap, Submitted, Current, IInv, TypeOK
    <2>4. \A q \in Requests \ {r} : StatusMap'[q] = StatusMap[q]
        BY <2>1 DEF StatusMap, Submitted, Current, IInv, TypeOK
    <2>5. StatusMap' = [StatusMap EXCEPT ![r] = "in_progress"]
        BY <2>3, <2>4 DEF StatusMap
    <2> QED
        BY <2>2, <2>5 DEF Lifecycle!Submit, StatusMap
<1>3. ASSUME Commit(h), handler[h].adds
      PROVE  \E r \in Requests : \/ \E outcome \in {"complete", "failed"} :
                                        Lifecycle!Settle(r, outcome)
                                 \/ Lifecycle!Expire(r)
                                 \/ StatusMap' = StatusMap
    <2> DEFINE r == handler[h].req
               now == Current(r).state
               next == handler[h].state
               row == [state |-> handler[h].state, reason |-> handler[h].reason,
                       updated |-> handler[h].began, seen |-> handler[h].seen]
    <2>1. /\ handler[h] # Idle /\ handler[h].step = "read" /\ r \in Requests
          /\ rows[r] \in Seq(Row) /\ rows[r] # <<>> /\ Len(rows[r]) \in Nat
        BY <1>3, CurrentState DEF Commit, Call
    <2>2. AllowTransition(now, next)
        BY <1>3, <2>1 DEF IInv, CallsJustified, CallJustified, NotOvertaken, Current
    <2>3. row \in Row /\ row.state = next
        BY <1>3, CommittedRow
    <2>4. rows' = [rows EXCEPT ![r] = Append(@, row)]
        BY <1>3 DEF Commit
    <2> HIDE DEF row
    <2>5. StatusMap[r] = now
        BY <2>1 DEF StatusMap, Submitted
    <2>6. StatusMap'[r] = next
        <3>1. rows'[r] = Append(rows[r], row)
            BY <2>1, <2>4 DEF IInv, TypeOK
        <3>2. rows'[r] # <<>> /\ rows'[r][Len(rows'[r])] = row
            BY <2>1, <2>3, <3>1, Appended
        <3> QED
            BY <2>1, <2>3, <3>2 DEF StatusMap, Submitted, Current
    <2>7. \A q \in Requests \ {r} : StatusMap'[q] = StatusMap[q]
        BY <2>4 DEF StatusMap, Submitted, Current, IInv, TypeOK
    <2> HIDE DEF r, now, next
    <2>8. StatusMap' = [StatusMap EXCEPT ![r] = next]
        BY <2>1, <2>6, <2>7 DEF StatusMap
    <2>9. CASE next = "in_progress"
        <3>1. now = "in_progress"
            BY <2>2, <2>9 DEF AllowTransition, AllowedFrom
        <3> QED
            BY <2>1, <2>5, <2>8, <2>9, <3>1 DEF StatusMap
    <2>10. CASE next \in {"complete", "failed"}
        <3>1. now = "in_progress"
            BY <2>2, <2>10 DEF AllowTransition, AllowedFrom
        <3> QED
            BY <2>1, <2>5, <2>8, <2>10, <3>1 DEF Lifecycle!Settle, StatusMap
    <2>11. CASE next = "stale"
        <3>1. now \in {"complete", "failed", "in_progress"}
            BY <2>2, <2>11 DEF AllowTransition, AllowedFrom
        <3> QED
            BY <2>1, <2>5, <2>8, <2>11, <3>1 DEF Lifecycle!Expire, StatusMap
    <2> QED
        BY <2>2, <2>9, <2>10, <2>11 DEF AllowTransition, States
<1>4. Commit(h) /\ ~handler[h].adds => rows' = rows
    BY DEF Commit
<1>5. PublishFails(h) \/ FailUnscheduled(h) \/ PatchRead(h) => rows' = rows
    BY DEF PublishFails, FailUnscheduled, PatchRead
<1>6. \A r \in Requests, state \in AskedStates, reason \in Reasons :
          PatchBegin(h, r, state, reason) => rows' = rows
    BY DEF PatchBegin
<1> QED
    BY <1>1, <1>2, <1>3, <1>4, <1>5, <1>6, OtherSteps DEF Lifecycle!Next

\* A server with one thread gives every request one life: submitted once, settled at most
\* once, and stale for ever.
THEOREM SerialApiImplementsLifecycle ==
    ASSUME OneThread
    PROVE  Spec => LifecycleSpec
<1>1. Init => Lifecycle!Init
    BY DEF Init, Lifecycle!Init, Submitted
<1>2. IInv /\ NotOvertaken /\ [Next]_vars => [Lifecycle!Next]_StatusMap
    <2>1. UNCHANGED vars => StatusMap' = StatusMap
        BY DEF vars, StatusMap, Submitted, Current
    <2> QED
        BY OneThread, <2>1, LifecycleStep DEF OneThread
<1> QED
    BY <1>1, <1>2, Invariance, NeverOvertaken, PTL
    DEF Spec, LifecycleSpec, Lifecycle!Spec, StatusMap

-----------------------------------------------------------------------------
(* The order of the history *)

LEMMA UpdatedTypes ==
    ASSUME NEW history \in Seq(Row)
    PROVE  \A i \in 1..Len(history) : history[i].updated \in Nat
<1>1. \A i \in 1..Len(history) : history[i] \in Row
    OBVIOUS
<1>2. \A row \in Row : row.updated \in Nat
    BY DEF Row
<1> QED
    BY <1>1, <1>2

LEMMA OrderedLater ==
    ASSUME NEW history \in Seq(Row), NEW now \in Nat, NEW later \in Nat, now <= later,
           Ordered(history, now)
    PROVE  Ordered(history, later)
  BY UpdatedTypes DEF Ordered

LEMMA OrderedGrows ==
    ASSUME NEW history \in Seq(Row), NEW row \in Row, NEW now \in Nat,
           Ordered(history, row.updated), row.updated < now
    PROVE  Ordered(Append(history, row), now)
<1> DEFINE longer == Append(history, row)
<1>1. /\ Len(longer) = Len(history) + 1 /\ Len(history) \in Nat
      /\ \A i \in 1..Len(history) : longer[i] = history[i]
      /\ longer[Len(history) + 1] = row
    BY Appended
<1>2. \A i \in 1..Len(history) : history[i].updated \in Nat
    BY UpdatedTypes
<1>3. row.updated \in Nat
    BY DEF Row
<1> HIDE DEF longer
<1>4. \A i \in 1..Len(longer) : i = Len(history) + 1 \/ i \in 1..Len(history)
    BY <1>1
<1>5. \A i \in 1..Len(longer) : longer[i].updated < now
    BY <1>1, <1>2, <1>3, <1>4 DEF Ordered
<1>6. \A i, j \in 1..Len(longer) : i < j => longer[i].updated < longer[j].updated
    BY <1>1, <1>4 DEF Ordered
<1>7. Ordered(longer, now)
    BY <1>5, <1>6 DEF Ordered
<1> QED
    BY <1>7 DEF longer

LEMMA InOrderStep ==
    ASSUME NEW h \in Handlers, Handlers = {h}, IInv, InOrder, Next
    PROVE  InOrder'
<1> DEFINE Fresh == handler'[h] # Idle /\ handler'[h].step \in {"begun", "read"} =>
                        /\ handler'[h].began < clock'
                        /\ Ordered(rows'[handler'[h].req], handler'[h].began)
<1>0. /\ clock \in Nat /\ \A r \in Requests : rows[r] \in Seq(Row)
      /\ handler[h] # Idle => handler[h] \in Call
    BY CurrentState DEF IInv, TypeOK
<1> SUFFICES (\A r \in Requests : Ordered(rows'[r], clock')) /\ Fresh
    BY DEF InOrder
<1>a. ASSUME rows' = rows, clock' \in {clock, clock + 1}
      PROVE  \A r \in Requests : Ordered(rows'[r], clock')
    BY <1>0, <1>a, OrderedLater DEF InOrder
<1>1. ASSUME NEW r \in Requests, NEW ms \in SUBSET PkgManagers, CreateRequest(h, r, ms)
      PROVE  (\A q \in Requests : Ordered(rows'[q], clock')) /\ Fresh
    <2> DEFINE first == [state |-> "in_progress", reason |-> "initiated", updated |-> clock,
                         seen |-> 0]
    <2>1. rows' = [rows EXCEPT ![r] = <<first>>] /\ clock' = clock + 1
        BY <1>1 DEF CreateRequest
    <2>2. first.updated < clock + 1
        BY <1>0
    <2>3. Ordered(<<first>>, clock + 1)
        BY <2>2 DEF Ordered
    <2> HIDE DEF first
    <2>4. ASSUME NEW q \in Requests
          PROVE  Ordered(rows'[q], clock')
        <3>1. CASE q = r
            BY <2>1, <2>3, <3>1 DEF IInv, TypeOK
        <3>2. CASE q # r
            <4>1. rows'[q] = rows[q] /\ Ordered(rows[q], clock)
                BY <2>1, <3>2 DEF IInv, TypeOK, InOrder
            <4> QED
                BY <1>0, <2>1, <4>1, OrderedLater
        <3> QED
            BY <3>1, <3>2
    <2>5. handler'[h].step = "submitted"
        BY <1>1 DEF CreateRequest, IInv, TypeOK
    <2> QED
        BY <2>4, <2>5
<1>2. ASSUME NEW r \in Requests, NEW state \in AskedStates, NEW reason \in Reasons,
             PatchBegin(h, r, state, reason)
      PROVE  (\A q \in Requests : Ordered(rows'[q], clock')) /\ Fresh
    <2>1. /\ rows' = rows /\ clock' = clock + 1
          /\ handler'[h].req = r /\ handler'[h].began = clock
        BY <1>2 DEF PatchBegin, IInv, TypeOK
    <2> QED
        BY <1>0, <1>a, <2>1 DEF InOrder
<1>3. ASSUME PublishFails(h)
      PROVE  (\A q \in Requests : Ordered(rows'[q], clock')) /\ Fresh
    <2>1. /\ rows' = rows /\ clock' = clock + 1 /\ handler[h] \in Call
          /\ handler'[h] = [handler[h] EXCEPT !.step = "begun", !.began = clock]
        BY <1>0, <1>3 DEF PublishFails, At, IInv, TypeOK
    <2>2. handler'[h].req = handler[h].req /\ handler'[h].began = clock
        BY <2>1 DEF Call
    <2> QED
        BY <1>0, <1>a, <2>1, <2>2 DEF InOrder, Call
<1>4. ASSUME FailUnscheduled(h) \/ PatchRead(h)
      PROVE  (\A q \in Requests : Ordered(rows'[q], clock')) /\ Fresh
    <2>1. rows' = rows /\ clock' = clock /\ handler[h] \in Call /\ handler[h].step = "begun"
        BY <1>0, <1>4 DEF FailUnscheduled, PatchRead, At
    <2> DEFINE Same == \/ handler'[h] = Idle
                       \/ /\ handler'[h].req = handler[h].req
                          /\ handler'[h].began = handler[h].began
    <2>2. ASSUME FailUnscheduled(h)
          PROVE  Same
        <3>1. \/ handler'[h] = Idle
              \/ handler'[h] = [handler[h] EXCEPT !.step = "read",
                                                  !.seen = Len(rows[handler[h].req])]
            BY <2>2 DEF FailUnscheduled, Respond, IInv, TypeOK
        <3> QED
            BY <2>1, <3>1 DEF Call
    <2>3. ASSUME PatchRead(h)
          PROVE  Same
        <3>1. PICK adds : handler'[h] = [handler[h] EXCEPT !.step = "read",
                              !.seen = Len(rows[handler[h].req]), !.adds = adds]
            BY <2>3 DEF PatchRead, IInv, TypeOK
        <3> QED
            BY <2>1, <3>1 DEF Call
    <2> QED
        BY <1>0, <1>a, <1>4, <2>1, <2>2, <2>3 DEF InOrder, FailUnscheduled, PatchRead, At
<1>5. ASSUME Commit(h)
      PROVE  (\A q \in Requests : Ordered(rows'[q], clock')) /\ Fresh
    <2>1. /\ clock' = clock /\ handler[h] # Idle /\ handler[h].step = "read"
          /\ handler[h] \in Call /\ handler[h].req \in Requests
        BY <1>0, <1>5 DEF Commit, Call
    <2>2. Fresh
        <3>1. handler'[h] = Idle \/ handler'[h] = [handler[h] EXCEPT !.step = "bundle"]
            BY <1>5 DEF Commit, Respond, Advance, IInv, TypeOK
        <3> QED
            BY <2>1, <3>1 DEF Call
    <2>3. CASE ~handler[h].adds
        BY <1>5, <1>a, <2>1, <2>2, <2>3 DEF Commit
    <2>4. CASE handler[h].adds
        <3> DEFINE row == [state |-> handler[h].state, reason |-> handler[h].reason,
                           updated |-> handler[h].began, seen |-> handler[h].seen]
        <3>1. row \in Row
            BY <1>5, <2>4, CommittedRow
        <3>2. rows' = [rows EXCEPT ![handler[h].req] = Append(@, row)]
            BY <1>5, <2>4 DEF Commit
        <3>3. row.updated < clock /\ Ordered(rows[handler[h].req], row.updated)
            BY <2>1 DEF InOrder
        <3> HIDE DEF row
        <3>4. Ordered(Append(rows[handler[h].req], row), clock)
            BY <1>0, <2>1, <3>1, <3>3, OrderedGrows
        <3>5. ASSUME NEW q \in Requests
              PROVE  Ordered(rows'[q], clock')
            BY <2>1, <3>2, <3>4 DEF IInv, TypeOK, InOrder
        <3> QED
            BY <2>2, <3>5
    <2> QED
        BY <2>3, <2>4
<1> QED
    BY <1>a, <1>1, <1>2, <1>3, <1>4, <1>5, OtherSteps DEF InOrder

\* With one thread the state at the top of a verbose answer is the state of the request.
THEOREM SerialHistoryInOrder ==
    ASSUME OneThread
    PROVE  Spec => []NewestIsCurrent
<1>1. Init => InOrder
    BY DEF Init, InOrder, Ordered
<1>2. InOrder /\ UNCHANGED vars => InOrder'
    BY DEF InOrder, vars
<1>3. IInv /\ InOrder /\ [Next]_vars => InOrder'
    BY OneThread, <1>2, InOrderStep DEF OneThread
<1>4. IInv /\ InOrder => NewestIsCurrent
    <2> SUFFICES ASSUME IInv, InOrder, NEW r \in Requests, Submitted(r)
                 PROVE  Newest(r) = Current(r)
        BY DEF NewestIsCurrent
    <2>1. /\ rows[r] \in Seq(Row) /\ Len(rows[r]) \in 1..Len(rows[r])
          /\ \A i \in 1..Len(rows[r]) : rows[r][i].updated \in Nat
        BY UpdatedTypes DEF IInv, TypeOK, Submitted
    <2>2. \A i \in 1..Len(rows[r]) : i # Len(rows[r]) =>
              rows[r][i].updated < Current(r).updated
        BY <2>1 DEF InOrder, Ordered, Current
    <2> DEFINE all == {rows[r][i] : i \in DOMAIN rows[r]}
               IsNewest(row) == \A i \in DOMAIN rows[r] : rows[r][i].updated <= row.updated
    <2>3. Current(r) \in all /\ IsNewest(Current(r))
        BY <2>1, <2>2 DEF Current
    <2>4. \A row \in all : IsNewest(row) => row = Current(r)
        BY <2>1, <2>2 DEF Current
    <2>5. Newest(r) = CHOOSE row \in all : IsNewest(row)
        BY DEF Newest
    <2> HIDE DEF all, IsNewest
    <2> QED
        BY <2>3, <2>4, <2>5
<1> QED
    BY <1>1, <1>3, <1>4, Invariance, PTL DEF Spec

=============================================================================
