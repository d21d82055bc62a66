------------------------- MODULE NexusStagingProofs -------------------------
(***************************************************************************)
(* Whatever dependencies requests have, however many executions there are  *)
(* and whatever fails: Nexus keeps what was locked under a checksum, and   *)
(* what a finished request needs is in its place.  While nothing fails, no *)
(* request fails.                                                          *)
(*                                                                         *)
(* All rest on a task that was not delivered again while it ran being the  *)
(* only one that writes the files of its request.  Its execution goes      *)
(* through places, and Achieved says what each of them leaves behind for   *)
(* those that come after it.                                               *)
(***************************************************************************)
EXTENDS NexusStaging, WellFoundedInduction, TLAPS

Placed(r, q) == Deps(r)[q[2]]

\* What is done when a request is done with a place.
Achieved(r, q) ==
    LET c == Placed(r, q)
    IN CASE StepAt(r, q) \in {"fetch", "download"} -> file[r][c] = "locked"
         [] StepAt(r, q) = "search" ->
                /\ stored[Shared][c] = "locked"
                /\ Kind[c] \in {"vcs", "url"} => file[r][c] = "locked"
         [] StepAt(r, q) = "push" -> stored[r][c] = "locked"
         [] StepAt(r, q) = "prepare" -> c \in unpacked[r]
         [] OTHER -> TRUE

\* What the steps of a place rely on.
Underway(x) ==
    LET at == StepAt(x.req, x.pos)
        c == Placed(x.req, x.pos)
    IN CASE x.step = "fetch" -> at \in {"fetch", "search"}
         [] x.step = "load" -> at = "search" /\ Kind[c] \in Raw /\ stored[Shared][c] = "locked"
         [] x.step = "upload" -> at = "search" /\ file[x.req][c] = "locked"
         [] x.step = "confirm" ->
                at = "search" /\ Kind[c] \in JsExternal /\ stored[Shared][c] = "locked"
         [] x.step = "look" -> at = "push"
         [] OTHER -> at = x.step

Progress(x) ==
    /\ x.step \in Steps =>
           /\ Underway(x)
           /\ \A q \in Places(x.req) : Before(q, x.pos) => Achieved(x.req, q)
    /\ x.step = "done" => \A q \in Places(x.req) : Achieved(x.req, q)

Working(e) == exec[e] # Idle

\* While no task is delivered again.
Orderly ==
    /\ \A repo \in Repos, c \in Components : stored[repo][c] # "altered"
    /\ \A e \in Executions : Working(e) =>
           /\ Req(e) \notin todo
           /\ \A f \in Executions : Working(f) /\ Req(f) = Req(e) => f = e
           /\ Progress(exec[e])
    /\ \A r \in Requests, c \in Components : file[r][c] = "altered" =>
           /\ r \notin todo
           /\ \A e \in Executions : Working(e) /\ Req(e) = r => exec[e].step = "failed"

StagingIInv ==
    /\ StagingTypeOK
    /\ \A c \in altered : Kind[c] \in Hashed
    /\ \A repo \in Repos : \A c \in indexed[repo] : stored[repo][c] # "absent"
    /\ \A e \in Executions : Runs(e) => exec[e].pos \in Places(Req(e))
    /\ redelivered = {} => Orderly

-----------------------------------------------------------------------------
(* Places *)

\* Passes come in an order, and there is a first of any set of places.
LEMMA FirstOfPlaces ==
    ASSUME NEW T, T \subseteq Nat \X Nat, T # {}
    PROVE  \E x \in T : \A y \in T : ~Before(y, x)
<1> DEFINE R == LexPairOrdering(OpToRel(<, Nat), OpToRel(<, Nat), Nat, Nat)
<1>1. IsWellFoundedOn(R, Nat \X Nat)
    BY NatLessThanWellFounded, WFLexPairOrdering
<1>2. PICK x \in T : \A y \in T : <<y, x>> \notin R
    BY <1>1, WFMin
<1>3. ASSUME NEW y \in T, Before(y, x) PROVE <<y, x>> \in R
    BY <1>3 DEF Before, LexPairOrdering, OpToRel
<1> QED BY <1>2, <1>3

LEMMA PassesTyped ==
    ASSUME NEW manager \in Managers
    PROVE  /\ DOMAIN Passes(manager) \subseteq 1..3
           /\ \A i \in DOMAIN Passes(manager) : Passes(manager)[i] \in PassNames
BY DEF Managers, Passes, PassNames

LEMMA JobTyped ==
    ASSUME StagingTypeOK, NEW r \in Requests
    PROVE  /\ job[r].manager \in Managers
           /\ Deps(r) \in Seq(Components)
           /\ \A i \in DOMAIN Deps(r) : Kind[Deps(r)[i]] \in KindsOf(job[r].manager)
BY JobsAssumption DEF StagingTypeOK, Deps

LEMMA PlaceTyped ==
    ASSUME StagingTypeOK, NEW r \in Requests, NEW q \in Places(r)
    PROVE  /\ q \in Nat \X Nat /\ q[1] \in 1..3 /\ q[2] \in Nat \ {0}
           /\ q[1] \in DOMAIN Passes(job[r].manager) /\ q[2] \in DOMAIN Deps(r)
           /\ q = <<q[1], q[2]>>
           /\ Placed(r, q) \in Components
           /\ Kind[Placed(r, q)] \in KindsOf(job[r].manager)
           /\ StepAt(r, q) # "skip"
<1>1. q \in (DOMAIN Passes(job[r].manager)) \X (DOMAIN Deps(r)) /\ StepAt(r, q) # "skip"
    BY DEF Places
<1>2. q[1] \in 1..3
    BY <1>1, JobTyped, PassesTyped
<1>3. q[2] \in Nat \ {0} /\ Deps(r)[q[2]] \in Components
    BY <1>1, JobTyped
<1> QED BY <1>1, <1>2, <1>3, JobTyped DEF Placed

\* A place of each pass: the kinds it is for, and the earlier place it relies on.
LEMMA PlaceKinds ==
    ASSUME StagingTypeOK, NEW r \in Requests, NEW q \in Places(r)
    PROVE  LET c == Placed(r, q)
               before == <<1, q[2]>>
           IN /\ StepAt(r, q) \in {"fetch", "search", "push", "address", "prepare", "download"}
              /\ StepAt(r, q) = "fetch" => Kind[c] \in Registry
              /\ StepAt(r, q) = "search" => Kind[c] \in Raw \cup JsExternal
              /\ StepAt(r, q) = "prepare" => Kind[c] = "GIT"
              /\ StepAt(r, q) = "download" => Kind[c] # "GIT"
              /\ StepAt(r, q) = "push" =>
                     /\ before \in Places(r) /\ Before(before, q) /\ Placed(r, before) = c
                     /\ \/ StepAt(r, before) = "fetch"
                        \/ (StepAt(r, before) = "search" /\ Kind[c] \in {"vcs", "url"})
              /\ StepAt(r, q) = "download" /\ Kind[c] \in JsExternal =>
                     /\ before \in Places(r) /\ Before(before, q) /\ Placed(r, before) = c
                     /\ StepAt(r, before) = "search"
<1> DEFINE c == Placed(r, q)
           before == <<1, q[2]>>
<1>1. /\ q[1] \in 1..3 /\ q[2] \in DOMAIN Deps(r) /\ q[1] \in DOMAIN Passes(job[r].manager)
      /\ Kind[c] \in KindsOf(job[r].manager) /\ StepAt(r, q) # "skip"
      /\ c = Deps(r)[q[2]]
    BY PlaceTyped DEF Placed
<1>2. StepAt(r, q) = First(Passes(job[r].manager)[q[1]], Kind[c])
    BY <1>1 DEF StepAt
<1>3. 1 \in DOMAIN Passes(job[r].manager)
    BY JobTyped DEF Passes, Managers
<1>4. StepAt(r, before) = First(Passes(job[r].manager)[1], Kind[c]) /\ Placed(r, before) = c
    BY <1>1 DEF StepAt, Placed
<1>5. StepAt(r, before) # "skip" => before \in Places(r)
    BY <1>1, <1>3 DEF Places
<1>6. q[1] > 1 => Before(before, q)
    BY <1>1 DEF Before
<1>7. CASE job[r].manager = "pip"
    <2>1. Passes(job[r].manager) = <<"get", "push", "address">> /\ Kind[c] \in {"pypi", "vcs", "url"}
        BY <1>1, <1>7 DEF Passes, KindsOf
    <2>2. /\ StepAt(r, before) = First("get", Kind[c])
          /\ \/ q[1] = 1 /\ StepAt(r, q) = First("get", Kind[c])
             \/ q[1] = 2 /\ StepAt(r, q) = First("push", Kind[c])
             \/ q[1] = 3 /\ StepAt(r, q) = First("address", Kind[c])
        BY <1>1, <1>2, <1>4, <2>1
    <2> HIDE DEF c, before
    <2>3. /\ First("get", Kind[c]) = IF Kind[c] = "pypi" THEN "fetch" ELSE "search"
          /\ First("push", Kind[c]) = "push"
          /\ First("address", Kind[c]) \in {"address", "skip"}
        BY <2>1 DEF First, Registry, Raw, JsExternal
    <2>4. StepAt(r, q) \in {"fetch", "search", "push", "address"}
        BY <1>1, <2>2, <2>3 DEF c
    <2>5. StepAt(r, q) = "fetch" => Kind[c] \in Registry
        BY <2>2, <2>3 DEF Registry
    <2>6. StepAt(r, q) = "search" => Kind[c] \in Raw
        BY <2>1, <2>2, <2>3 DEF Raw
    <2>7. StepAt(r, q) = "push" =>
              /\ before \in Places(r) /\ Before(before, q) /\ Placed(r, before) = c
              /\ \/ StepAt(r, before) = "fetch"
                 \/ StepAt(r, before) = "search" /\ Kind[c] \in {"vcs", "url"}
        BY <1>4, <1>5, <1>6, <2>1, <2>2, <2>3
    <2> QED BY <2>4, <2>5, <2>6, <2>7 DEF c, before
<1>8. CASE job[r].manager = "rubygems"
    <2>1. Passes(job[r].manager) = <<"get", "push", "prepare">> /\ Kind[c] \in {"GEM", "GIT"}
        BY <1>1, <1>8 DEF Passes, KindsOf
    <2>2. /\ StepAt(r, before) = First("get", Kind[c])
          /\ \/ q[1] = 1 /\ StepAt(r, q) = First("get", Kind[c])
             \/ q[1] = 2 /\ StepAt(r, q) = First("push", Kind[c])
             \/ q[1] = 3 /\ StepAt(r, q) = First("prepare", Kind[c])
        BY <1>1, <1>2, <1>4, <2>1
    <2> HIDE DEF c, before
    <2>3. /\ First("get", Kind[c]) = IF Kind[c] = "GEM" THEN "fetch" ELSE "search"
          /\ First("push", Kind[c]) = IF Kind[c] = "GEM" THEN "push" ELSE "skip"
          /\ First("prepare", Kind[c]) = IF Kind[c] = "GIT" THEN "prepare" ELSE "skip"
        BY <2>1 DEF First, Registry, Raw, JsExternal
    <2>4. StepAt(r, q) \in {"fetch", "search", "push", "prepare"}
        BY <1>1, <2>2, <2>3 DEF c
    <2>5. StepAt(r, q) = "fetch" => Kind[c] \in Registry
        BY <2>2, <2>3 DEF Registry
    <2>6. StepAt(r, q) \in {"search", "prepare"} => Kind[c] = "GIT" /\ Kind[c] \in Raw
        BY <2>1, <2>2, <2>3 DEF Raw
    <2>7. StepAt(r, q) = "push" =>
              /\ before \in Places(r) /\ Before(before, q) /\ Placed(r, before) = c
              /\ StepAt(r, before) = "fetch"
        BY <1>4, <1>5, <1>6, <2>1, <2>2, <2>3
    <2> QED BY <2>4, <2>5, <2>6, <2>7 DEF c, before
<1>9. CASE job[r].manager = "js"
    <2>1. /\ Passes(job[r].manager) = <<"host", "download">>
          /\ Kind[c] \in {"js_registry", "js_git", "js_url"}
        BY <1>1, <1>9 DEF Passes, KindsOf, JsExternal
    <2>2. /\ StepAt(r, before) = First("host", Kind[c])
          /\ \/ q[1] = 1 /\ StepAt(r, q) = First("host", Kind[c])
             \/ q[1] = 2 /\ StepAt(r, q) = First("download", Kind[c])
        BY <1>1, <1>2, <1>4, <2>1
    <2> HIDE DEF c, before
    <2>3. /\ First("host", Kind[c]) = IF Kind[c] \in JsExternal THEN "search" ELSE "skip"
          /\ First("download", Kind[c]) = "download"
        BY <2>1 DEF First, Registry, Raw, JsExternal
    <2>4. StepAt(r, q) \in {"search", "download"}
        BY <1>1, <2>2, <2>3 DEF c
    <2>5. StepAt(r, q) = "search" => Kind[c] \in JsExternal
        BY <2>2, <2>3
    <2>6. StepAt(r, q) = "download" /\ Kind[c] \in JsExternal =>
              /\ before \in Places(r) /\ Before(before, q) /\ Placed(r, before) = c
              /\ StepAt(r, before) = "search"
        BY <1>4, <1>5, <1>6, <2>2, <2>3
    <2> QED BY <2>1, <2>4, <2>5, <2>6 DEF c, before
<1> QED BY <1>7, <1>8, <1>9, JobTyped DEF Managers

\* What is pushed was got before, and what the npm proxy serves was hosted before.
LEMMA ReliesOn ==
    ASSUME StagingTypeOK, NEW r \in Requests, NEW p \in Places(r), NEW c, c = Placed(r, p)
    PROVE  /\ StepAt(r, p) = "prepare" => Kind[c] = "GIT"
           /\ StepAt(r, p) = "push" => \E before \in Places(r) :
                  /\ Before(before, p) /\ Placed(r, before) = c
                  /\ \/ StepAt(r, before) = "fetch"
                     \/ (StepAt(r, before) = "search" /\ Kind[c] \in {"vcs", "url"})
           /\ StepAt(r, p) = "download" /\ Kind[c] \in JsExternal => \E before \in Places(r) :
                  Before(before, p) /\ Placed(r, before) = c /\ StepAt(r, before) = "search"
<1> DEFINE before == <<1, p[2]>>
<1>1. /\ StepAt(r, p) = "prepare" => Kind[c] = "GIT"
      /\ StepAt(r, p) = "push" =>
             /\ before \in Places(r) /\ Before(before, p) /\ Placed(r, before) = c
             /\ \/ StepAt(r, before) = "fetch"
                \/ (StepAt(r, before) = "search" /\ Kind[c] \in {"vcs", "url"})
      /\ StepAt(r, p) = "download" /\ Kind[c] \in JsExternal =>
             /\ before \in Places(r) /\ Before(before, p) /\ Placed(r, before) = c
             /\ StepAt(r, before) = "search"
    BY PlaceKinds
<1> HIDE DEF before
<1> QED BY <1>1

\* An execution that is done with place p goes to the next one, and leaves none out.
LEMMA AfterPlace ==
    ASSUME StagingTypeOK, NEW e \in Executions, NEW r \in Requests, NEW p \in Nat \X Nat,
           After(e, r, p)
    PROVE  \E x \in Execution :
               /\ exec' = [exec EXCEPT ![e] = x] /\ x.req = r
               /\ x.step \in Steps \cup {"done"}
               /\ x.step \in Steps => /\ x.pos \in Places(r) /\ x.step = StepAt(r, x.pos)
                                      /\ x.step \in {"fetch", "search", "push", "address",
                                                     "prepare", "download"}
                                      /\ \A q \in Places(r) : Before(q, x.pos) =>
                                             q = p \/ Before(q, p)
               /\ x.step = "done" => \A q \in Places(r) : q = p \/ Before(q, p)
<1> DEFINE Later == {q \in Places(r) : Before(p, q)}
<1>1. \A q \in Places(r) : q \in Nat \X Nat /\ (q = p \/ Before(q, p) \/ Before(p, q))
    <2>1. ASSUME NEW q \in Places(r) PROVE q \in Nat \X Nat
        BY PlaceTyped
    <2>2. \A q \in Nat \X Nat : q = p \/ Before(q, p) \/ Before(p, q)
        BY DEF Before
    <2> QED BY <2>1, <2>2
<1>2. CASE NextPlaces(r, p) = {}
    <2> DEFINE x == [req |-> r, pos |-> p, step |-> "done", tries |-> 0]
    <2>1. Later = {}
        <3> SUFFICES ASSUME Later # {} PROVE FALSE
            OBVIOUS
        <3>1. PICK q \in Later : \A y \in Later : ~Before(y, q)
            BY <1>1, FirstOfPlaces
        <3>2. q \in NextPlaces(r, p)
            BY <3>1 DEF NextPlaces
        <3> QED BY <1>2, <3>2
    <2>2. x \in Execution /\ x.req = r /\ x.step = "done" /\ x.step \notin Steps
        BY DEF Execution, Steps
    <2>3. exec' = [exec EXCEPT ![e] = x]
        BY <1>2 DEF After
    <2>4. \A q \in Places(r) : q = p \/ Before(q, p)
        BY <1>1, <2>1
    <2> QED BY <2>2, <2>3, <2>4
<1>3. CASE NextPlaces(r, p) # {}
    <2>1. PICK q \in NextPlaces(r, p) :
              exec' = [exec EXCEPT ![e] =
                           [req |-> r, pos |-> q, step |-> StepAt(r, q), tries |-> 0]]
        BY <1>3 DEF After
    <2> DEFINE x == [req |-> r, pos |-> q, step |-> StepAt(r, q), tries |-> 0]
    <2>2. q \in Places(r) /\ q \in Nat \X Nat /\ \A y \in Places(r) : ~(Before(p, y) /\ Before(y, q))
        BY <1>1, <2>1 DEF NextPlaces
    <2>3. StepAt(r, q) \in {"fetch", "search", "push", "address", "prepare", "download"}
        BY <2>2, PlaceKinds
    <2>4. x \in Execution /\ x.step \in Steps /\ x.step # "done"
        BY <2>2, <2>3 DEF Execution, Steps
    <2>5. \A y \in Places(r) : Before(y, q) => y = p \/ Before(y, p)
        BY <1>1, <2>2
    <2> QED BY <2>1, <2>2, <2>3, <2>4, <2>5
<1> QED BY <1>2, <1>3

-----------------------------------------------------------------------------
(* What every step of an execution leaves as it is *)

\* A step of execution e: it writes only for its request, and nothing in Nexus is overwritten.
Writes(e) ==
    /\ UNCHANGED <<job, todo, altered, redelivered, indexed>>
    /\ missed' \in BOOLEAN /\ faults' \in 0..MaxFaults
    /\ stored' \in [Repos -> [Components -> Contents]]
    /\ file' \in [Requests -> [Components -> Contents]]
    /\ unpacked' \in [Requests -> SUBSET Components]
    /\ \A repo \in Repos, c \in Components :
           stored[repo][c] # "absent" => stored'[repo][c] = stored[repo][c]
    /\ \A r \in Requests : unpacked[r] \subseteq unpacked'[r]
    /\ \A r \in Requests \ {Req(e)} : file'[r] = file[r]
    /\ redelivered = {} =>
           \A repo \in Repos, c \in Components : stored'[repo][c] # "altered"

\* What it writes for its request was locked; only Git dependencies go, once unpacked.
Untainted(e) ==
    redelivered = {} => \A c \in Components :
        \/ file'[Req(e)][c] \in {file[Req(e)][c], "locked"}
        \/ Kind[c] = "GIT" /\ file'[Req(e)][c] = "absent"

LEMMA SamePlaces ==
    ASSUME job' = job, NEW r
    PROVE  /\ Places(r)' = Places(r) /\ Deps(r)' = Deps(r)
           /\ \A q : StepAt(r, q)' = StepAt(r, q) /\ Placed(r, q)' = Placed(r, q)
BY DEF Places, StepAt, Placed, Deps

\* What was achieved lasts while files are only replaced by what was locked.
LEMMA AchievedLasts ==
    ASSUME StagingTypeOK, job' = job, NEW r \in Requests, NEW q \in Places(r), Achieved(r, q),
           \A repo \in Repos, c \in Components :
               stored[repo][c] # "absent" => stored'[repo][c] = stored[repo][c],
           unpacked[r] \subseteq unpacked'[r],
           \A c \in Components : file'[r][c] \in {file[r][c], "locked"} \/ Kind[c] = "GIT"
    PROVE  Achieved(r, q)'
<1>1. /\ StepAt(r, q)' = StepAt(r, q) /\ Placed(r, q)' = Placed(r, q)
      /\ Placed(r, q) \in Components /\ r \in Repos /\ Shared \in Repos
    BY SamePlaces, PlaceTyped DEF Repos
<1>2. CASE StepAt(r, q) \in {"fetch", "download"}
    <2>1. Kind[Placed(r, q)] # "GIT"
        BY <1>2, PlaceKinds DEF Registry
    <2> QED BY <1>1, <1>2, <2>1 DEF Achieved
<1>3. CASE StepAt(r, q) \in {"search", "push", "prepare"}
    BY <1>1, <1>3 DEF Achieved
<1>4. CASE StepAt(r, q) \notin {"fetch", "download", "search", "push", "prepare"}
    BY <1>1, <1>4 DEF Achieved
<1> QED BY <1>2, <1>3, <1>4

LEMMA RunTyped ==
    ASSUME StagingIInv, NEW e \in Executions, Runs(e)
    PROVE  /\ exec[e] \in Execution /\ Working(e) /\ Req(e) \in Requests /\ Req(e) \in Repos
           /\ exec[e].pos \in Places(Req(e)) /\ exec[e].pos \in Nat \X Nat
           /\ Comp(e) = Placed(Req(e), exec[e].pos) /\ Comp(e) \in Components
           /\ redelivered = {} => /\ Underway(exec[e])
                                  /\ \A c \in Components : file[Req(e)][c] # "altered"
<1>1. exec[e] \in Execution /\ Working(e) /\ Req(e) \in Requests /\ exec[e].pos \in Places(Req(e))
    BY DEF StagingIInv, StagingTypeOK, Runs, Execution, Req, Working
<1>2. Comp(e) = Placed(Req(e), exec[e].pos) /\ Comp(e) \in Components
    BY <1>1, PlaceTyped DEF Comp, Placed, StagingIInv
<1>3. redelivered = {} => Underway(exec[e])
    BY <1>1 DEF StagingIInv, Orderly, Progress, Runs
<1>4. redelivered = {} => \A c \in Components : file[Req(e)][c] # "altered"
    BY <1>1 DEF StagingIInv, Orderly, Runs, Steps
<1> QED BY <1>1, <1>2, <1>3, <1>4, PlaceTyped DEF StagingIInv, Repos

\* The executions of other requests keep their progress.
LEMMA OthersProgress ==
    ASSUME StagingIInv, redelivered = {}, NEW e \in Executions, Runs(e), Writes(e),
           NEW f \in Executions \ {e}, Working(f), exec'[f] = exec[f]
    PROVE  Progress(exec[f])'
<1> DEFINE x == exec[f]
<1>1. /\ Orderly /\ StagingTypeOK /\ job' = job
      /\ x \in Execution /\ x.req \in Requests /\ Req(f) = x.req /\ Progress(x)
    BY DEF StagingIInv, Orderly, StagingTypeOK, Working, Execution, Req, Writes
<1>2. x.req # Req(e)
    BY <1>1, RunTyped DEF Orderly
<1>3. file'[x.req] = file[x.req] /\ unpacked[x.req] \subseteq unpacked'[x.req]
    BY <1>1, <1>2 DEF Writes
<1>4. \A q \in Places(x.req) : Achieved(x.req, q) => Achieved(x.req, q)'
    BY <1>1, <1>3, AchievedLasts DEF Writes
<1>5. x.step \in Steps => x.pos \in Places(x.req) /\ Placed(x.req, x.pos) \in Components
    BY <1>1, PlaceTyped DEF StagingIInv, Runs, Working
<1>6. /\ Places(x.req)' = Places(x.req) /\ StepAt(x.req, x.pos)' = StepAt(x.req, x.pos)
      /\ Placed(x.req, x.pos)' = Placed(x.req, x.pos)
    BY <1>1, SamePlaces
<1>7. x.step \in Steps => (Underway(x) => Underway(x)')
    <2> SUFFICES ASSUME x.step \in Steps, Underway(x) PROVE Underway(x)'
        OBVIOUS
    <2>1. stored[Shared][Placed(x.req, x.pos)] = "locked" =>
              stored'[Shared][Placed(x.req, x.pos)] = "locked"
        BY <1>5 DEF Writes, Repos
    <2> QED BY <1>3, <1>5, <1>6, <2>1 DEF Underway
<1> QED BY <1>1, <1>4, <1>6, <1>7 DEF Progress

\* An execution moves to x; what else it does is in Writes.
LEMMA Moves ==
    ASSUME StagingIInv, NEW e \in Executions, Runs(e), Writes(e), NEW x \in Execution,
           exec' = [exec EXCEPT ![e] = x], x.req = Req(e),
           x.step \in Steps => x.pos \in Places(x.req),
           redelivered = {} =>
               /\ x.step # "failed" => \A c \in Components : file'[x.req][c] # "altered"
               /\ Progress(x)'
    PROVE  StagingIInv'
<1>1. /\ exec'[e] = x /\ \A f \in Executions \ {e} : exec'[f] = exec[f]
      /\ x # Idle
    BY IdleAssumption DEF StagingIInv, StagingTypeOK, Execution
<1>2. StagingTypeOK'
    BY DEF StagingIInv, StagingTypeOK, Writes
<1>3. (\A c \in altered : Kind[c] \in Hashed)'
    BY DEF StagingIInv, Writes
<1>4. (\A repo \in Repos : \A c \in indexed[repo] : stored[repo][c] # "absent")'
    BY DEF StagingIInv, StagingTypeOK, Writes
<1>5. (\A f \in Executions : Runs(f) => exec[f].pos \in Places(Req(f)))'
    <2>1. \A f \in Executions : Req(f)' = Req(f) /\ (Runs(f)' /\ f # e => Runs(f))
        BY <1>1 DEF Req, Runs
    <2>2. \A f \in Executions : Places(Req(f))' = Places(Req(f))
        BY <2>1, SamePlaces DEF Writes, Places, StepAt, Deps
    <2> QED BY <1>1, <2>1, <2>2 DEF StagingIInv, Runs, Req
<1>6. ASSUME redelivered' = {} PROVE Orderly'
    <2>1. redelivered = {} /\ Orderly /\ Working(e) /\ Req(e) \in Requests
        BY <1>6, RunTyped DEF StagingIInv, Writes
    <2>2. \A f \in Executions : Req(f)' = Req(f) /\ (Working(f)' <=> Working(f))
        BY <1>1, <2>1 DEF Req, Working
    <2>3. ASSUME NEW f \in Executions, Working(f)' PROVE Progress(exec[f])'
        <3>1. CASE f = e
            BY <1>1, <2>1, <3>1
        <3>2. CASE f # e
            BY <1>1, <2>1, <2>2, <2>3, <3>2, OthersProgress
        <3> QED BY <3>1, <3>2
    <2>4. ASSUME NEW r \in Requests, NEW c \in Components, file'[r][c] = "altered"
          PROVE  /\ r \notin todo'
                 /\ \A f \in Executions : Working(f)' /\ Req(f)' = r => exec'[f].step = "failed"
        <3>1. CASE r = Req(e)
            <4>1. x.step = "failed"
                BY <2>1, <2>4, <3>1
            <4>2. \A f \in Executions : Working(f) /\ Req(f) = r => f = e
                BY <2>1, <3>1 DEF Orderly
            <4> QED BY <1>1, <2>1, <2>2, <3>1, <4>1, <4>2 DEF Orderly, Writes
        <3>2. CASE r # Req(e)
            BY <1>1, <2>1, <2>2, <2>4, <3>2 DEF Orderly, Writes
        <3> QED BY <3>1, <3>2
    <2> QED BY <2>1, <2>2, <2>3, <2>4 DEF Orderly, Writes
<1> QED BY <1>2, <1>3, <1>4, <1>5, <1>6 DEF StagingIInv

\* What was achieved before the place of e still is.
LEMMA EarlierLasts ==
    ASSUME StagingIInv, redelivered = {}, NEW e \in Executions, Runs(e), Writes(e), Untainted(e),
           NEW r, r = Req(e), NEW p, p = exec[e].pos
    PROVE  /\ \A q \in Places(r) : Before(q, p) => Achieved(r, q)'
           /\ \A c \in Components : file'[r][c] # "altered"
<1>1. /\ StagingTypeOK /\ r \in Requests /\ exec[e].req = r
      /\ \A c \in Components : file[r][c] # "altered"
    BY RunTyped DEF StagingIInv, Req
<1>2. \A q \in Places(r) : Before(q, p) => Achieved(r, q)
    BY <1>1 DEF StagingIInv, Orderly, Progress, Runs, Working
<1>3. \A c \in Components : file'[r][c] \in {file[r][c], "locked"} \/ Kind[c] = "GIT"
    BY DEF Untainted
<1>4. ASSUME NEW q \in Places(r), Achieved(r, q) PROVE Achieved(r, q)'
    BY <1>1, <1>3, <1>4, AchievedLasts DEF Writes
<1>5. \A c \in Components : file'[r][c] # "altered"
    BY <1>1 DEF Untainted
<1> QED BY <1>2, <1>4, <1>5

LEMMA Advancing ==
    ASSUME StagingIInv, NEW e \in Executions, Runs(e), Advance(e), Writes(e), Untainted(e),
           NEW r, r = Req(e), NEW p, p = exec[e].pos,
           redelivered = {} => Achieved(r, p)'
    PROVE  StagingIInv'
<1>1. StagingTypeOK /\ r \in Requests /\ p \in Nat \X Nat /\ After(e, r, p)
    BY RunTyped DEF StagingIInv, Advance
<1>2. PICK x \in Execution :
          /\ exec' = [exec EXCEPT ![e] = x] /\ x.req = r
          /\ x.step \in Steps \cup {"done"}
          /\ x.step \in Steps => /\ x.pos \in Places(r) /\ x.step = StepAt(r, x.pos)
                                 /\ x.step \in {"fetch", "search", "push", "address",
                                                "prepare", "download"}
                                 /\ \A q \in Places(r) : Before(q, x.pos) => q = p \/ Before(q, p)
          /\ x.step = "done" => \A q \in Places(r) : q = p \/ Before(q, p)
    BY <1>1, AfterPlace
<1>3. ASSUME redelivered = {} PROVE Progress(x)'
    <2>1. \A q \in Places(r) : q = p \/ Before(q, p) => Achieved(r, q)'
        BY <1>3, EarlierLasts
    <2>2. Places(r)' = Places(r) /\ StepAt(r, x.pos)' = StepAt(r, x.pos)
        BY SamePlaces DEF Writes
    <2>3. x.step \in Steps => Underway(x)'
        BY <1>2, <2>2 DEF Underway
    <2>4. x.step # "done" \/ x.step \notin Steps
        BY DEF Steps
    <2> QED BY <1>2, <2>1, <2>2, <2>3, <2>4 DEF Progress
<1>4. redelivered = {} => \A c \in Components : file'[x.req][c] # "altered"
    BY <1>2, EarlierLasts
<1> QED BY <1>2, <1>3, <1>4, Moves

\* To another step at the same place, or another try of the same step.
LEMMA Staying ==
    ASSUME StagingIInv, NEW e \in Executions, Runs(e), NEW step \in Steps, NEW tries \in Nat,
           NEW x, x = [exec[e] EXCEPT !.step = step, !.tries = tries],
           exec' = [exec EXCEPT ![e] = x],
           Writes(e), Untainted(e),
           redelivered = {} => Underway(x)'
    PROVE  StagingIInv'
<1>1. /\ x \in Execution /\ x.req = Req(e) /\ x.step = step /\ x.pos = exec[e].pos
      /\ x.step \in Steps /\ x.pos \in Places(x.req) /\ x.step \notin {"done", "failed"}
    BY RunTyped DEF Execution, Req, Steps
<1>2. ASSUME redelivered = {} PROVE Progress(x)'
    <2>1. \A q \in Places(x.req) : Before(q, x.pos) => Achieved(x.req, q)'
        BY <1>1, <1>2, EarlierLasts
    <2>2. Places(x.req)' = Places(x.req)
        BY SamePlaces DEF Writes
    <2> QED BY <1>1, <1>2, <2>1, <2>2 DEF Progress
<1>3. redelivered = {} => \A c \in Components : file'[x.req][c] # "altered"
    BY <1>1, EarlierLasts
<1> QED BY <1>1, <1>2, <1>3, Moves

\* A failed execution leaves its request to nobody.
LEMMA Failing ==
    ASSUME StagingIInv, NEW e \in Executions, Runs(e), Fail(e), Writes(e)
    PROVE  StagingIInv'
<1>1. PICK x : x = [exec[e] EXCEPT !.step = "failed", !.tries = 0]
    OBVIOUS
<1>2. x \in Execution /\ x.req = Req(e) /\ x.step = "failed"
    BY <1>1, RunTyped DEF Execution, Req
<1>3. exec' = [exec EXCEPT ![e] = x]
    BY <1>1, RunTyped DEF Fail, Goto, StagingIInv, StagingTypeOK
<1>4. Progress(x)' /\ x.step \notin Steps
    BY <1>2 DEF Progress, Steps
<1> QED BY <1>2, <1>3, <1>4, Moves

LEMMA Going ==
    ASSUME StagingIInv, NEW e \in Executions, Runs(e), NEW step \in Steps, Goto(e, step),
           Writes(e), Untainted(e), NEW r, r = Req(e), NEW p, p = exec[e].pos,
           redelivered = {} => Underway([req |-> r, pos |-> p, step |-> step])'
    PROVE  StagingIInv'
<1>1. PICK x : x = [exec[e] EXCEPT !.step = step, !.tries = 0]
    OBVIOUS
<1>2. exec' = [exec EXCEPT ![e] = x]
    BY <1>1, RunTyped DEF Goto, StagingIInv, StagingTypeOK
<1>3. x.req = r /\ x.pos = p /\ x.step = step
    BY <1>1, RunTyped DEF Execution, Req
<1>4. redelivered = {} => Underway(x)'
    BY <1>3 DEF Underway
<1> QED BY <1>1, <1>2, <1>4, Staying

\* A step that only looks.
LEMMA Looking ==
    ASSUME StagingIInv, NEW e \in Executions,
           UNCHANGED <<nexusVars, altered, job, todo, dirVars, redelivered>>,
           missed' \in BOOLEAN, faults' \in 0..MaxFaults
    PROVE  Writes(e) /\ Untainted(e)
<1>1. UNCHANGED <<stored, indexed, file, unpacked>>
    BY DEF nexusVars, dirVars
<1> QED BY <1>1 DEF Writes, Untainted, StagingIInv, StagingTypeOK, Orderly

LEMMA Retrying ==
    ASSUME StagingIInv, NEW e \in Executions, Runs(e), exec' = [exec EXCEPT ![e].tries = @ + 1],
           UNCHANGED <<nexusVars, altered, job, todo, dirVars, redelivered, faults>>,
           missed' \in BOOLEAN
    PROVE  StagingIInv'
<1>1. PICK x : x = [exec[e] EXCEPT !.step = exec[e].step, !.tries = exec[e].tries + 1]
    OBVIOUS
<1>2. exec[e] \in Execution /\ exec[e].step \in Steps /\ exec[e].tries + 1 \in Nat
    BY RunTyped DEF Runs, Execution
<1>3. exec' = [exec EXCEPT ![e] = x]
    BY <1>1, <1>2 DEF StagingIInv, StagingTypeOK, Execution
<1>4. Writes(e) /\ Untainted(e)
    BY Looking DEF StagingIInv, StagingTypeOK
<1>5. ASSUME redelivered = {} PROVE Underway(x)'
    <2>1. Underway(exec[e])
        BY <1>5, RunTyped
    <2>2. x.req = exec[e].req /\ x.pos = exec[e].pos /\ x.step = exec[e].step
        BY <1>1, <1>2 DEF Execution
    <2>3. UNCHANGED <<stored, file, job>>
        BY DEF nexusVars, dirVars
    <2> QED BY <2>1, <2>2, <2>3, SamePlaces DEF Underway
<1> QED BY <1>1, <1>2, <1>3, <1>4, <1>5, Staying

\* What an execution works on, and that it stays the same.
LEMMA WorkedOn ==
    ASSUME StagingIInv, NEW e \in Executions, Runs(e), job' = job,
           NEW r, r = Req(e), NEW p, p = exec[e].pos, NEW c, c = Comp(e)
    PROVE  /\ r \in Requests /\ r \in Repos /\ Shared \in Repos /\ p \in Places(r)
           /\ c \in Components /\ c = Placed(r, p)
           /\ StepAt(r, p)' = StepAt(r, p) /\ Placed(r, p)' = c
           /\ redelivered = {} =>
                  /\ Underway(exec[e]) /\ exec[e].req = r /\ exec[e].pos = p
                  /\ \A repo \in Repos : stored[repo][c] # "absent" => stored[repo][c] = "locked"
                  /\ \A q \in Places(r) : Before(q, p) => Achieved(r, q)
           /\ \A repo \in Repos : c \in indexed[repo] => stored[repo][c] # "absent"
<1>1. StagingTypeOK /\ \A repo \in Repos : stored[repo] \in [Components -> Contents]
    BY DEF StagingIInv, StagingTypeOK
<1>2. r \in Requests /\ p \in Places(r) /\ c \in Components /\ c = Placed(r, p)
    BY RunTyped
<1>3. redelivered = {} =>
          /\ Underway(exec[e]) /\ exec[e].req = r /\ exec[e].pos = p
          /\ \A q \in Places(r) : Before(q, p) => Achieved(r, q)
    BY RunTyped DEF StagingIInv, Orderly, Progress, Runs, Working, Req
<1>4. redelivered = {} =>
          \A repo \in Repos : stored[repo][c] # "absent" => stored[repo][c] = "locked"
    BY <1>1, <1>2 DEF StagingIInv, Orderly, Contents
<1>5. \A repo \in Repos : c \in indexed[repo] => stored[repo][c] # "absent"
    BY DEF StagingIInv
<1> QED BY <1>2, <1>3, <1>4, <1>5, SamePlaces DEF Repos

-----------------------------------------------------------------------------
(* Searches *)

LEMMA SearchKeeps ==
    ASSUME StagingIInv, NEW e \in Executions, Search(e)
    PROVE  StagingIInv'
<1>1. PICK r, p, c : r = Req(e) /\ p = exec[e].pos /\ c = Comp(e)
    OBVIOUS
<1>2. Runs(e) /\ exec[e].step = "search" /\ job' = job
    BY DEF Search, At, Runs, Steps
<1>3. missed' \in BOOLEAN
    BY DEF Search, Attempt, Missed, StagingIInv, StagingTypeOK
<1>4. Writes(e) /\ Untainted(e) /\ UNCHANGED <<stored, file>>
    BY <1>3, Looking DEF Search, StagingIInv, StagingTypeOK, nexusVars, dirVars
<1>5. redelivered = {} => StepAt(r, p) = "search"
    BY <1>1, <1>2, WorkedOn DEF Underway
<1>6. CASE c \in indexed[Shared] /\ Kind[c] \in JsExternal
    <2>1. Advance(e)
        BY <1>1, <1>6 DEF Search, Attempt
    <2>2. redelivered = {} => Achieved(r, p)'
        BY <1>1, <1>2, <1>4, <1>5, <1>6, WorkedOn DEF Achieved, JsExternal
    <2> QED BY <1>1, <1>2, <1>4, <2>1, <2>2, Advancing
<1>7. CASE c \in indexed[Shared] /\ Kind[c] \notin JsExternal
    <2>1. Goto(e, "load") /\ "load" \in Steps
        BY <1>1, <1>7 DEF Search, Attempt, Steps
    <2>2. redelivered = {} => Kind[c] \in Raw
        <3>1. StagingTypeOK /\ r \in Requests /\ p \in Places(r) /\ c = Placed(r, p)
            BY <1>1, <1>2, WorkedOn DEF StagingIInv
        <3> QED BY <1>5, <1>7, <3>1, PlaceKinds
    <2>3. redelivered = {} => Underway([req |-> r, pos |-> p, step |-> "load"])'
        BY <1>1, <1>2, <1>4, <1>5, <1>7, <2>2, WorkedOn DEF Underway
    <2> QED BY <1>1, <1>2, <1>4, <2>1, <2>3, Going
<1>8. CASE c \notin indexed[Shared]
    <2>1. CASE Goto(e, "fetch")
        <3>1. redelivered = {} => Underway([req |-> r, pos |-> p, step |-> "fetch"])'
            BY <1>1, <1>2, <1>5, WorkedOn DEF Underway
        <3>2. "fetch" \in Steps
            BY DEF Steps
        <3> QED BY <1>1, <1>2, <1>4, <2>1, <3>1, <3>2, Going
    <2>2. CASE exec' = [exec EXCEPT ![e].tries = @ + 1]
        BY <1>2, <1>3, <2>2, Retrying DEF Search
    <2> QED BY <1>1, <1>8, <2>1, <2>2 DEF Search, Attempt
<1> QED BY <1>6, <1>7, <1>8

\* The other searches go on when they have found the component, and fail otherwise.
LEMMA AttemptKeeps ==
    ASSUME StagingIInv, NEW e \in Executions, Runs(e),
           UNCHANGED <<nexusVars, altered, job, todo, dirVars, redelivered, faults>>,
           missed' \in BOOLEAN, NEW found \in BOOLEAN,
           Fail(e) \/ exec' = [exec EXCEPT ![e].tries = @ + 1] \/ (found /\ Advance(e)),
           NEW r, r = Req(e), NEW p, p = exec[e].pos,
           redelivered = {} /\ found => Achieved(r, p)'
    PROVE  StagingIInv'
<1>2. Writes(e) /\ Untainted(e)
    BY Looking DEF StagingIInv, StagingTypeOK
<1>3. CASE Fail(e)
    BY <1>2, <1>3, Failing
<1>4. CASE exec' = [exec EXCEPT ![e].tries = @ + 1]
    BY <1>4, Retrying
<1>5. CASE found /\ Advance(e)
    BY <1>2, <1>5, Advancing
<1> QED BY <1>3, <1>4, <1>5

LEMMA OtherSearchesKeep ==
    ASSUME StagingIInv, NEW e \in Executions, Confirm(e) \/ Look(e) \/ Address(e)
    PROVE  StagingIInv'
<1>1. PICK r, p, c : r = Req(e) /\ p = exec[e].pos /\ c = Comp(e)
    OBVIOUS
<1>2. /\ Runs(e) /\ UNCHANGED <<nexusVars, altered, job, todo, dirVars, redelivered, faults>>
      /\ UNCHANGED <<stored, file, job>>
    BY DEF Confirm, Look, Address, At, Runs, Steps, nexusVars, dirVars
<1>3. missed' \in BOOLEAN
    BY DEF Confirm, Look, Address, Attempt, Missed, StagingIInv, StagingTypeOK
<1>4. CASE Confirm(e)
    <2>1. redelivered = {} => Achieved(r, p)'
        BY <1>1, <1>2, <1>4, WorkedOn DEF Confirm, At, Underway, Achieved, JsExternal
    <2>2. Fail(e) \/ exec' = [exec EXCEPT ![e].tries = @ + 1] \/ Advance(e)
        BY <1>4 DEF Confirm, Attempt
    <2> QED BY <1>1, <1>2, <1>3, <2>1, <2>2, AttemptKeeps
<1>5. CASE Look(e)
    <2>1. redelivered = {} /\ c \in indexed[r] => Achieved(r, p)'
        BY <1>1, <1>2, <1>5, WorkedOn DEF Look, At, Underway, Achieved
    <2>2. Fail(e) \/ exec' = [exec EXCEPT ![e].tries = @ + 1] \/ (c \in indexed[r] /\ Advance(e))
        BY <1>1, <1>5 DEF Look, Attempt
    <2>3. (c \in indexed[r]) \in BOOLEAN
        OBVIOUS
    <2> QED BY <1>1, <1>2, <1>3, <2>1, <2>2, <2>3, AttemptKeeps
<1>6. CASE Address(e)
    <2>1. redelivered = {} => Achieved(r, p)'
        BY <1>1, <1>2, <1>6, WorkedOn DEF Address, At, Underway, Achieved
    <2>2. Fail(e) \/ exec' = [exec EXCEPT ![e].tries = @ + 1] \/ Advance(e)
        BY <1>6 DEF Address, Attempt
    <2> QED BY <1>1, <1>2, <1>3, <2>1, <2>2, AttemptKeeps
<1> QED BY <1>4, <1>5, <1>6

-----------------------------------------------------------------------------
(* Downloads and uploads *)

LEMMA FileWrites ==
    ASSUME StagingIInv, NEW e \in Executions, Runs(e), NEW content \in Contents,
           NEW r, r = Req(e), NEW c, c = Comp(e),
           file' = [file EXCEPT ![r][c] = content],
           UNCHANGED <<nexusVars, altered, job, todo, unpacked, redelivered, missed, faults>>
    PROVE  /\ Writes(e) /\ file'[r][c] = content
           /\ content = "locked" \/ (content = "absent" /\ Kind[c] = "GIT") => Untainted(e)
<1>1. r \in Requests /\ c \in Components
    BY RunTyped
<1>2. file \in [Requests -> [Components -> Contents]]
    BY DEF StagingIInv, StagingTypeOK
<1>3. file' \in [Requests -> [Components -> Contents]] /\ file'[r][c] = content
      /\ \A q \in Requests \ {r} : file'[q] = file[q]
      /\ \A d \in Components \ {c} : file'[r][d] = file[r][d]
    BY <1>1, <1>2
<1>4. UNCHANGED <<stored, indexed>>
    BY DEF nexusVars
<1>5. Writes(e)
    BY <1>3, <1>4 DEF Writes, StagingIInv, StagingTypeOK, Orderly
<1> QED BY <1>3, <1>4, <1>5 DEF Untainted

LEMMA WriteKeeps ==
    ASSUME StagingIInv, NEW e \in Executions, Runs(e), exec[e].step \in {"fetch", "load"},
           NEW content \in Contents, Write(e, content),
           UNCHANGED <<nexusVars, altered, job, todo, unpacked, redelivered, missed, faults>>,
           redelivered = {} => content = "locked" \/ (content = "altered" /\ Kind[Comp(e)] \in Hashed)
    PROVE  StagingIInv'
<1>1. PICK r, p, c : r = Req(e) /\ p = exec[e].pos /\ c = Comp(e)
    OBVIOUS
<1>2. Writes(e) /\ UNCHANGED <<stored, job>> /\ file'[r][c] = content
      /\ (content = "locked" => Untainted(e))
    <2>1. file' = [file EXCEPT ![r][c] = content]
        BY <1>1 DEF Write
    <2>2. Writes(e)
        BY <1>1, <2>1, FileWrites
    <2>3. file'[r][c] = content
        BY <2>1, RunTyped, <1>1 DEF StagingIInv, StagingTypeOK
    <2>4. content = "locked" => Untainted(e)
        BY <1>1, <2>1, FileWrites
    <2>5. UNCHANGED <<stored, job>>
        BY DEF nexusVars
    <2> QED BY <2>2, <2>3, <2>4, <2>5
<1>3. CASE ~Accepted(c, content)
    BY <1>1, <1>2, <1>3, Failing DEF Write
<1>4. CASE Accepted(c, content)
    <2>1. redelivered = {} => content = "locked"
        BY <1>1, <1>4 DEF Accepted
    <2>2. Untainted(e)
        BY <1>2, <2>1 DEF Untainted
    <2>3. /\ r \in Requests /\ p \in Places(r) /\ c = Placed(r, p) /\ StagingTypeOK
          /\ StepAt(r, p)' = StepAt(r, p) /\ Placed(r, p)' = c
          /\ redelivered = {} => Underway(exec[e]) /\ exec[e].req = r /\ exec[e].pos = p
        BY <1>1, <1>2, WorkedOn DEF StagingIInv
    <2>4. redelivered = {} =>
              /\ StepAt(r, p) \in {"fetch", "search"}
              /\ StepAt(r, p) = "fetch" <=> Kind[c] \in Registry
              /\ exec[e].step = "load" => StepAt(r, p) = "search" /\ stored[Shared][c] = "locked"
        <3>1. Registry \cap (Raw \cup JsExternal) = {}
            BY DEF Registry, Raw, JsExternal
        <3>2. /\ StepAt(r, p) = "fetch" => Kind[c] \in Registry
              /\ StepAt(r, p) = "search" => Kind[c] \in Raw \cup JsExternal
            BY <2>3, PlaceKinds
        <3>3. redelivered = {} =>
                  /\ StepAt(r, p) \in {"fetch", "search"}
                  /\ exec[e].step = "load" => StepAt(r, p) = "search" /\ stored[Shared][c] = "locked"
            BY <2>3 DEF Underway
        <3> QED BY <3>1, <3>2, <3>3
    <2>5. CASE Kind[c] \in Registry \/ exec[e].step = "load"
        <3>1. Advance(e)
            BY <1>1, <1>4, <2>5, RunTyped DEF Write, At, Working
        <3>2. redelivered = {} => Achieved(r, p)'
            BY <1>2, <2>1, <2>3, <2>4, <2>5 DEF Achieved
        <3> QED BY <1>1, <1>2, <2>2, <3>1, <3>2, Advancing
    <2>6. CASE Kind[c] \notin Registry /\ exec[e].step # "load"
        <3>1. Goto(e, "upload") /\ "upload" \in Steps
            BY <1>1, <1>4, <2>6 DEF Write, At, Steps
        <3>2. redelivered = {} => Underway([req |-> r, pos |-> p, step |-> "upload"])'
            BY <1>2, <2>1, <2>3, <2>4, <2>6 DEF Underway
        <3> QED BY <1>1, <1>2, <2>2, <3>1, <3>2, Going
    <2> QED BY <2>5, <2>6
<1> QED BY <1>3, <1>4

LEMMA FetchKeeps ==
    ASSUME StagingIInv, NEW e \in Executions, Fetch(e)
    PROVE  StagingIInv'
<1>1. Runs(e) /\ exec[e].step = "fetch"
    BY DEF Fetch, At, Runs, Steps
<1>2. Original(Comp(e)) = "locked"
      \/ (Original(Comp(e)) = "altered" /\ Kind[Comp(e)] \in Hashed)
    BY DEF Original, StagingIInv
<1>3. Original(Comp(e)) \in Contents
    BY DEF Original, Contents
<1> QED BY <1>1, <1>2, <1>3, WriteKeeps DEF Fetch

LEMMA LoadKeepsStaging ==
    ASSUME StagingIInv, NEW e \in Executions, Load(e)
    PROVE  StagingIInv'
<1>1. Runs(e) /\ exec[e].step = "load" /\ job' = job
    BY DEF Load, At, Runs, Steps
<1>2. redelivered = {} => stored[Shared][Comp(e)] = "locked"
    <2>1. PICK r, p, c : r = Req(e) /\ p = exec[e].pos /\ c = Comp(e)
        OBVIOUS
    <2> QED BY <1>1, <2>1, WorkedOn DEF Underway
<1>3. stored[Shared][Comp(e)] \in Contents
    BY <1>1, RunTyped DEF StagingIInv, StagingTypeOK, Repos
<1> QED BY <1>1, <1>2, <1>3, WriteKeeps DEF Load

\* What is stored was locked: it is the file of an execution that nobody else disturbs.
LEMMA StoreWrites ==
    ASSUME StagingIInv, NEW e \in Executions, Runs(e), NEW repo \in Repos,
           NEW r, r = Req(e), NEW c, c = Comp(e),
           Store(repo, c, file[r][c]),
           UNCHANGED <<indexed, altered, job, todo, dirVars, redelivered, missed>>,
           faults' \in 0..MaxFaults
    PROVE  /\ Writes(e) /\ Untainted(e) /\ UNCHANGED <<file, job>>
           /\ stored'[repo][c] = file[r][c]
<1>1. r \in Requests /\ c \in Components /\ (redelivered = {} => file[r][c] # "altered")
    BY RunTyped
<1>2. /\ stored \in [Repos -> [Components -> Contents]] /\ file[r][c] \in Contents
    BY <1>1 DEF StagingIInv, StagingTypeOK
<1>3. /\ stored' \in [Repos -> [Components -> Contents]] /\ stored'[repo][c] = file[r][c]
      /\ \A x \in Repos, d \in Components :
             stored'[x][d] = stored[x][d] \/ (x = repo /\ d = c)
    BY <1>1, <1>2 DEF Store
<1>4. \A x \in Repos, d \in Components :
          stored[x][d] # "absent" => stored'[x][d] = stored[x][d]
    BY <1>3 DEF Store
<1>5. redelivered = {} => \A x \in Repos, d \in Components : stored'[x][d] # "altered"
    BY <1>1, <1>3 DEF StagingIInv, Orderly
<1>6. UNCHANGED <<file, unpacked>>
    BY DEF dirVars
<1> QED BY <1>3, <1>4, <1>5, <1>6 DEF Writes, Untainted, StagingIInv, StagingTypeOK

LEMMA UploadKeeps ==
    ASSUME StagingIInv, NEW e \in Executions, Upload(e)
    PROVE  StagingIInv'
<1>1. PICK r, p, c : r = Req(e) /\ p = exec[e].pos /\ c = Comp(e)
    OBVIOUS
<1>2. Runs(e) /\ exec[e].step = "upload" /\ job' = job /\ Shared \in Repos
      /\ UNCHANGED <<indexed, altered, job, todo, dirVars, redelivered, missed, faults>>
    BY DEF Upload, At, Runs, Steps, Repos
<1>3. faults' \in 0..MaxFaults
    BY <1>2 DEF StagingIInv, StagingTypeOK
<1>4. /\ c \in Components /\ StepAt(r, p)' = StepAt(r, p) /\ Placed(r, p)' = c
      /\ redelivered = {} => StepAt(r, p) = "search" /\ file[r][c] = "locked"
    BY <1>1, <1>2, WorkedOn DEF Underway
<1>5. CASE Refused(Shared, c)
    <2>1. Fail(e)
        BY <1>1, <1>5 DEF Upload, Store, Refused
    <2>2. Writes(e)
        BY <1>2, <1>3, <1>5, Looking DEF Refused, nexusVars, StagingIInv, StagingTypeOK
    <2> QED BY <1>2, <2>1, <2>2, Failing
<1>6. CASE Store(Shared, c, file[r][c])
    <2>1. /\ Writes(e) /\ Untainted(e) /\ UNCHANGED <<file, job>>
          /\ stored'[Shared][c] = file[r][c]
        BY <1>1, <1>2, <1>3, <1>6, StoreWrites
    <2>2. IF Kind[c] \in JsExternal THEN Goto(e, "confirm") ELSE Advance(e)
        BY <1>1, <1>6 DEF Upload, Store, Refused
    <2>3. CASE Kind[c] \in JsExternal
        <3>1. redelivered = {} => Underway([req |-> r, pos |-> p, step |-> "confirm"])'
            BY <1>4, <2>1, <2>3 DEF Underway
        <3> QED BY <1>1, <1>2, <2>1, <2>2, <2>3, <3>1, Going DEF Steps
    <2>4. CASE Kind[c] \notin JsExternal
        <3>1. redelivered = {} => Achieved(r, p)'
            BY <1>4, <2>1 DEF Achieved
        <3> QED BY <1>1, <1>2, <2>1, <2>2, <2>4, <3>1, Advancing
    <2> QED BY <2>3, <2>4
<1> QED BY <1>1, <1>5, <1>6 DEF Upload

\* A component that was refused, or whose upload failed, is looked for.
LEMMA LookingFor ==
    ASSUME StagingIInv, NEW e \in Executions, Runs(e), exec[e].step = "push", Goto(e, "look"),
           Writes(e), Untainted(e)
    PROVE  StagingIInv'
<1>1. PICK r, p, c : r = Req(e) /\ p = exec[e].pos /\ c = Comp(e)
    OBVIOUS
<1>2. redelivered = {} => Underway([req |-> r, pos |-> p, step |-> "look"])'
    BY <1>1, WorkedOn DEF Underway, Writes
<1>3. "look" \in Steps
    BY DEF Steps
<1> QED BY <1>1, <1>2, <1>3, Going

LEMMA PushKeeps ==
    ASSUME StagingIInv, NEW e \in Executions, Push(e)
    PROVE  StagingIInv'
<1>1. PICK r, p, c : r = Req(e) /\ p = exec[e].pos /\ c = Comp(e)
    OBVIOUS
<1>2. Runs(e) /\ exec[e].step = "push" /\ job' = job
      /\ UNCHANGED <<indexed, altered, job, todo, dirVars, redelivered, missed, faults>>
    BY DEF Push, At, Runs, Steps
<1>3. faults' \in 0..MaxFaults
    BY <1>2 DEF StagingIInv, StagingTypeOK
<1>4. CASE Refused(r, c) /\ Goto(e, "look")
    <2>1. Writes(e) /\ Untainted(e)
        BY <1>2, <1>3, <1>4, Looking DEF Refused, nexusVars, StagingIInv, StagingTypeOK
    <2> QED BY <1>2, <1>4, <2>1, LookingFor
<1>5. CASE Store(r, c, file[r][c]) /\ Advance(e)
    <2>1. /\ Writes(e) /\ Untainted(e) /\ UNCHANGED <<file, job>>
          /\ stored'[r][c] = file[r][c]
        BY <1>1, <1>2, <1>3, <1>5, RunTyped, StoreWrites
    <2>2. ASSUME redelivered = {} PROVE Achieved(r, p)'
        <3>1. /\ StagingTypeOK /\ r \in Requests /\ p \in Places(r) /\ c = Placed(r, p)
              /\ StepAt(r, p)' = StepAt(r, p) /\ Placed(r, p)' = c /\ StepAt(r, p) = "push"
              /\ \A q \in Places(r) : Before(q, p) => Achieved(r, q)
            BY <1>1, <1>2, <2>2, WorkedOn DEF Underway, StagingIInv
        <3>2. PICK before \in Places(r) :
                  /\ Before(before, p) /\ Placed(r, before) = c
                  /\ \/ StepAt(r, before) = "fetch"
                     \/ (StepAt(r, before) = "search" /\ Kind[c] \in {"vcs", "url"})
            BY <3>1, ReliesOn
        <3>3. file[r][c] = "locked"
            BY <3>1, <3>2 DEF Achieved
        <3> QED BY <2>1, <3>1, <3>3 DEF Achieved
    <2> QED BY <1>1, <1>2, <1>5, <2>1, <2>2, Advancing
<1> QED BY <1>1, <1>4, <1>5 DEF Push

LEMMA PrepareKeeps ==
    ASSUME StagingIInv, NEW e \in Executions, Prepare(e)
    PROVE  StagingIInv'
<1>1. PICK r, p, c : r = Req(e) /\ p = exec[e].pos /\ c = Comp(e)
    OBVIOUS
<1>2. Runs(e) /\ exec[e].step = "prepare"
      /\ UNCHANGED <<nexusVars, altered, job, todo, redelivered, missed, faults>>
    BY DEF Prepare, At, Runs, Steps
<1>3. /\ StagingTypeOK /\ r \in Requests /\ c \in Components /\ UNCHANGED <<stored, indexed>>
      /\ StepAt(r, p)' = StepAt(r, p) /\ Placed(r, p)' = c
    BY <1>1, <1>2, WorkedOn DEF StagingIInv, nexusVars
<1>4. CASE Fail(e) /\ UNCHANGED dirVars
    <2>1. Writes(e)
        BY <1>2, <1>4, Looking DEF StagingIInv, StagingTypeOK
    <2> QED BY <1>2, <1>4, <2>1, Failing
<1>5. CASE /\ unpacked' = [unpacked EXCEPT ![r] = @ \cup {c}]
           /\ file' = [file EXCEPT ![r][c] = "absent"]
           /\ Advance(e)
    <2>1. /\ unpacked' \in [Requests -> SUBSET Components]
          /\ \A q \in Requests : unpacked[q] \subseteq unpacked'[q]
          /\ \A q \in Requests \ {r} : unpacked'[q] = unpacked[q]
          /\ c \in unpacked'[r]
        BY <1>3, <1>5 DEF StagingTypeOK
    <2>2. /\ file' \in [Requests -> [Components -> Contents]]
          /\ \A q \in Requests \ {r} : file'[q] = file[q]
          /\ \A d \in Components : d # c => file'[r][d] = file[r][d]
          /\ file'[r][c] = "absent"
        BY <1>3, <1>5 DEF StagingTypeOK, Contents
    <2>3. Writes(e)
        BY <1>1, <1>2, <1>3, <2>1, <2>2 DEF Writes, StagingIInv, StagingTypeOK, Orderly
    <2>4. redelivered = {} => StepAt(r, p) = "prepare" /\ Kind[c] = "GIT"
        <3>1. redelivered = {} => StepAt(r, p) = "prepare"
            BY <1>1, <1>2, WorkedOn DEF Underway
        <3>2. p \in Places(r) /\ c = Placed(r, p)
            BY <1>1, <1>2, WorkedOn
        <3> QED BY <1>3, <3>1, <3>2, ReliesOn
    <2>5. Untainted(e)
        BY <1>1, <2>2, <2>4 DEF Untainted
    <2>6. redelivered = {} => Achieved(r, p)'
        BY <1>3, <2>1, <2>4 DEF Achieved
    <2> QED BY <1>1, <1>2, <1>5, <2>3, <2>5, <2>6, Advancing
<1> QED BY <1>1, <1>4, <1>5 DEF Prepare

LEMMA DownloadKeepsStaging ==
    ASSUME StagingIInv, NEW e \in Executions, Download(e)
    PROVE  StagingIInv'
<1>1. PICK r, p, c : r = Req(e) /\ p = exec[e].pos /\ c = Comp(e)
    OBVIOUS
<1>2. PICK content : content = IF Kind[c] \in JsExternal THEN stored[Shared][c] ELSE "locked"
    OBVIOUS
<1>3. /\ Runs(e) /\ exec[e].step = "download" /\ Advance(e)
      /\ UNCHANGED <<nexusVars, altered, job, todo, unpacked, redelivered, missed, faults>>
      /\ file' = [file EXCEPT ![r][c] = content]
    BY <1>1, <1>2 DEF Download, At, Runs, Steps
<1>4. /\ StagingTypeOK /\ r \in Requests /\ p \in Places(r) /\ c \in Components /\ c = Placed(r, p)
      /\ StepAt(r, p)' = StepAt(r, p) /\ Placed(r, p)' = c /\ Shared \in Repos
    BY <1>1, <1>3, WorkedOn DEF StagingIInv
<1>5. content \in Contents
    BY <1>2, <1>4 DEF StagingTypeOK, Contents
<1>6. ASSUME redelivered = {} PROVE content = "locked" /\ StepAt(r, p) = "download"
    <2>1. StepAt(r, p) = "download" /\ \A q \in Places(r) : Before(q, p) => Achieved(r, q)
        BY <1>1, <1>3, <1>6, WorkedOn DEF Underway
    <2>2. CASE Kind[c] \in JsExternal
        <3>1. PICK before \in Places(r) :
                  Before(before, p) /\ Placed(r, before) = c /\ StepAt(r, before) = "search"
            BY <1>4, <2>1, <2>2, ReliesOn
        <3> QED BY <1>2, <2>1, <2>2, <3>1 DEF Achieved
    <2> QED BY <1>2, <2>1, <2>2
<1>7. Writes(e)
    BY <1>1, <1>3, <1>5, FileWrites
<1>8. file'[r][c] = content /\ \A d \in Components : d # c => file'[r][d] = file[r][d]
    BY <1>3, <1>4 DEF StagingTypeOK
<1>9. Untainted(e)
    BY <1>1, <1>6, <1>8 DEF Untainted
<1>10. redelivered = {} => Achieved(r, p)'
    BY <1>4, <1>6, <1>8 DEF Achieved
<1> QED BY <1>1, <1>3, <1>7, <1>9, <1>10, Advancing

-----------------------------------------------------------------------------
(* Faults, and the beginning of an execution *)

LEMMA FaultTypedStaging ==
    ASSUME StagingIInv, Fault
    PROVE  faults' \in 0..MaxFaults
BY MaxFaultsAssumption DEF StagingIInv, StagingTypeOK, Fault

LEMMA CallFailsKeeps ==
    ASSUME StagingIInv, NEW e \in Executions, CallFails(e)
    PROVE  StagingIInv'
<1>1. Runs(e) /\ Writes(e) /\ Untainted(e)
    BY FaultTypedStaging, Looking DEF CallFails, StagingIInv, StagingTypeOK
<1>2. CASE At(e, "push")
    BY <1>1, <1>2, LookingFor DEF CallFails, At
<1>3. CASE ~At(e, "push")
    BY <1>1, <1>3, Failing DEF CallFails
<1> QED BY <1>2, <1>3

LEMMA AnswerIsLostKeeps ==
    ASSUME StagingIInv, NEW e \in Executions, AnswerIsLost(e)
    PROVE  StagingIInv'
<1>1. PICK r, c : r = Req(e) /\ c = Comp(e)
    OBVIOUS
<1>2. Runs(e) /\ faults' \in 0..MaxFaults
      /\ UNCHANGED <<indexed, altered, job, todo, dirVars, redelivered, missed>>
    BY FaultTypedStaging DEF AnswerIsLost, At, Runs, Steps
<1>3. CASE At(e, "upload") /\ Store(Shared, c, file[r][c]) /\ Fail(e)
    <2>1. Shared \in Repos
        BY DEF Repos
    <2>2. Writes(e)
        BY <1>1, <1>2, <1>3, <2>1, StoreWrites
    <2> QED BY <1>2, <1>3, <2>2, Failing
<1>4. CASE At(e, "push") /\ Store(r, c, file[r][c]) /\ Goto(e, "look")
    <2>1. Writes(e) /\ Untainted(e)
        BY <1>1, <1>2, <1>4, RunTyped, StoreWrites
    <2> QED BY <1>2, <1>4, <2>1, LookingFor DEF At
<1> QED BY <1>1, <1>3, <1>4 DEF AnswerIsLost

\* While nothing is written, all progress is kept.
LEMMA ProgressStays ==
    ASSUME UNCHANGED <<stored, file, unpacked, job>>, NEW x, Progress(x)
    PROVE  Progress(x)'
<1>1. \A r : /\ Places(r)' = Places(r)
             /\ \A q : StepAt(r, q)' = StepAt(r, q) /\ Placed(r, q)' = Placed(r, q)
    BY SamePlaces
<1>2. \A r, q : Achieved(r, q) => Achieved(r, q)'
    BY <1>1 DEF Achieved
<1>3. Underway(x) => Underway(x)'
    BY <1>1 DEF Underway
<1> QED BY <1>1, <1>2, <1>3 DEF Progress

LEMMA WorkerDiesKeeps ==
    ASSUME StagingIInv, NEW e \in Executions, WorkerDies(e)
    PROVE  StagingIInv'
<1>1. PICK r : r = Req(e)
    OBVIOUS
<1>2. /\ Runs(e) /\ exec' = [exec EXCEPT ![e] = Idle] /\ todo' = todo \cup {r}
      /\ UNCHANGED <<stored, indexed, altered, job, file, unpacked, redelivered, missed>>
      /\ faults' \in 0..MaxFaults /\ r \in Requests
    BY <1>1, FaultTypedStaging, RunTyped DEF WorkerDies, nexusVars, dirVars
<1>3. /\ exec' \in [Executions -> Execution \cup {Idle}] /\ exec'[e] = Idle
      /\ \A f \in Executions \ {e} : exec'[f] = exec[f]
    BY <1>2 DEF StagingIInv, StagingTypeOK
<1>4. StagingTypeOK'
    BY <1>2, <1>3 DEF StagingIInv, StagingTypeOK
<1>5. (\A f \in Executions : Runs(f) => exec[f].pos \in Places(Req(f)))'
    BY <1>2, <1>3, SamePlaces DEF StagingIInv, Runs, Req, Places, StepAt, Deps
<1>6. ASSUME redelivered' = {} PROVE Orderly'
    <2>1. redelivered = {} /\ Orderly /\ Working(e) /\ \A c \in Components : file[r][c] # "altered"
        BY <1>1, <1>2, <1>6, RunTyped DEF StagingIInv
    <2>2. ASSUME NEW f \in Executions, Working(f)'
          PROVE  f # e /\ Working(f) /\ exec'[f] = exec[f] /\ Req(f)' = Req(f) /\ Req(f) # r
        BY <1>1, <1>3, <2>1, <2>2 DEF Working, Req, Orderly
    <2>3. \A f \in Executions : Working(f)' => Progress(exec[f])'
        BY <1>2, <2>1, <2>2, ProgressStays DEF Orderly
    <2> QED BY <1>2, <2>1, <2>2, <2>3 DEF Orderly
<1> QED BY <1>2, <1>4, <1>5, <1>6 DEF StagingIInv

LEMMA RedeliveredKeeps ==
    ASSUME StagingIInv, NEW e \in Executions, Redelivered(e)
    PROVE  StagingIInv'
<1>1. /\ Runs(e) /\ UNCHANGED <<stored, indexed, altered, job, exec, file, unpacked, missed>>
      /\ faults' \in 0..MaxFaults /\ Req(e) \in Requests
      /\ todo' = todo \cup {Req(e)} /\ redelivered' = redelivered \cup {Req(e)}
    BY FaultTypedStaging, RunTyped DEF Redelivered, nexusVars, dirVars
<1>2. StagingTypeOK' /\ redelivered' # {}
    BY <1>1 DEF StagingIInv, StagingTypeOK
<1>3. (\A f \in Executions : Runs(f) => exec[f].pos \in Places(Req(f)))'
    BY <1>1 DEF StagingIInv, Runs, Req, Places, StepAt, Deps
<1> QED BY <1>1, <1>2, <1>3 DEF StagingIInv

LEMMA StartKeeps ==
    ASSUME StagingIInv, NEW e \in Executions, Start(e)
    PROVE  StagingIInv'
<1>1. PICK r \in todo : After(e, r, <<0, 0>>) /\ todo' = todo \ {r}
    BY DEF Start
<1>2. /\ StagingTypeOK /\ r \in Requests /\ exec[e] = Idle /\ <<0, 0>> \in Nat \X Nat
      /\ UNCHANGED <<stored, indexed, altered, job, file, unpacked, redelivered, missed, faults>>
    BY DEF Start, StagingIInv, StagingTypeOK, nexusVars, dirVars
<1>3. PICK x \in Execution :
          /\ exec' = [exec EXCEPT ![e] = x] /\ x.req = r
          /\ x.step \in Steps \cup {"done"}
          /\ x.step \in Steps => /\ x.pos \in Places(r) /\ x.step = StepAt(r, x.pos)
                                 /\ x.step \in {"fetch", "search", "push", "address",
                                                "prepare", "download"}
                                 /\ \A q \in Places(r) : Before(q, x.pos) =>
                                        q = <<0, 0>> \/ Before(q, <<0, 0>>)
          /\ x.step = "done" => \A q \in Places(r) : q = <<0, 0>> \/ Before(q, <<0, 0>>)
    BY <1>1, <1>2, AfterPlace
<1>4. \A q \in Places(r) : q # <<0, 0>> /\ ~Before(q, <<0, 0>>)
    BY <1>2, PlaceTyped DEF Before
<1>5. /\ exec'[e] = x /\ exec' \in [Executions -> Execution \cup {Idle}] /\ x # Idle
      /\ \A f \in Executions \ {e} : exec'[f] = exec[f]
    BY <1>2, <1>3, IdleAssumption DEF StagingTypeOK, Execution
<1>6. StagingTypeOK'
    BY <1>1, <1>2, <1>5 DEF StagingTypeOK
<1>7. Progress(x)'
    <2>1. Places(r)' = Places(r) /\ StepAt(r, x.pos)' = StepAt(r, x.pos)
        BY <1>2, SamePlaces
    <2>2. x.step \in Steps => Underway(x)'
        BY <1>3, <2>1 DEF Underway
    <2>3. x.step # "done" \/ x.step \notin Steps
        BY DEF Steps
    <2> QED BY <1>3, <1>4, <2>1, <2>2, <2>3 DEF Progress
<1>8. (\A f \in Executions : Runs(f) => exec[f].pos \in Places(Req(f)))'
    <2>1. \A q : Places(q)' = Places(q)
        BY <1>2, SamePlaces
    <2> QED BY <1>3, <1>5, <2>1 DEF StagingIInv, Runs, Req
<1>9. ASSUME redelivered' = {} PROVE Orderly'
    <2>1. Orderly
        BY <1>2, <1>9 DEF StagingIInv
    <2>2. ASSUME NEW f \in Executions, f # e, Working(f)'
          PROVE  Working(f) /\ exec'[f] = exec[f] /\ Req(f)' = Req(f) /\ Req(f) # r
        BY <1>1, <1>5, <2>1, <2>2 DEF Working, Req, Orderly
    <2>3. Req(e)' = r
        BY <1>3, <1>5 DEF Req
    <2>4. \A f \in Executions : Working(f)' => Progress(exec[f])'
        BY <1>2, <1>5, <1>7, <2>1, <2>2, ProgressStays DEF Orderly
    <2>5. \A f \in Executions : Working(f)' =>
              /\ Req(f)' \notin todo'
              /\ \A g \in Executions : Working(g)' /\ Req(g)' = Req(f)' => g = f
        BY <1>1, <2>1, <2>2, <2>3 DEF Orderly
    <2>6. \A q \in Requests, c \in Components : file'[q][c] = "altered" =>
              /\ q \notin todo'
              /\ \A f \in Executions : Working(f)' /\ Req(f)' = q => exec'[f].step = "failed"
        BY <1>1, <1>2, <2>1, <2>2, <2>3 DEF Orderly
    <2> QED BY <1>2, <2>1, <2>4, <2>5, <2>6 DEF Orderly
<1> QED BY <1>2, <1>6, <1>8, <1>9 DEF StagingIInv

-----------------------------------------------------------------------------
(* Every step *)

LEMMA StagingStarts == StagingInit => StagingIInv
<1> SUFFICES ASSUME StagingInit PROVE StagingIInv
    OBVIOUS
<1>1. StagingTypeOK
    <2>1. "absent" \in Contents /\ 0 \in 0..MaxFaults
        BY MaxFaultsAssumption DEF Contents
    <2>2. /\ stored \in [Repos -> [Components -> Contents]]
          /\ file \in [Requests -> [Components -> Contents]]
        BY <2>1 DEF StagingInit
    <2>3. indexed \in [Repos -> SUBSET Components] /\ unpacked \in [Requests -> SUBSET Components]
        BY DEF StagingInit
    <2>4. exec \in [Executions -> Execution \cup {Idle}]
        BY DEF StagingInit
    <2> QED BY <2>1, <2>2, <2>3, <2>4 DEF StagingInit, StagingTypeOK
<1>2. \A e \in Executions : exec[e] = Idle
    BY DEF StagingInit
<1>3. Orderly
    BY <1>2 DEF StagingInit, Orderly, Working
<1> QED BY <1>1, <1>2, <1>3 DEF StagingInit, StagingIInv, Runs

\* Nexus and the original locations change while nobody writes.
LEMMA SurroundingsKeep ==
    ASSUME StagingIInv,
           UNCHANGED <<stored, job, todo, exec, file, unpacked, redelivered, missed>>,
           faults' \in 0..MaxFaults,
           indexed' \in [Repos -> SUBSET Components], altered' \subseteq Components,
           \A c \in altered' : Kind[c] \in Hashed,
           \A repo \in Repos : \A c \in indexed'[repo] : stored[repo][c] # "absent"
    PROVE  StagingIInv'
<1>1. StagingTypeOK'
    BY DEF StagingIInv, StagingTypeOK
<1>2. (\A e \in Executions : Runs(e) => exec[e].pos \in Places(Req(e)))'
    BY DEF StagingIInv, Runs, Req, Places, StepAt, Deps
<1>3. ASSUME redelivered' = {} PROVE Orderly'
    <2>1. Orderly
        BY <1>3 DEF StagingIInv
    <2>2. \A e \in Executions : Working(e)' => Progress(exec[e])'
        BY <2>1, ProgressStays DEF Orderly, Working
    <2> QED BY <2>1, <2>2 DEF Orderly, Working, Req
<1> QED BY <1>1, <1>2, <1>3 DEF StagingIInv

LEMMA StagingStep == StagingIInv /\ [StagingNext]_vars => StagingIInv'
<1> SUFFICES ASSUME StagingIInv, [StagingNext]_vars PROVE StagingIInv'
    OBVIOUS
<1>1. ASSUME NEW e \in Executions, ExecutionStep(e) PROVE StagingIInv'
    BY <1>1, StartKeeps, SearchKeeps, OtherSearchesKeep, FetchKeeps, LoadKeepsStaging, UploadKeeps,
       PushKeeps, PrepareKeeps, DownloadKeepsStaging DEF ExecutionStep
<1>2. ASSUME NEW e \in Executions,
             CallFails(e) \/ AnswerIsLost(e) \/ WorkerDies(e) \/ Redelivered(e)
      PROVE  StagingIInv'
    BY <1>2, CallFailsKeeps, AnswerIsLostKeeps, WorkerDiesKeeps, RedeliveredKeeps
<1>3. ASSUME NEW repo \in Repos, NEW c \in Components, IndexCatchesUp(repo, c)
      PROVE  StagingIInv'
    <2>1. UNCHANGED <<stored, altered, job, todo, exec, file, unpacked, redelivered, missed, faults>>
        BY <1>3 DEF IndexCatchesUp, dirVars
    <2>2. /\ indexed' \in [Repos -> SUBSET Components]
          /\ \A x \in Repos : \A d \in indexed'[x] : stored[x][d] # "absent"
        BY <1>3 DEF IndexCatchesUp, StagingIInv, StagingTypeOK
    <2> QED BY <2>1, <2>2, SurroundingsKeep DEF StagingIInv, StagingTypeOK
<1>4. ASSUME NEW c \in Components, OriginChanges(c) PROVE StagingIInv'
    <2>1. /\ UNCHANGED <<stored, indexed, job, todo, exec, file, unpacked, redelivered, missed>>
          /\ altered' = altered \cup {c} /\ Kind[c] \in Hashed /\ faults' \in 0..MaxFaults
        BY <1>4, FaultTypedStaging DEF OriginChanges, dirVars, nexusVars
    <2> QED BY <2>1, SurroundingsKeep DEF StagingIInv, StagingTypeOK
<1>5. CASE UNCHANGED vars
    <2>1. UNCHANGED <<stored, indexed, altered, job, todo, exec, file, unpacked, redelivered,
                      missed, faults>>
        BY <1>5 DEF vars, nexusVars, dirVars
    <2> QED BY <2>1, SurroundingsKeep DEF StagingIInv, StagingTypeOK
<1> QED BY <1>1, <1>2, <1>3, <1>4, <1>5 DEF StagingNext

LEMMA StagingInvariance == StagingSpec => []StagingIInv
BY StagingStarts, StagingStep, PTL DEF StagingSpec

-----------------------------------------------------------------------------
(* Theorems *)

\* Type correctness of Nexus, of the bundle directories and of the executions.
THEOREM StagingTypeCorrect == StagingSpec => []StagingTypeOK
<1>1. StagingIInv => StagingTypeOK
    BY DEF StagingIInv
<1> QED
    BY <1>1, StagingInvariance, PTL

\* Under a name with a checksum Nexus only ever gets what this checksum was made of, however
\* many requests stage it, whatever fails and whatever its origin offers later, unless a task
\* is delivered again while it runs (download_dependencies, upload_non_registry_dependency).
THEOREM NexusAlwaysHoldsWhatWasLocked == StagingSpec => []NexusHoldsWhatWasLocked
<1>1. StagingIInv => NexusHoldsWhatWasLocked
    BY DEF StagingIInv, Orderly, NexusHoldsWhatWasLocked
<1> QED
    BY <1>1, StagingInvariance, PTL

\* The places that see to a dependency, by where it comes from.
LEMMA PlacesOfDependency ==
    ASSUME StagingTypeOK, NEW r \in Requests, NEW i \in DOMAIN Deps(r),
           NEW c, c = Deps(r)[i],
           NEW at, at = [k \in 1..3 |-> IF <<k, i>> \in Places(r) THEN StepAt(r, <<k, i>>) ELSE "skip"]
    PROVE  /\ Kind[c] \in {"pypi", "GEM"} => at[1] = "fetch" /\ at[2] = "push"
           /\ Kind[c] \in {"vcs", "url"} => at[1] = "search" /\ at[2] = "push"
           /\ Kind[c] = "GIT" => at[1] = "search" /\ at[3] = "prepare"
           /\ Kind[c] \in JsExternal => at[1] = "search" /\ at[2] = "download"
           /\ Kind[c] = "js_registry" => at[2] = "download"
           /\ Kind[c] \in {"pypi", "GEM", "vcs", "url", "GIT", "js_registry"} \cup JsExternal
<1>1. Kind[c] \in KindsOf(job[r].manager) /\ job[r].manager \in Managers
    BY JobTyped
<1>2. \A k \in DOMAIN Passes(job[r].manager) :
          LET first == First(Passes(job[r].manager)[k], Kind[c])
          IN StepAt(r, <<k, i>>) = first /\ (first # "skip" => <<k, i>> \in Places(r))
    BY DEF Places, StepAt
<1>3. \A k \in DOMAIN Passes(job[r].manager) : k \in 1..3 =>
          at[k] = First(Passes(job[r].manager)[k], Kind[c])
    BY <1>2
<1>4. CASE job[r].manager = "pip"
    <2>1. Passes(job[r].manager) = <<"get", "push", "address">> /\ Kind[c] \in {"pypi", "vcs", "url"}
        BY <1>1, <1>4 DEF Passes, KindsOf
    <2>2. at[1] = First("get", Kind[c]) /\ at[2] = First("push", Kind[c])
        BY <1>3, <2>1
    <2> QED BY <2>1, <2>2 DEF First, Registry, Raw, JsExternal
<1>5. CASE job[r].manager = "rubygems"
    <2>1. Passes(job[r].manager) = <<"get", "push", "prepare">> /\ Kind[c] \in {"GEM", "GIT"}
        BY <1>1, <1>5 DEF Passes, KindsOf
    <2>2. /\ at[1] = First("get", Kind[c]) /\ at[2] = First("push", Kind[c])
          /\ at[3] = First("prepare", Kind[c])
        BY <1>3, <2>1
    <2> QED BY <2>1, <2>2 DEF First, Registry, Raw, JsExternal
<1>6. CASE job[r].manager = "js"
    <2>1. /\ Passes(job[r].manager) = <<"host", "download">>
          /\ Kind[c] \in {"js_registry", "js_git", "js_url"}
        BY <1>1, <1>6 DEF Passes, KindsOf, JsExternal
    <2>2. at[1] = First("host", Kind[c]) /\ at[2] = First("download", Kind[c])
        BY <1>3, <2>1
    <2> QED BY <2>1, <2>2 DEF First, Registry, Raw, JsExternal
<1> QED BY <1>1, <1>4, <1>5, <1>6 DEF Managers

\* When the task of a request is over, every dependency is in the bundle, in the repositories of
\* the request and, if it is external, in the shared one, also after retries, restarts and lost
\* answers: no pass relies on what an earlier one did not do.
THEOREM FinishedIsAlwaysStaged == StagingSpec => []FinishedIsStaged
<1>1. StagingIInv => FinishedIsStaged
    <2> SUFFICES ASSUME StagingIInv, NEW r \in Requests, Finished(r), redelivered = {},
                        NEW i \in DOMAIN Deps(r)
                 PROVE  InPlace(r, Deps(r)[i])
        BY DEF FinishedIsStaged
    <2>1. PICK e \in Executions : exec[e] # Idle /\ exec[e].step = "done" /\ exec[e].req = r
        BY DEF Finished, At, Req
    <2>2. StagingTypeOK /\ \A q \in Places(r) : Achieved(r, q)
        BY <2>1 DEF StagingIInv, Orderly, Progress, Working
    <2>3. PICK c : c = Deps(r)[i]
        OBVIOUS
    <2>4. PICK at : at = [k \in 1..3 |-> IF <<k, i>> \in Places(r)
                                         THEN StepAt(r, <<k, i>>) ELSE "skip"]
        OBVIOUS
    <2>5. /\ Kind[c] \in {"pypi", "GEM"} => at[1] = "fetch" /\ at[2] = "push"
          /\ Kind[c] \in {"vcs", "url"} => at[1] = "search" /\ at[2] = "push"
          /\ Kind[c] = "GIT" => at[1] = "search" /\ at[3] = "prepare"
          /\ Kind[c] \in JsExternal => at[1] = "search" /\ at[2] = "download"
          /\ Kind[c] = "js_registry" => at[2] = "download"
          /\ Kind[c] \in {"pypi", "GEM", "vcs", "url", "GIT", "js_registry"} \cup JsExternal
        BY <2>2, <2>3, <2>4, PlacesOfDependency
    <2>6. \A k \in 1..3 :
              /\ at[k] \in {"fetch", "download"} => file[r][c] = "locked"
              /\ at[k] = "search" => /\ stored[Shared][c] = "locked"
                                     /\ Kind[c] \in {"vcs", "url"} => file[r][c] = "locked"
              /\ at[k] = "push" => stored[r][c] = "locked"
              /\ at[k] = "prepare" => c \in unpacked[r]
        BY <2>2, <2>3, <2>4 DEF Achieved, Placed
    <2> QED BY <2>3, <2>5, <2>6 DEF InPlace, JsExternal
<1> QED
    BY <1>1, StagingInvariance, PTL

-----------------------------------------------------------------------------
(* Requests that nothing disturbs *)

\* Why an execution for r may fail at c although no fault happened and no search was late.
Excused(r, c) == (\E q \in Requests \ {r} : Uses(q, c)) \/ GitTwice(r, c)

\* The archives that are still to be unpacked when r is at p are there.
ArchivesKept(r, p) ==
    \A b, q \in Places(r) :
        /\ StepAt(r, b) = "search" /\ Before(b, p)
        /\ StepAt(r, q) = "prepare" /\ ~Before(q, p)
        /\ Placed(r, b) = Placed(r, q)
        => file[r][Placed(r, q)] # "absent" \/ GitTwice(r, Placed(r, q))

\* What an undisturbed execution finds.
Calm(x) ==
    LET r == x.req
        c == Placed(x.req, x.pos)
    IN /\ x.step = "failed" => Excused(r, c)
       /\ x.step = "look" => stored[r][c] # "absent"
       /\ x.step \in {"fetch", "upload"} /\ StepAt(r, x.pos) = "search" =>
              stored[Shared][c] = "absent" \/ Excused(r, c)
       /\ x.step \in Steps => ArchivesKept(r, x.pos)

CalmIInv ==
    /\ altered # {} \/ redelivered # {} => faults > 0
    /\ faults = 0 /\ ~missed => \A e \in Executions : Working(e) => Calm(exec[e])

\* The places whose steps rely on an earlier one, for Git dependencies and addresses.
LEMMA ReliesOnToo ==
    ASSUME StagingTypeOK, NEW r \in Requests, NEW q \in Places(r), NEW c, c = Placed(r, q)
    PROVE  /\ StepAt(r, q) = "prepare" => q[1] = 3 /\ \E b \in Places(r) :
                  Before(b, q) /\ Placed(r, b) = c /\ StepAt(r, b) = "search"
           /\ StepAt(r, q) = "address" => \E b \in Places(r) :
                  Before(b, q) /\ Placed(r, b) = c /\ StepAt(r, b) = "push"
<1>1. /\ q[1] \in 1..3 /\ q[2] \in DOMAIN Deps(r) /\ q[1] \in DOMAIN Passes(job[r].manager)
      /\ Kind[c] \in KindsOf(job[r].manager) /\ c = Deps(r)[q[2]]
    BY PlaceTyped DEF Placed
<1>2. \A i \in 1..3 : <<i, q[2]>>[1] = i /\ <<i, q[2]>>[2] = q[2]
    OBVIOUS
<1>3. \A i \in DOMAIN Passes(job[r].manager) :
          /\ Placed(r, <<i, q[2]>>) = c
          /\ StepAt(r, <<i, q[2]>>) = First(Passes(job[r].manager)[i], Kind[c])
          /\ StepAt(r, <<i, q[2]>>) # "skip" => <<i, q[2]>> \in Places(r)
          /\ i < q[1] => Before(<<i, q[2]>>, q)
    BY <1>1 DEF Placed, StepAt, Places, Before
<1>4. StepAt(r, q) = First(Passes(job[r].manager)[q[1]], Kind[c])
    BY <1>1 DEF StepAt
<1>5. CASE job[r].manager = "pip"
    <2>1. Passes(job[r].manager) = <<"get", "push", "address">> /\ Kind[c] \in {"pypi", "vcs", "url"}
        BY <1>1, <1>5 DEF Passes, KindsOf
    <2> HIDE DEF Placed
    <2>2. /\ First("get", Kind[c]) \in {"fetch", "search"}
          /\ First("push", Kind[c]) = "push"
          /\ First("address", Kind[c]) \in {"address", "skip"}
        BY <2>1 DEF First, Registry, Raw, JsExternal
    <2>3. StepAt(r, q) # "prepare" /\ (StepAt(r, q) = "address" => q[1] = 3)
        BY <1>1, <1>4, <2>1, <2>2
    <2>4. 2 \in DOMAIN Passes(job[r].manager) /\ Passes(job[r].manager)[2] = "push"
        BY <2>1
    <2>5. StepAt(r, q) = "address" =>
              /\ <<2, q[2]>> \in Places(r) /\ Before(<<2, q[2]>>, q)
              /\ Placed(r, <<2, q[2]>>) = c /\ StepAt(r, <<2, q[2]>>) = "push"
        BY <1>3, <2>2, <2>3, <2>4
    <2> QED BY <2>3, <2>5
<1>6. CASE job[r].manager = "rubygems"
    <2>1. Passes(job[r].manager) = <<"get", "push", "prepare">> /\ Kind[c] \in {"GEM", "GIT"}
        BY <1>1, <1>6 DEF Passes, KindsOf
    <2>2. /\ First("get", Kind[c]) = IF Kind[c] = "GEM" THEN "fetch" ELSE "search"
          /\ First("push", Kind[c]) \in {"push", "skip"}
          /\ First("prepare", Kind[c]) = IF Kind[c] = "GIT" THEN "prepare" ELSE "skip"
        BY <2>1 DEF First, Registry, Raw, JsExternal
    <2>3. StepAt(r, q) # "address" /\ (StepAt(r, q) = "prepare" => q[1] = 3 /\ Kind[c] = "GIT")
        BY <1>1, <1>4, <2>1, <2>2
    <2>4. 1 \in DOMAIN Passes(job[r].manager) /\ Passes(job[r].manager)[1] = "get"
        BY <2>1
    <2>5. StepAt(r, q) = "prepare" =>
              /\ <<1, q[2]>> \in Places(r) /\ Before(<<1, q[2]>>, q)
              /\ Placed(r, <<1, q[2]>>) = c /\ StepAt(r, <<1, q[2]>>) = "search"
        BY <1>3, <2>2, <2>3, <2>4
    <2> QED BY <2>3, <2>5
<1>7. CASE job[r].manager = "js"
    <2>1. /\ Passes(job[r].manager) = <<"host", "download">>
          /\ Kind[c] \in {"js_registry", "js_git", "js_url"}
        BY <1>1, <1>7 DEF Passes, KindsOf, JsExternal
    <2>2. /\ First("host", Kind[c]) \in {"search", "skip"}
          /\ First("download", Kind[c]) = "download"
        BY <2>1 DEF First, Registry, Raw, JsExternal
    <2>3. StepAt(r, q) # "address" /\ StepAt(r, q) # "prepare"
        BY <1>1, <1>4, <2>1, <2>2
    <2> QED BY <2>3
<1> QED BY <1>5, <1>6, <1>7, JobTyped DEF Managers

\* A Git dependency that is unpacked at two places is in the job twice.
LEMMA UnpackedTwice ==
    ASSUME StagingTypeOK, NEW r \in Requests, NEW p \in Places(r), NEW q \in Places(r), p # q,
           StepAt(r, p) = "prepare", StepAt(r, q) = "prepare", Placed(r, p) = Placed(r, q)
    PROVE  GitTwice(r, Placed(r, q))
<1>1. p[1] = 3 /\ q[1] = 3
    BY ReliesOnToo
<1>2. /\ p[2] \in DOMAIN Deps(r) /\ q[2] \in DOMAIN Deps(r)
      /\ p = <<p[1], p[2]>> /\ q = <<q[1], q[2]>>
    BY PlaceTyped
<1>3. p[2] # q[2]
    BY <1>1, <1>2
<1>4. Kind[Placed(r, q)] = "GIT"
    BY PlaceKinds
<1> QED BY <1>2, <1>3, <1>4 DEF GitTwice, Placed

\* The places an execution is at come one behind the other.
LEMMA AdvanceGoesOn ==
    ASSUME StagingTypeOK, NEW e \in Executions, NEW r \in Requests, NEW p \in Nat \X Nat,
           After(e, r, p), exec'[e].step \in Steps
    PROVE  Before(p, exec'[e].pos) /\ exec'[e].step = StepAt(r, exec'[e].pos)
<1>1. \A x : exec' = [exec EXCEPT ![e] = x] => exec'[e] = x
    BY DEF StagingTypeOK
<1>2. CASE NextPlaces(r, p) = {}
    <2>1. exec'[e].step = "done"
        BY <1>1, <1>2 DEF After
    <2> QED BY <2>1 DEF Steps
<1>3. CASE NextPlaces(r, p) # {}
    <2>1. PICK q \in NextPlaces(r, p) :
              exec' = [exec EXCEPT ![e] =
                           [req |-> r, pos |-> q, step |-> StepAt(r, q), tries |-> 0]]
        BY <1>3 DEF After
    <2>2. exec'[e] = [req |-> r, pos |-> q, step |-> StepAt(r, q), tries |-> 0]
        BY <1>1, <2>1
    <2> QED BY <2>1, <2>2 DEF NextPlaces
<1> QED BY <1>2, <1>3

\* While nothing is disturbed, an execution is the only one of its request.
LEMMA Undisturbed ==
    ASSUME StagingIInv, CalmIInv, faults = 0
    PROVE  altered = {} /\ redelivered = {} /\ Orderly
BY DEF CalmIInv, StagingIInv

LEMMA SameExcuses ==
    ASSUME job' = job, NEW r, NEW c
    PROVE  Excused(r, c)' <=> Excused(r, c)
BY DEF Excused, Uses, GitTwice, Deps

LEMMA KeptLasts ==
    ASSUME StagingTypeOK, job' = job, NEW r \in Requests, NEW p, ArchivesKept(r, p),
           \A d \in Components : file[r][d] # "absent" => file'[r][d] # "absent"
    PROVE  ArchivesKept(r, p)'
<1>1. /\ Places(r)' = Places(r)
      /\ \A q : StepAt(r, q)' = StepAt(r, q) /\ Placed(r, q)' = Placed(r, q)
      /\ \A d : GitTwice(r, d)' <=> GitTwice(r, d)
    BY SamePlaces DEF GitTwice, Deps
<1>2. \A q \in Places(r) : Placed(r, q) \in Components
    BY PlaceTyped
<1> QED BY <1>1, <1>2 DEF ArchivesKept

\* From p to the next place: what was searched there is kept, and what was unpacked there is
\* not to be unpacked again.
LEMMA KeptAhead ==
    ASSUME StagingTypeOK, job' = job, NEW r \in Requests, NEW p \in Places(r), NEW x \in Places(r),
           ArchivesKept(r, p), Before(p, x),
           \A q \in Places(r) : Before(q, x) => q = p \/ Before(q, p),
           \A d \in Components : file[r][d] # "absent" =>
               file'[r][d] # "absent" \/ (StepAt(r, p) = "prepare" /\ d = Placed(r, p)),
           StepAt(r, p) = "search" /\ Kind[Placed(r, p)] = "GIT" =>
               file'[r][Placed(r, p)] # "absent"
    PROVE  ArchivesKept(r, x)'
<1>1. /\ Places(r)' = Places(r)
      /\ \A q : StepAt(r, q)' = StepAt(r, q) /\ Placed(r, q)' = Placed(r, q)
      /\ \A d : GitTwice(r, d)' <=> GitTwice(r, d)
    BY SamePlaces DEF GitTwice, Deps
<1> SUFFICES ASSUME NEW b \in Places(r), NEW q \in Places(r),
                    StepAt(r, b) = "search", Before(b, x),
                    StepAt(r, q) = "prepare", ~Before(q, x), Placed(r, b) = Placed(r, q)
             PROVE  file'[r][Placed(r, q)] # "absent" \/ GitTwice(r, Placed(r, q))
    BY <1>1 DEF ArchivesKept
<1>2. q # p /\ ~Before(q, p)
    <2>1. p \in Nat \X Nat /\ q \in Nat \X Nat /\ x \in Nat \X Nat
        BY PlaceTyped
    <2>2. \A i, j, k \in Nat \X Nat : Before(i, j) /\ Before(j, k) => Before(i, k)
        BY DEF Before
    <2> QED BY <2>1, <2>2
<1>3. Kind[Placed(r, q)] = "GIT" /\ Placed(r, q) \in Components
    BY PlaceKinds, PlaceTyped
<1>4. CASE b = p
    BY <1>3, <1>4
<1>5. CASE Before(b, p)
    <2>1. file[r][Placed(r, q)] # "absent" \/ GitTwice(r, Placed(r, q))
        BY <1>2, <1>5 DEF ArchivesKept
    <2>2. StepAt(r, p) = "prepare" /\ Placed(r, q) = Placed(r, p) => GitTwice(r, Placed(r, q))
        BY <1>2, UnpackedTwice
    <2> QED BY <1>3, <2>1, <2>2
<1> QED BY <1>4, <1>5

\* What e finds while nothing is disturbed.
LEMMA CalmRun ==
    ASSUME StagingIInv, CalmIInv, faults = 0, ~missed, NEW e \in Executions, Runs(e), job' = job,
           NEW r, r = Req(e), NEW p, p = exec[e].pos, NEW c, c = Comp(e)
    PROVE  /\ StagingTypeOK /\ Calm(exec[e]) /\ ArchivesKept(r, p)
           /\ r \in Requests /\ r \in Repos /\ Shared \in Repos /\ p \in Places(r)
           /\ c \in Components /\ c = Placed(r, p)
           /\ StepAt(r, p)' = StepAt(r, p) /\ Placed(r, p)' = c
           /\ Underway(exec[e]) /\ exec[e].req = r /\ exec[e].pos = p
           /\ \A q \in Places(r) : Before(q, p) => Achieved(r, q)
           /\ exec[e].step = "look" => stored[r][c] # "absent"
           /\ exec[e].step \in {"fetch", "upload"} /\ StepAt(r, p) = "search" =>
                  stored[Shared][c] = "absent" \/ Excused(r, c)
<1>1. Calm(exec[e]) /\ StagingTypeOK
    BY DEF CalmIInv, StagingIInv, Runs, Working
<1>2. redelivered = {} /\ exec[e].step \in Steps
    BY Undisturbed DEF Runs
<1>3. /\ r \in Requests /\ r \in Repos /\ Shared \in Repos /\ p \in Places(r)
      /\ c \in Components /\ c = Placed(r, p)
      /\ StepAt(r, p)' = StepAt(r, p) /\ Placed(r, p)' = c
      /\ Underway(exec[e]) /\ exec[e].req = r /\ exec[e].pos = p
      /\ \A q \in Places(r) : Before(q, p) => Achieved(r, q)
    BY <1>2, WorkedOn
<1> QED BY <1>1, <1>2, <1>3 DEF Calm

LEMMA CalmStaying ==
    ASSUME StagingIInv, CalmIInv, faults = 0, ~missed, NEW e \in Executions, Runs(e), job' = job,
           NEW r, r = Req(e), NEW p, p = exec[e].pos, NEW c, c = Comp(e),
           exec'[e].req = r, exec'[e].pos = p,
           \A d \in Components : file[r][d] # "absent" => file'[r][d] # "absent",
           exec'[e].step = "failed" => Excused(r, c),
           exec'[e].step = "look" => stored'[r][c] # "absent",
           exec'[e].step \in {"fetch", "upload"} /\ StepAt(r, p) = "search" =>
               stored'[Shared][c] = "absent" \/ Excused(r, c)
    PROVE  Calm(exec[e])'
<1>1. /\ StagingTypeOK /\ ArchivesKept(r, p) /\ r \in Requests
      /\ StepAt(r, p)' = StepAt(r, p) /\ Placed(r, p)' = c
    BY CalmRun
<1>2. ArchivesKept(r, p)'
    BY <1>1, KeptLasts
<1>3. Excused(r, c)' <=> Excused(r, c)
    BY SameExcuses
<1> QED BY <1>1, <1>2, <1>3 DEF Calm

LEMMA CalmAdvancing ==
    ASSUME StagingIInv, CalmIInv, faults = 0, ~missed, NEW e \in Executions, Runs(e), job' = job,
           NEW r, r = Req(e), NEW p, p = exec[e].pos, NEW c, c = Comp(e), Advance(e),
           \A d \in Components : file[r][d] # "absent" =>
               file'[r][d] # "absent" \/ (StepAt(r, p) = "prepare" /\ d = c),
           StepAt(r, p) = "search" /\ Kind[c] = "GIT" => file'[r][c] # "absent"
    PROVE  Calm(exec[e])'
<1>1. /\ StagingTypeOK /\ ArchivesKept(r, p) /\ r \in Requests /\ p \in Places(r)
      /\ c = Placed(r, p) /\ p \in Nat \X Nat
    BY CalmRun, RunTyped
<1>2. After(e, r, p)
    BY DEF Advance
<1>3. PICK x \in Execution :
          /\ exec' = [exec EXCEPT ![e] = x] /\ x.req = r
          /\ x.step \in Steps \cup {"done"}
          /\ x.step \in Steps => /\ x.pos \in Places(r) /\ x.step = StepAt(r, x.pos)
                                 /\ x.step \in {"fetch", "search", "push", "address",
                                                "prepare", "download"}
                                 /\ \A q \in Places(r) : Before(q, x.pos) => q = p \/ Before(q, p)
          /\ x.step = "done" => \A q \in Places(r) : q = p \/ Before(q, p)
    BY <1>1, <1>2, AfterPlace
<1>4. exec'[e] = x
    BY <1>1, <1>3 DEF StagingTypeOK
<1>5. CASE x.step = "done"
    BY <1>3, <1>4, <1>5 DEF Calm, Steps
<1>6. CASE x.step \in Steps
    <2>1. Before(p, x.pos)
        BY <1>1, <1>2, <1>4, <1>6, AdvanceGoesOn
    <2>2. ArchivesKept(r, x.pos)'
        BY <1>1, <1>3, <1>6, <2>1, KeptAhead
    <2>3. StepAt(r, x.pos)' = x.step
        BY <1>3, <1>6, SamePlaces
    <2> QED BY <1>3, <1>4, <1>6, <2>2, <2>3 DEF Calm
<1> QED BY <1>3, <1>5, <1>6

\* A step of e while faults = 0: the other executions find what they found before.
LEMMA CalmMoves ==
    ASSUME StagingIInv, CalmIInv, NEW e \in Executions, Runs(e), Writes(e), UNCHANGED faults,
           missed => missed',
           \A d \in Components : stored'[Shared][d] = stored[Shared][d] \/ d = Comp(e),
           \A f \in Executions \ {e} : exec'[f] = exec[f],
           faults = 0 /\ ~missed' => Calm(exec[e])'
    PROVE  CalmIInv'
<1>1. UNCHANGED <<job, altered, redelivered>>
    BY DEF Writes
<1>2. ASSUME faults = 0, ~missed', NEW f \in Executions, f # e, Working(f)'
      PROVE  Calm(exec[f])'
    <2>0. PICK x, r, c : x = exec[f] /\ r = x.req /\ c = Placed(r, x.pos)
        OBVIOUS
    <2>1. /\ exec'[f] = x /\ Working(f) /\ Calm(x) /\ StagingTypeOK /\ Orderly
          /\ x \in Execution /\ r \in Requests /\ Req(f) = r
        BY <1>2, <2>0, Undisturbed DEF Working, CalmIInv, StagingIInv, StagingTypeOK, Execution, Req
    <2>2. Req(e) \in Requests \ {r} /\ Uses(Req(e), Comp(e))
        <3>1. Req(e) \in Requests /\ Working(e) /\ exec[e].pos \in Places(Req(e))
            BY RunTyped
        <3>2. Req(e) # r
            BY <1>2, <2>1, <3>1 DEF Orderly
        <3>3. Uses(Req(e), Comp(e))
            BY <2>1, <3>1, PlaceTyped DEF Uses, Comp
        <3> QED BY <3>1, <3>2, <3>3
    <2>3. /\ file'[r] = file[r] /\ StepAt(r, x.pos)' = StepAt(r, x.pos)
          /\ Placed(r, x.pos)' = c /\ (Excused(r, c)' <=> Excused(r, c))
        <3>1. file'[r] = file[r]
            BY <2>1, <2>2 DEF Writes
        <3>2. StepAt(r, x.pos)' = StepAt(r, x.pos) /\ Placed(r, x.pos)' = c
            BY <1>1, <2>0, SamePlaces
        <3>3. Excused(r, c)' <=> Excused(r, c)
            BY <1>1, SameExcuses
        <3> QED BY <3>1, <3>2, <3>3
    <2>4. x.step \in Steps => c \in Components
        BY <2>0, <2>1, PlaceTyped DEF StagingIInv, Runs, Working
    <2>5. x.step \in Steps => ArchivesKept(r, x.pos)'
        <3>1. x.step \in Steps => ArchivesKept(r, x.pos)
            BY <2>0, <2>1 DEF Calm
        <3> QED BY <1>1, <2>1, <2>3, <3>1, KeptLasts
    <2>6. x.step = "look" => stored'[r][c] # "absent"
        BY <2>0, <2>1, <2>4 DEF Calm, Writes, Steps, Repos
    <2>7. x.step \in {"fetch", "upload"} /\ StepAt(r, x.pos) = "search" =>
              stored'[Shared][c] = "absent" \/ Excused(r, c)
        <3>1. x.step \in {"fetch", "upload"} /\ StepAt(r, x.pos) = "search" =>
                  /\ c \in Components
                  /\ stored[Shared][c] = "absent" \/ Excused(r, c)
            BY <2>0, <2>1, <2>4 DEF Calm, Steps
        <3>2. c = Comp(e) => Excused(r, c)
            BY <2>2 DEF Excused
        <3> QED BY <3>1, <3>2
    <2>8. x.step = "failed" => Excused(r, c)
        BY <2>0, <2>1 DEF Calm
    <2> QED BY <2>0, <2>1, <2>3, <2>5, <2>6, <2>7, <2>8 DEF Calm
<1>3. ASSUME faults' = 0, ~missed', NEW f \in Executions, Working(f)' PROVE Calm(exec[f])'
    BY <1>2, <1>3
<1> QED BY <1>1, <1>3 DEF CalmIInv

\* Where an execution is after a step, and that no other moves.
LEMMA GoesTo ==
    ASSUME StagingIInv, NEW e \in Executions, Runs(e), NEW step, Goto(e, step)
    PROVE  /\ exec'[e].req = Req(e) /\ exec'[e].pos = exec[e].pos /\ exec'[e].step = step
           /\ \A f \in Executions \ {e} : exec'[f] = exec[f]
<1>1. exec[e] \in Execution /\ exec \in [Executions -> Execution \cup {Idle}]
    BY RunTyped DEF StagingIInv, StagingTypeOK
<1>2. PICK x : x = [exec[e] EXCEPT !.step = step, !.tries = 0]
    OBVIOUS
<1>3. x.req = Req(e) /\ x.pos = exec[e].pos /\ x.step = step
    BY <1>1, <1>2 DEF Execution, Req
<1>4. exec' = [exec EXCEPT ![e] = x]
    BY <1>1, <1>2 DEF Goto
<1> QED BY <1>1, <1>3, <1>4

LEMMA TriesAgain ==
    ASSUME StagingIInv, NEW e \in Executions, Runs(e), exec' = [exec EXCEPT ![e].tries = @ + 1]
    PROVE  /\ exec'[e].req = Req(e) /\ exec'[e].pos = exec[e].pos /\ exec'[e].step = exec[e].step
           /\ \A f \in Executions \ {e} : exec'[f] = exec[f]
<1>1. exec[e] \in Execution /\ exec \in [Executions -> Execution \cup {Idle}]
    BY RunTyped DEF StagingIInv, StagingTypeOK
<1>2. PICK x : x = [exec[e] EXCEPT !.tries = exec[e].tries + 1]
    OBVIOUS
<1>3. x.req = Req(e) /\ x.pos = exec[e].pos /\ x.step = exec[e].step
    BY <1>1, <1>2 DEF Execution, Req
<1>4. exec' = [exec EXCEPT ![e] = x]
    BY <1>1, <1>2
<1> QED BY <1>1, <1>3, <1>4

LEMMA OthersWait ==
    ASSUME StagingIInv, NEW e \in Executions, Advance(e)
    PROVE  \A f \in Executions \ {e} : exec'[f] = exec[f]
<1>1. exec \in [Executions -> Execution \cup {Idle}]
    BY DEF StagingIInv, StagingTypeOK
<1>2. \E x : exec' = [exec EXCEPT ![e] = x]
    BY DEF Advance, After
<1> QED BY <1>1, <1>2

\* A search that was not late: it goes on, or is right that nothing is there.
LEMMA CalmSearching ==
    ASSUME StagingIInv, CalmIInv, NEW e \in Executions, Runs(e),
           UNCHANGED <<nexusVars, altered, job, todo, dirVars, redelivered, faults>>,
           missed' \in BOOLEAN, missed => missed',
           NEW r, r = Req(e), NEW p, p = exec[e].pos, NEW c, c = Comp(e),
           exec' = [exec EXCEPT ![e].tries = @ + 1] \/ Advance(e) \/ (\E step : Goto(e, step)),
           faults = 0 /\ ~missed' =>
               \/ exec' = [exec EXCEPT ![e].tries = @ + 1]
               \/ Advance(e) /\ ~(StepAt(r, p) = "search" /\ Kind[c] = "GIT")
               \/ Goto(e, "load")
               \/ Goto(e, "fetch") /\ stored[Shared][c] = "absent"
    PROVE  CalmIInv'
<1>1. Writes(e) /\ UNCHANGED <<stored, file, job>>
    BY Looking DEF StagingIInv, StagingTypeOK, nexusVars, dirVars
<1>2. \A f \in Executions \ {e} : exec'[f] = exec[f]
    BY GoesTo, TriesAgain, OthersWait
<1>3. ASSUME faults = 0, ~missed' PROVE Calm(exec[e])'
    <2>1. ~missed
        BY <1>3
    <2>2. CASE exec' = [exec EXCEPT ![e].tries = @ + 1]
        <3>1. exec'[e].req = r /\ exec'[e].pos = p /\ exec'[e].step = exec[e].step
            BY <2>2, TriesAgain
        <3>2. /\ exec[e].step = "look" => stored[r][c] # "absent"
              /\ exec[e].step \in {"fetch", "upload"} /\ StepAt(r, p) = "search" =>
                     stored[Shared][c] = "absent" \/ Excused(r, c)
            BY <1>1, <1>3, <2>1, CalmRun
        <3>3. exec[e].step # "failed"
            BY DEF Runs, Steps
        <3> QED BY <1>1, <1>3, <2>1, <3>1, <3>2, <3>3, CalmStaying
    <2>3. CASE Advance(e) /\ ~(StepAt(r, p) = "search" /\ Kind[c] = "GIT")
        BY <1>1, <1>3, <2>1, <2>3, CalmAdvancing
    <2>4. CASE Goto(e, "load")
        <3>1. exec'[e].req = r /\ exec'[e].pos = p /\ exec'[e].step = "load"
            BY <2>4, GoesTo
        <3> QED BY <1>1, <1>3, <2>1, <3>1, CalmStaying
    <2>5. CASE Goto(e, "fetch") /\ stored[Shared][c] = "absent"
        <3>1. exec'[e].req = r /\ exec'[e].pos = p /\ exec'[e].step = "fetch"
            BY <2>5, GoesTo
        <3> QED BY <1>1, <1>3, <2>1, <2>5, <3>1, CalmStaying
    <2> QED BY <1>3, <2>2, <2>3, <2>4, <2>5
<1> QED BY <1>1, <1>2, <1>3, CalmMoves

LEMMA SearchCalm ==
    ASSUME StagingIInv, CalmIInv, NEW e \in Executions, Search(e)
    PROVE  CalmIInv'
<1>1. PICK r, p, c : r = Req(e) /\ p = exec[e].pos /\ c = Comp(e)
    OBVIOUS
<1>2. /\ Runs(e) /\ UNCHANGED <<nexusVars, altered, job, todo, dirVars, redelivered, faults>>
      /\ missed' \in BOOLEAN /\ (missed => missed')
    BY DEF Search, Attempt, Missed, At, Runs, Steps, StagingIInv, StagingTypeOK
<1>3. CASE c \in indexed[Shared]
    <2>1. IF Kind[c] \in JsExternal THEN Advance(e) ELSE Goto(e, "load")
        BY <1>1, <1>3 DEF Search, Attempt
    <2>2. Kind[c] \in JsExternal => Kind[c] # "GIT"
        BY DEF JsExternal
    <2> QED BY <1>1, <1>2, <2>1, <2>2, CalmSearching
<1>4. CASE c \notin indexed[Shared]
    <2>1. /\ missed' = (missed \/ stored[Shared][c] # "absent")
          /\ exec' = [exec EXCEPT ![e].tries = @ + 1] \/ Goto(e, "fetch")
        BY <1>1, <1>4 DEF Search, Attempt, Missed
    <2> QED BY <1>1, <1>2, <2>1, CalmSearching
<1> QED BY <1>3, <1>4

\* The searches that fail when they find nothing look for what is there.
LEMMA OtherSearchesCalm ==
    ASSUME StagingIInv, CalmIInv, NEW e \in Executions, Confirm(e) \/ Look(e) \/ Address(e)
    PROVE  CalmIInv'
<1>1. PICK r, p, c : r = Req(e) /\ p = exec[e].pos /\ c = Comp(e)
    OBVIOUS
<1>2. /\ Runs(e) /\ UNCHANGED <<nexusVars, altered, job, todo, dirVars, redelivered, faults>>
      /\ missed' \in BOOLEAN /\ (missed => missed')
    BY DEF Confirm, Look, Address, Attempt, Missed, At, Runs, Steps, StagingIInv, StagingTypeOK
<1>3. PICK repo : repo = IF exec[e].step = "confirm" THEN Shared ELSE r
    OBVIOUS
<1>4. \/ UNCHANGED missed /\ Advance(e)
      \/ /\ missed' = (missed \/ stored[repo][c] # "absent")
         /\ exec' = [exec EXCEPT ![e].tries = @ + 1] \/ Fail(e)
      \/ /\ missed' = (missed \/ stored[repo][c] # "absent")
         /\ exec[e].step = "look" /\ Fail(e)
    BY <1>1, <1>3 DEF Confirm, Look, Address, Attempt, Missed, At
<1>5. exec' = [exec EXCEPT ![e].tries = @ + 1] \/ Advance(e) \/ (\E step : Goto(e, step))
    BY <1>4 DEF Fail
<1>6. ASSUME faults = 0, ~missed'
      PROVE  /\ stored[repo][c] # "absent"
             /\ ~(StepAt(r, p) = "search" /\ Kind[c] = "GIT")
    <2>1. /\ StagingTypeOK /\ r \in Requests /\ p \in Places(r) /\ c = Placed(r, p)
          /\ Underway(exec[e]) /\ exec[e].req = r /\ exec[e].pos = p
          /\ \A q \in Places(r) : Before(q, p) => Achieved(r, q)
          /\ exec[e].step = "look" => stored[r][c] # "absent"
        BY <1>1, <1>2, <1>6, CalmRun
    <2>2. exec[e].step \in {"confirm", "look", "address"}
        BY DEF Confirm, Look, Address, At
    <2>3. CASE exec[e].step = "confirm"
        BY <1>3, <2>1, <2>3 DEF Underway, JsExternal
    <2>4. CASE exec[e].step = "look"
        BY <1>3, <2>1, <2>4 DEF Underway
    <2>5. CASE exec[e].step = "address"
        <3>1. StepAt(r, p) = "address"
            BY <2>1, <2>5 DEF Underway
        <3>2. PICK b \in Places(r) : Before(b, p) /\ Placed(r, b) = c /\ StepAt(r, b) = "push"
            BY <2>1, <3>1, ReliesOnToo
        <3>3. stored[r][c] = "locked"
            BY <2>1, <3>2 DEF Achieved
        <3> QED BY <1>3, <2>5, <3>1, <3>3
    <2> QED BY <2>2, <2>3, <2>4, <2>5
<1>7. faults = 0 /\ ~missed' =>
          \/ exec' = [exec EXCEPT ![e].tries = @ + 1]
          \/ Advance(e) /\ ~(StepAt(r, p) = "search" /\ Kind[c] = "GIT")
    BY <1>4, <1>6
<1> QED BY <1>1, <1>2, <1>5, <1>7, CalmSearching

\* Only Prepare removes a file.
LEMMA CalmFetching ==
    ASSUME StagingIInv, CalmIInv, NEW e \in Executions, Fetch(e) \/ Load(e)
    PROVE  CalmIInv'
<1>1. PICK r, p, c : r = Req(e) /\ p = exec[e].pos /\ c = Comp(e)
    OBVIOUS
<1>2. PICK content : content = IF exec[e].step = "fetch" THEN Original(c) ELSE stored[Shared][c]
    OBVIOUS
<1>3. /\ Runs(e) /\ exec[e].step \in {"fetch", "load"}
      /\ UNCHANGED <<nexusVars, altered, job, todo, unpacked, redelivered, missed, faults>>
      /\ UNCHANGED stored /\ Write(e, content)
    BY <1>1, <1>2 DEF Fetch, Load, At, Runs, Steps, nexusVars
<1>4. /\ StagingTypeOK /\ r \in Requests /\ p \in Places(r) /\ c \in Components
      /\ Shared \in Repos
    BY <1>1, <1>3, WorkedOn DEF StagingIInv
<1>5. content \in Contents
    BY <1>2, <1>4 DEF Original, StagingTypeOK, Contents
<1>6. /\ Writes(e) /\ file'[r][c] = content
      /\ \A d \in Components \ {c} : file'[r][d] = file[r][d]
    <2>1. file' = [file EXCEPT ![r][c] = content]
        BY <1>1, <1>3 DEF Write
    <2>2. /\ file'[r][c] = content
          /\ \A d \in Components \ {c} : file'[r][d] = file[r][d]
        BY <1>4, <2>1 DEF StagingTypeOK
    <2>3. Writes(e)
        BY <1>1, <1>3, <1>5, <2>1, FileWrites
    <2> QED BY <2>2, <2>3
<1>7. Advance(e) \/ Goto(e, "upload") \/ Fail(e)
    BY <1>3 DEF Write
<1>8. \A f \in Executions \ {e} : exec'[f] = exec[f]
    BY <1>3, <1>7, GoesTo, OthersWait DEF Fail
<1>9. ASSUME faults = 0, ~missed' PROVE Calm(exec[e])'
    <2>1. /\ ~missed /\ Underway(exec[e]) /\ exec[e].req = r /\ exec[e].pos = p /\ c = Placed(r, p)
          /\ exec[e].step \in {"fetch", "upload"} /\ StepAt(r, p) = "search" =>
                 stored[Shared][c] = "absent" \/ Excused(r, c)
        BY <1>1, <1>3, <1>9, CalmRun
    <2>2. content = "locked"
        <3>1. altered = {}
            BY <1>9, Undisturbed
        <3>2. exec[e].step = "load" => stored[Shared][c] = "locked"
            BY <2>1 DEF Underway
        <3> QED BY <1>2, <1>3, <3>1, <3>2 DEF Original
    <2>3. Accepted(c, content)
        BY <2>2 DEF Accepted
    <2>4. \A d \in Components : file[r][d] # "absent" => file'[r][d] # "absent"
        BY <1>6, <2>2
    <2>5. CASE Advance(e)
        <3>1. job' = job /\ file'[r][c] # "absent"
            BY <1>3, <1>6, <2>2
        <3>2. faults = 0 /\ ~missed
            BY <1>9, <2>1
        <3> QED BY <1>1, <1>3, <2>4, <2>5, <3>1, <3>2, CalmAdvancing
    <2>6. CASE Goto(e, "upload") /\ exec[e].step = "fetch"
        <3>1. exec'[e].req = r /\ exec'[e].pos = p /\ exec'[e].step = "upload"
            BY <1>1, <1>3, <2>6, GoesTo
        <3> QED BY <1>1, <1>3, <1>9, <2>1, <2>4, <2>6, <3>1, CalmStaying
    <2>7. Advance(e) \/ (Goto(e, "upload") /\ exec[e].step = "fetch")
        BY <1>1, <1>3, <2>3, RunTyped DEF Write, At, Working
    <2> QED BY <2>5, <2>6, <2>7
<1> QED BY <1>1, <1>3, <1>6, <1>8, <1>9, CalmMoves

LEMMA UploadCalm ==
    ASSUME StagingIInv, CalmIInv, NEW e \in Executions, Upload(e)
    PROVE  CalmIInv'
<1>1. PICK r, p, c : r = Req(e) /\ p = exec[e].pos /\ c = Comp(e)
    OBVIOUS
<1>2. /\ Runs(e) /\ exec[e].step = "upload" /\ Shared \in Repos
      /\ UNCHANGED <<indexed, altered, job, todo, dirVars, redelivered, missed, faults>>
    BY DEF Upload, At, Runs, Steps, Repos
<1>3. UNCHANGED <<file, unpacked>> /\ faults' \in 0..MaxFaults /\ StagingTypeOK
    BY <1>2 DEF dirVars, StagingIInv, StagingTypeOK
<1>4. r \in Requests /\ c \in Components
    BY <1>1, <1>2, RunTyped
<1>5. CASE Refused(Shared, c) /\ Fail(e)
    <2>1. Writes(e) /\ UNCHANGED stored
        BY <1>2, <1>3, <1>5, Looking DEF Refused, nexusVars, StagingTypeOK
    <2>2. /\ exec'[e].req = r /\ exec'[e].pos = p /\ exec'[e].step = "failed"
          /\ \A f \in Executions \ {e} : exec'[f] = exec[f]
        BY <1>1, <1>2, <1>5, GoesTo DEF Fail
    <2>3. ASSUME faults = 0, ~missed' PROVE Calm(exec[e])'
        <3>1. Underway(exec[e]) /\ exec[e].req = r /\ exec[e].pos = p
              /\ (StepAt(r, p) = "search" => stored[Shared][c] = "absent" \/ Excused(r, c))
            BY <1>1, <1>2, <2>3, CalmRun
        <3>2. Excused(r, c)
            BY <1>2, <1>5, <3>1 DEF Underway, Refused
        <3> QED BY <1>1, <1>2, <1>3, <2>2, <2>3, <3>2, CalmStaying
    <2> QED BY <1>2, <2>1, <2>2, <2>3, CalmMoves
<1>6. CASE /\ Store(Shared, c, file[r][c])
           /\ IF Kind[c] \in JsExternal THEN Goto(e, "confirm") ELSE Advance(e)
    <2>1. Writes(e)
        BY <1>1, <1>2, <1>3, <1>6, StoreWrites
    <2>2. \A d \in Components : stored'[Shared][d] = stored[Shared][d] \/ d = c
        BY <1>2, <1>3, <1>4, <1>6 DEF Store, StagingTypeOK
    <2>3. \A f \in Executions \ {e} : exec'[f] = exec[f]
        BY <1>2, <1>6, GoesTo, OthersWait
    <2>4. ASSUME faults = 0, ~missed' PROVE Calm(exec[e])'
        <3>1. file[r][c] = "locked"
            BY <1>1, <1>2, <2>4, CalmRun DEF Underway
        <3>2. CASE Goto(e, "confirm")
            <4>1. exec'[e].req = r /\ exec'[e].pos = p /\ exec'[e].step = "confirm"
                BY <1>1, <1>2, <3>2, GoesTo
            <4> QED BY <1>1, <1>2, <1>3, <2>4, <4>1, CalmStaying
        <3>3. CASE Advance(e)
            BY <1>1, <1>2, <1>3, <2>4, <3>1, <3>3, CalmAdvancing
        <3> QED BY <1>6, <3>2, <3>3
    <2> QED BY <1>1, <1>2, <2>1, <2>2, <2>3, <2>4, CalmMoves
<1> QED BY <1>1, <1>5, <1>6 DEF Upload

LEMMA PushCalm ==
    ASSUME StagingIInv, CalmIInv, NEW e \in Executions, Push(e)
    PROVE  CalmIInv'
<1>1. PICK r, p, c : r = Req(e) /\ p = exec[e].pos /\ c = Comp(e)
    OBVIOUS
<1>2. /\ Runs(e) /\ exec[e].step = "push"
      /\ UNCHANGED <<indexed, altered, job, todo, dirVars, redelivered, missed, faults>>
    BY DEF Push, At, Runs, Steps
<1>3. UNCHANGED <<file, unpacked>> /\ faults' \in 0..MaxFaults /\ StagingTypeOK
    BY <1>2 DEF dirVars, StagingIInv, StagingTypeOK
<1>4. r \in Requests /\ r \in Repos /\ r # Shared /\ c \in Components
    BY <1>1, <1>2, RunTyped, SharedAssumption
<1>5. CASE Refused(r, c) /\ Goto(e, "look")
    <2>1. Writes(e) /\ UNCHANGED stored /\ stored[r][c] # "absent"
        BY <1>2, <1>3, <1>5, Looking DEF Refused, nexusVars, StagingTypeOK
    <2>2. /\ exec'[e].req = r /\ exec'[e].pos = p /\ exec'[e].step = "look"
          /\ \A f \in Executions \ {e} : exec'[f] = exec[f]
        BY <1>1, <1>2, <1>5, GoesTo
    <2>3. faults = 0 /\ ~missed' => Calm(exec[e])'
        BY <1>1, <1>2, <1>3, <2>1, <2>2, CalmStaying
    <2> QED BY <1>2, <2>1, <2>2, <2>3, CalmMoves
<1>6. CASE Store(r, c, file[r][c]) /\ Advance(e)
    <2>1. Writes(e)
        BY <1>1, <1>2, <1>3, <1>4, <1>6, StoreWrites
    <2>2. \A d \in Components : stored'[Shared][d] = stored[Shared][d]
        BY <1>3, <1>4, <1>6 DEF Store, StagingTypeOK, Repos
    <2>3. \A f \in Executions \ {e} : exec'[f] = exec[f]
        BY <1>6, OthersWait
    <2>4. ASSUME faults = 0, ~missed' PROVE Calm(exec[e])'
        <3>1. StepAt(r, p) = "push"
            BY <1>1, <1>2, <2>4, CalmRun DEF Underway
        <3> QED BY <1>1, <1>2, <1>3, <1>6, <2>4, <3>1, CalmAdvancing
    <2> QED BY <1>2, <2>1, <2>2, <2>3, <2>4, CalmMoves
<1> QED BY <1>1, <1>5, <1>6 DEF Push

\* A Git dependency whose archive is gone was unpacked at another place of the job.
LEMMA PrepareCalm ==
    ASSUME StagingIInv, CalmIInv, NEW e \in Executions, Prepare(e)
    PROVE  CalmIInv'
<1>1. PICK r, p, c : r = Req(e) /\ p = exec[e].pos /\ c = Comp(e)
    OBVIOUS
<1>2. /\ Runs(e) /\ exec[e].step = "prepare"
      /\ UNCHANGED <<nexusVars, altered, job, todo, redelivered, missed, faults>>
      /\ UNCHANGED <<stored, indexed>> /\ StagingTypeOK /\ faults' \in 0..MaxFaults
    BY DEF Prepare, At, Runs, Steps, nexusVars, StagingIInv, StagingTypeOK
<1>3. r \in Requests /\ c \in Components
    BY <1>1, <1>2, RunTyped
<1>4. CASE file[r][c] = "absent" /\ Fail(e) /\ UNCHANGED dirVars
    <2>1. Writes(e) /\ UNCHANGED <<file, unpacked>>
        BY <1>2, <1>4, Looking DEF dirVars, StagingTypeOK
    <2>2. /\ exec'[e].req = r /\ exec'[e].pos = p /\ exec'[e].step = "failed"
          /\ \A f \in Executions \ {e} : exec'[f] = exec[f]
        BY <1>1, <1>2, <1>4, GoesTo DEF Fail
    <2>3. ASSUME faults = 0, ~missed' PROVE Calm(exec[e])'
        <3>1. /\ Underway(exec[e]) /\ exec[e].req = r /\ exec[e].pos = p
              /\ ArchivesKept(r, p) /\ p \in Places(r) /\ c = Placed(r, p)
            BY <1>1, <1>2, <2>3, CalmRun
        <3>2. StepAt(r, p) = "prepare"
            BY <1>2, <3>1 DEF Underway
        <3>3. PICK b \in Places(r) : Before(b, p) /\ Placed(r, b) = c /\ StepAt(r, b) = "search"
            BY <1>2, <1>3, <3>1, <3>2, ReliesOnToo
        <3>4. ~Before(p, p)
            BY <1>2, <1>3, <3>1, PlaceTyped DEF Before
        <3>5. GitTwice(r, c)
            BY <1>4, <3>1, <3>2, <3>3, <3>4 DEF ArchivesKept
        <3> QED BY <1>1, <1>2, <2>1, <2>2, <2>3, <3>5, CalmStaying DEF Excused
    <2> QED BY <1>2, <2>1, <2>2, <2>3, CalmMoves
<1>5. CASE /\ unpacked' = [unpacked EXCEPT ![r] = @ \cup {c}]
           /\ file' = [file EXCEPT ![r][c] = "absent"]
           /\ Advance(e)
    <2>1. /\ unpacked' \in [Requests -> SUBSET Components]
          /\ \A q \in Requests : unpacked[q] \subseteq unpacked'[q]
        BY <1>2, <1>3, <1>5 DEF StagingTypeOK
    <2>2. /\ file' \in [Requests -> [Components -> Contents]]
          /\ \A q \in Requests \ {r} : file'[q] = file[q]
          /\ \A d \in Components : d # c => file'[r][d] = file[r][d]
        BY <1>2, <1>3, <1>5 DEF StagingTypeOK, Contents
    <2>3. Writes(e)
        BY <1>1, <1>2, <2>1, <2>2 DEF Writes, StagingIInv, StagingTypeOK, Orderly
    <2>4. \A f \in Executions \ {e} : exec'[f] = exec[f]
        BY <1>5, OthersWait
    <2>5. ASSUME faults = 0, ~missed' PROVE Calm(exec[e])'
        <3>1. StepAt(r, p) = "prepare"
            BY <1>1, <1>2, <2>5, CalmRun DEF Underway
        <3> QED BY <1>1, <1>2, <1>5, <2>2, <2>5, <3>1, CalmAdvancing
    <2> QED BY <1>2, <2>3, <2>4, <2>5, CalmMoves
<1> QED BY <1>1, <1>4, <1>5 DEF Prepare

LEMMA DownloadCalm ==
    ASSUME StagingIInv, CalmIInv, NEW e \in Executions, Download(e)
    PROVE  CalmIInv'
<1>1. PICK r, p, c : r = Req(e) /\ p = exec[e].pos /\ c = Comp(e)
    OBVIOUS
<1>2. PICK content : content = IF Kind[c] \in JsExternal THEN stored[Shared][c] ELSE "locked"
    OBVIOUS
<1>3. /\ Runs(e) /\ exec[e].step = "download" /\ Advance(e)
      /\ UNCHANGED <<nexusVars, altered, job, todo, unpacked, redelivered, missed, faults>>
      /\ UNCHANGED stored /\ file' = [file EXCEPT ![r][c] = content]
    BY <1>1, <1>2 DEF Download, At, Runs, Steps, nexusVars
<1>4. /\ StagingTypeOK /\ r \in Requests /\ c \in Components /\ Shared \in Repos
    BY <1>1, <1>3, WorkedOn DEF StagingIInv
<1>5. content \in Contents
    BY <1>2, <1>4 DEF StagingTypeOK, Contents
<1>6. /\ Writes(e) /\ file'[r][c] = content
      /\ \A d \in Components : d # c => file'[r][d] = file[r][d]
    <2>1. /\ file'[r][c] = content
          /\ \A d \in Components : d # c => file'[r][d] = file[r][d]
        BY <1>3, <1>4 DEF StagingTypeOK
    <2>2. Writes(e)
        BY <1>1, <1>3, <1>5, FileWrites
    <2> QED BY <2>1, <2>2
<1>7. \A f \in Executions \ {e} : exec'[f] = exec[f]
    BY <1>3, OthersWait
<1>8. ASSUME faults = 0, ~missed' PROVE Calm(exec[e])'
    <2>1. /\ p \in Places(r) /\ c = Placed(r, p) /\ StepAt(r, p) = "download"
          /\ \A q \in Places(r) : Before(q, p) => Achieved(r, q)
        BY <1>1, <1>3, <1>8, CalmRun DEF Underway
    <2>2. content = "locked"
        <3>1. CASE Kind[c] \in JsExternal
            <4>1. PICK b \in Places(r) :
                      Before(b, p) /\ Placed(r, b) = c /\ StepAt(r, b) = "search"
                BY <1>4, <2>1, <3>1, ReliesOn
            <4> QED BY <1>2, <2>1, <3>1, <4>1 DEF Achieved
        <3> QED BY <1>2, <3>1
    <2>3. \A d \in Components : file[r][d] # "absent" => file'[r][d] # "absent"
        BY <1>6, <2>2
    <2> QED BY <1>1, <1>3, <1>8, <2>1, <2>3, CalmAdvancing
<1> QED BY <1>3, <1>6, <1>7, <1>8, CalmMoves

LEMMA StartCalm ==
    ASSUME StagingIInv, CalmIInv, NEW e \in Executions, Start(e)
    PROVE  CalmIInv'
<1>1. PICK r \in todo : After(e, r, <<0, 0>>)
    BY DEF Start
<1>2. /\ StagingTypeOK /\ r \in Requests /\ <<0, 0>> \in Nat \X Nat
      /\ UNCHANGED <<stored, altered, job, file, redelivered, missed, faults>>
    BY DEF Start, StagingIInv, StagingTypeOK, nexusVars, dirVars
<1>3. PICK x \in Execution :
          /\ exec' = [exec EXCEPT ![e] = x] /\ x.req = r
          /\ x.step \in Steps \cup {"done"}
          /\ x.step \in Steps => /\ x.pos \in Places(r) /\ x.step = StepAt(r, x.pos)
                                 /\ x.step \in {"fetch", "search", "push", "address",
                                                "prepare", "download"}
                                 /\ \A q \in Places(r) : Before(q, x.pos) =>
                                        q = <<0, 0>> \/ Before(q, <<0, 0>>)
          /\ x.step = "done" => \A q \in Places(r) : q = <<0, 0>> \/ Before(q, <<0, 0>>)
    BY <1>1, <1>2, AfterPlace
<1>4. \A q \in Places(r) : q # <<0, 0>> /\ ~Before(q, <<0, 0>>)
    BY <1>2, PlaceTyped DEF Before
<1>5. exec'[e] = x /\ \A f \in Executions \ {e} : exec'[f] = exec[f]
    BY <1>2, <1>3 DEF StagingTypeOK
<1>6. \A q : /\ Places(q)' = Places(q)
             /\ \A y : StepAt(q, y)' = StepAt(q, y) /\ Placed(q, y)' = Placed(q, y)
    BY <1>2, SamePlaces
<1>7. \A q, d : (Excused(q, d)' <=> Excused(q, d)) /\ (GitTwice(q, d)' <=> GitTwice(q, d))
    BY <1>2 DEF Excused, Uses, GitTwice, Deps
<1>8. Calm(x)'
    <2>1. x.step \in Steps => ArchivesKept(r, x.pos)'
        BY <1>3, <1>4, <1>6 DEF ArchivesKept
    <2>2. x.step \notin {"failed", "look", "upload"} /\ (x.step = "fetch" => x.step \in Steps)
        BY <1>3 DEF Steps
    <2> QED BY <1>3, <1>6, <2>1, <2>2 DEF Calm
<1>9. \A y : Calm(y) => Calm(y)'
    <2>1. \A q, y : ArchivesKept(q, y) => ArchivesKept(q, y)'
        BY <1>2, <1>6, <1>7 DEF ArchivesKept
    <2> QED BY <1>2, <1>6, <1>7, <2>1 DEF Calm
<1>10. ASSUME faults' = 0, ~missed', NEW f \in Executions, Working(f)' PROVE Calm(exec[f])'
    <2>1. CASE f = e
        BY <1>5, <1>8, <2>1
    <2>2. CASE f # e
        BY <1>2, <1>5, <1>9, <1>10, <2>2 DEF CalmIInv, Working
    <2> QED BY <2>1, <2>2
<1> QED BY <1>2, <1>10 DEF CalmIInv

LEMMA CalmStarts == StagingInit => CalmIInv
BY DEF StagingInit, CalmIInv, Working

LEMMA CalmStep == StagingIInv /\ CalmIInv /\ [StagingNext]_vars => CalmIInv'
<1> SUFFICES ASSUME StagingIInv, CalmIInv, [StagingNext]_vars PROVE CalmIInv'
    OBVIOUS
<1>1. ASSUME NEW e \in Executions, ExecutionStep(e) PROVE CalmIInv'
    BY <1>1, StartCalm, SearchCalm, OtherSearchesCalm, CalmFetching, UploadCalm, PushCalm,
       PrepareCalm, DownloadCalm DEF ExecutionStep
<1>2. ASSUME Fault PROVE CalmIInv'
    <2>1. faults' # 0 /\ faults' > 0
        BY <1>2 DEF Fault, StagingIInv, StagingTypeOK
    <2> QED BY <2>1 DEF CalmIInv
<1>3. ASSUME NEW e \in Executions,
             CallFails(e) \/ AnswerIsLost(e) \/ WorkerDies(e) \/ Redelivered(e)
      PROVE  CalmIInv'
    BY <1>2, <1>3 DEF CallFails, AnswerIsLost, WorkerDies, Redelivered
<1>4. ASSUME UNCHANGED <<stored, altered, job, exec, file, redelivered, missed, faults>>
      PROVE  CalmIInv'
    <2>1. \A r, p : ArchivesKept(r, p) => ArchivesKept(r, p)'
        BY <1>4 DEF ArchivesKept, Places, StepAt, Placed, Deps, GitTwice
    <2>2. \A x : Calm(x) => Calm(x)'
        BY <1>4, <2>1, SameExcuses, SamePlaces DEF Calm
    <2> QED BY <1>4, <2>2 DEF CalmIInv, Working
<1>5. ASSUME NEW repo \in Repos, NEW c \in Components, IndexCatchesUp(repo, c)
      PROVE  CalmIInv'
    BY <1>4, <1>5 DEF IndexCatchesUp, dirVars
<1>6. ASSUME NEW c \in Components, OriginChanges(c) PROVE CalmIInv'
    BY <1>2, <1>6 DEF OriginChanges
<1>7. CASE UNCHANGED vars
    BY <1>4, <1>7 DEF vars, nexusVars, dirVars
<1> QED BY <1>1, <1>3, <1>5, <1>6, <1>7 DEF StagingNext

\* A task that no fault meets, whose searches find what is there, that shares no dependency with
\* another request and unpacks no Git repository twice, does not fail: what a step of its job
\* needs was left by an earlier one, and no step asks for what another has made impossible
\* (an upload under a name that is taken, an archive that was removed).
THEOREM UndisturbedStagingAlwaysSucceeds == StagingSpec => []UndisturbedStagingSucceeds
<1>1. StagingIInv /\ CalmIInv => UndisturbedStagingSucceeds
    <2> SUFFICES ASSUME StagingIInv, CalmIInv, NEW e \in Executions, At(e, "failed"),
                        ~(faults > 0), ~missed
                 PROVE  Excused(Req(e), Comp(e))
        BY DEF UndisturbedStagingSucceeds, Excused
    <2>1. faults = 0
        BY MaxFaultsAssumption DEF StagingIInv, StagingTypeOK
    <2>2. Calm(exec[e])
        BY <2>1 DEF CalmIInv, At, Working
    <2> QED BY <2>2 DEF Calm, At, Req, Comp, Placed
<1>2. StagingSpec => []CalmIInv
    BY StagingInvariance, CalmStarts, CalmStep, PTL DEF StagingSpec
<1> QED
    BY <1>1, <1>2, StagingInvariance, PTL

=============================================================================
