------------------------- MODULE RequestReadsProofs -------------------------
(***************************************************************************)
(* What a GET answers is right for any number of requests and any packages *)
(* they may have, although it looks at states and files at different       *)
(* moments.                                                                *)
(*                                                                         *)
(* RequestOK says how the files of a request go with its state.  A request *)
(* that was not disturbed is still in the state that the GET has seen, so  *)
(* that its files are there; what the GET has read of others may be        *)
(* nothing, but never a part.                                              *)
(*                                                                         *)
(* The other parts are about what is reported of a request: the content    *)
(* manifest and the SBOM, the purls of local dependencies, and the list of *)
(* all dependencies.                                                       *)
(***************************************************************************)
EXTENDS RequestReads, FiniteSetTheorems, WellFoundedInduction, TLAPS

States == {"in_progress", "complete", "failed", "stale"}
Gets == [endpoint : Endpoints \cup {"none"}, ids : SUBSET Ids,
         seen : [Ids -> States \cup {"none"}]]

\* The packages file is whole, and a request has files until it leaves "complete".
RequestOK(r) ==
    /\ packages[r] # NoFile => packages[r] = Rows(r) /\ ~Clashes(files[r])
    /\ state[r] = "complete" => packages[r] # NoFile
    /\ state[r] \in {"in_progress", "complete"} /\ packages[r] # NoFile =>
           r \in archive /\ r \in checksum

RequestsOK ==
    /\ files \in [Ids -> UNION {FileSets[r] : r \in Ids}]
    /\ packages = [r \in Ids |-> packages[r]]
    /\ \A r \in Ids : files[r] \in FileSets[r] /\ RequestOK(r)

\* The GET: where it is goes with what it is for.
GetTyped ==
    /\ get \in Gets
    /\ found = [r \in Ids |-> found[r]]
    /\ phase # "idle" => get.endpoint \in Endpoints
    /\ phase \in {"compare", "send"} => get.endpoint = "archive"
    /\ phase = "check" => todo # {}
    /\ phase = "load" => get.endpoint # "archive" /\ Now \in Ids
    /\ phase # "idle" /\ get.endpoint \notin Several =>
           \E x \in Ids : get.ids = {x} /\ (phase # "answered" => todo = {x})
    /\ status = 200 /\ get.endpoint # "archive" => todo = {}
    /\ phase \in {"look", "load", "compare", "send"} \/ status = 200 => StatesAreValid

\* What it has seen of requests that were not disturbed is still so.
GetSees ==
    /\ phase # "idle" => \A r \in Ids \ disturbed : state[r] = get.seen[r]
    /\ phase = "load" => Now \in disturbed \/ packages[Now] # NoFile
    /\ phase # "idle" /\ get.endpoint # "archive" =>
           \A r \in get.ids \ todo :
               found[r] = Rows(r) \/ (found[r] = {} /\ (r \in disturbed \/ get.seen[r] # "complete"))
    /\ phase = "answered" /\ status # 200 /\ (\A r \in get.ids : get.seen[r] = "complete") =>
           get.ids \cap disturbed # {}

ReadsIInv == ReadsTypeOK /\ RequestsOK /\ GetTyped /\ GetSees

-----------------------------------------------------------------------------
(* Initially *)

LEMMA ReadsInit == Init => ReadsIInv
<1> SUFFICES ASSUME Init PROVE ReadsIInv
    OBVIOUS
<1>1. NoGet \in Gets /\ get = NoGet /\ NoGet.ids = {}
    BY DEF Init, NoGet, Gets
<1>2. ReadsTypeOK
    BY <1>1 DEF Init, ReadsTypeOK
<1>3. RequestsOK
    BY DEF Init, RequestsOK, RequestOK
<1>4. GetTyped
    BY <1>1 DEF Init, GetTyped
<1>5. GetSees
    BY <1>1 DEF Init, GetSees
<1> QED BY <1>2, <1>3, <1>4, <1>5 DEF ReadsIInv

-----------------------------------------------------------------------------
(* The life of a request *)

\* A request changes: the GET is left alone, and the request is disturbed.
LEMMA Disturbs ==
    ASSUME ReadsIInv, NEW r \in Ids,
           UNCHANGED <<files, getVars>>,
           disturbed' = disturbed \cup {r},
           state' \in [Ids -> States],
           archive' \subseteq Ids, checksum' \subseteq Ids,
           packages' = [q \in Ids |-> packages'[q]],
           \A q \in Ids \ {r} : /\ state'[q] = state[q]
                                /\ packages'[q] = packages[q]
                                /\ q \in archive' <=> q \in archive
                                /\ q \in checksum' <=> q \in checksum,
           RequestOK(r)'
    PROVE  ReadsIInv'
<1>1. ReadsTypeOK'
    BY DEF ReadsIInv, ReadsTypeOK, getVars, States
<1>2. RequestsOK'
    <2>1. ASSUME NEW q \in Ids PROVE RequestOK(q)'
        <3>1. CASE q = r
            BY <3>1
        <3>2. CASE q # r
            BY <3>2 DEF ReadsIInv, RequestsOK, RequestOK, Rows, Clashes
        <3> QED BY <3>1, <3>2
    <2> QED BY <2>1 DEF ReadsIInv, RequestsOK
<1>3. GetTyped'
    BY DEF ReadsIInv, GetTyped, getVars, StatesAreValid, Now
<1>4. GetSees'
    <2>1. Now' = Now
        BY DEF getVars, Now
    <2>2. (phase # "idle" => \A q \in Ids \ disturbed : state[q] = get.seen[q])'
        BY DEF ReadsIInv, GetSees, getVars
    <2>3. (phase = "load" => Now \in disturbed \/ packages[Now] # NoFile)'
        <3> SUFFICES ASSUME phase = "load", Now \notin disturbed, Now # r
                     PROVE  packages'[Now] # NoFile
            BY <2>1 DEF getVars
        <3> QED BY DEF ReadsIInv, GetSees, GetTyped
    <2> QED BY <2>1, <2>2, <2>3 DEF ReadsIInv, GetSees, getVars, Rows
<1> QED BY <1>1, <1>2, <1>3, <1>4 DEF ReadsIInv

LEMMA ProcessKeeps ==
    ASSUME ReadsIInv, NEW r \in Ids, ProcessFetchedSources(r)
    PROVE  ReadsIInv'
<1>1. state' = state /\ state \in [Ids -> States] /\ files[r] \in FileSets[r]
    BY DEF ReadsIInv, ReadsTypeOK, RequestsOK, ProcessFetchedSources, States
<1>2. packages' = [packages EXCEPT ![r] = Rows(r)] /\ DOMAIN packages = Ids
    BY DEF ReadsIInv, RequestsOK, ProcessFetchedSources, Rows
<1>3. archive' \subseteq Ids /\ checksum' \subseteq Ids
    BY DEF ReadsIInv, ReadsTypeOK, ProcessFetchedSources
<1>4. RequestOK(r)'
    BY <1>1, <1>2, NoFileAssumption DEF RequestOK, ProcessFetchedSources, Rows, Clashes
<1>5. packages' = [q \in Ids |-> packages'[q]] /\ \A q \in Ids \ {r} : packages'[q] = packages[q]
    BY <1>2
<1> QED
    BY <1>1, <1>3, <1>4, <1>5, Disturbs DEF ProcessFetchedSources

\* Any other change of the state of a request.
LEMMA ChangeKeeps ==
    ASSUME ReadsIInv, NEW r \in Ids, NEW to \in States, Change(r, to),
           to \in {"complete", "in_progress"} => state[r] = "in_progress" /\ packages[r] # NoFile
    PROVE  ReadsIInv'
<1>1. state' \in [Ids -> States] /\ state'[r] = to /\ \A q \in Ids \ {r} : state'[q] = state[q]
    BY DEF ReadsIInv, ReadsTypeOK, Change, States
<1>2. archive' \subseteq Ids /\ checksum' \subseteq Ids
    BY DEF ReadsIInv, ReadsTypeOK, Change
<1>3. RequestOK(r)'
    BY <1>1 DEF ReadsIInv, RequestsOK, RequestOK, Change, Rows, Clashes
<1>4. packages' = packages /\ packages = [q \in Ids |-> packages[q]]
    BY DEF ReadsIInv, RequestsOK, Change
<1> QED
    BY <1>1, <1>2, <1>3, <1>4, Disturbs DEF Change

LEMMA DeletesKeep ==
    ASSUME ReadsIInv, NEW r \in Ids, DeleteFiles(r)
    PROVE  ReadsIInv'
<1>1. state' = state /\ state \in [Ids -> States] /\ state[r] = "stale"
    BY DEF ReadsIInv, ReadsTypeOK, DeleteFiles, States
<1>2. /\ archive' \subseteq Ids /\ checksum' \subseteq Ids
      /\ \A q \in Ids \ {r} : (q \in archive' <=> q \in archive)
                              /\ (q \in checksum' <=> q \in checksum)
    BY DEF ReadsIInv, ReadsTypeOK, DeleteFiles
<1>3. /\ DOMAIN packages = Ids
      /\ packages' = packages \/ packages' = [packages EXCEPT ![r] = NoFile]
    BY DEF ReadsIInv, RequestsOK, DeleteFiles
<1>4. RequestOK(r)'
    BY <1>1, <1>3 DEF ReadsIInv, RequestsOK, RequestOK, DeleteFiles, Rows, Clashes
<1>5. packages' = [q \in Ids |-> packages'[q]] /\ \A q \in Ids \ {r} : packages'[q] = packages[q]
    BY <1>3 DEF ReadsIInv, RequestsOK
<1> QED
    BY <1>1, <1>2, <1>4, <1>5, Disturbs DEF DeleteFiles

-----------------------------------------------------------------------------
(* The GET *)

\* An endpoint of one request looks at this request.
LEMMA NowIsTheOnlyOne ==
    ASSUME NEW x \in Ids, todo = {x}
    PROVE  Now = x
BY IdsAssumption DEF Now

LEMMA GetLeavesRequests ==
    ASSUME RequestsOK, UNCHANGED requestVars
    PROVE  RequestsOK'
BY DEF RequestsOK, RequestOK, requestVars, Rows, Clashes

\* What the GET has seen and read, while it only moves on.
LEMMA SightLasts ==
    ASSUME GetSees, phase # "idle", UNCHANGED <<files, state, get, todo, found, disturbed>>
    PROVE  /\ \A r \in Ids \ disturbed' : state'[r] = get'.seen[r]
           /\ get'.endpoint # "archive" =>
                  \A r \in get'.ids \ todo' :
                      found'[r] = Rows(r)'
                      \/ (found'[r] = {} /\ (r \in disturbed' \/ get'.seen[r] # "complete"))
<1>1. \A r : Rows(r)' = Rows(r)
    BY DEF Rows
<1> QED BY <1>1 DEF GetSees

LEMMA BeginKeeps ==
    ASSUME ReadsIInv, NEW endpoint \in Endpoints, NEW ids \in (SUBSET Ids) \ {{}},
           Begin(endpoint, ids)
    PROVE  ReadsIInv'
<1>1. get' = [endpoint |-> endpoint, ids |-> ids, seen |-> state] /\ get' # NoGet
    BY DEF Begin, NoGet, Endpoints
<1>2. ReadsTypeOK'
    BY <1>1 DEF ReadsIInv, ReadsTypeOK, Begin, requestVars
<1>3. RequestsOK'
    BY GetLeavesRequests DEF ReadsIInv, Begin
<1>4. GetTyped'
    <2>1. get' \in Gets
        BY <1>1 DEF ReadsIInv, ReadsTypeOK, Gets, States
    <2> QED BY <1>1, <2>1 DEF GetTyped, Begin
<1>5. GetSees'
    BY <1>1 DEF GetSees, Begin, requestVars
<1> QED BY <1>2, <1>3, <1>4, <1>5 DEF ReadsIInv

LEMMA CheckKeeps ==
    ASSUME ReadsIInv, CheckState
    PROVE  ReadsIInv'
<1>1. ReadsTypeOK'
    BY DEF ReadsIInv, ReadsTypeOK, GetTyped, CheckState, requestVars, Respond
<1>2. RequestsOK'
    BY GetLeavesRequests DEF ReadsIInv, CheckState
<1>3. GetTyped'
    BY DEF ReadsIInv, ReadsTypeOK, GetTyped, CheckState, Respond, StatesAreValid
<1>4. GetSees'
    <2>1. get.endpoint \in Endpoints /\ "complete" \in Valid(get.endpoint)
        BY DEF ReadsIInv, GetTyped, CheckState, Endpoints, Valid, Several
    <2>2. phase' \in {"look", "answered"} /\ phase # "idle" /\ (phase' = "look" => StatesAreValid)
          /\ (phase' = "answered" => ~StatesAreValid)
        BY DEF CheckState, Respond
    <2>3. UNCHANGED <<files, state, get, todo, found, disturbed>>
        BY DEF CheckState, requestVars
    <2>4. phase' = "answered" => \E r \in get.ids : get.seen[r] # "complete"
        BY <2>1, <2>2 DEF StatesAreValid
    <2>5. phase' = "answered" /\ (\A r \in get.ids : get.seen[r] = "complete") => FALSE
        BY <2>4
    <2> QED BY <2>2, <2>3, <2>5, SightLasts DEF ReadsIInv, GetSees
<1> QED BY <1>1, <1>2, <1>3, <1>4 DEF ReadsIInv

\* The next request is looked at, with all its rows, or with none if it has lost them.
LEMMA ProceedKeeps ==
    ASSUME ReadsIInv, NEW r \in Ids, NEW rows, phase \in {"look", "load"}, r = Now,
           get.endpoint # "archive", Proceed(r, rows), UNCHANGED <<requestVars, get, disturbed>>,
           rows = Rows(r) \/ (rows = {} /\ (r \in disturbed \/ get.seen[r] # "complete"))
    PROVE  ReadsIInv'
<1>1. ReadsTypeOK'
    BY DEF ReadsIInv, ReadsTypeOK, Proceed, requestVars, Respond
<1>2. RequestsOK'
    BY GetLeavesRequests DEF ReadsIInv
<1>3. GetTyped'
    <2>1. found' = [q \in Ids |-> found'[q]]
        BY DEF ReadsIInv, GetTyped, Proceed
    <2>2. (phase # "idle" /\ get.endpoint \notin Several =>
              \E x \in Ids : get.ids = {x} /\ (phase # "answered" => todo = {x}))'
        <3> SUFFICES ASSUME get.endpoint \notin Several
                     PROVE  \E x \in Ids : get.ids = {x} /\ (phase' # "answered" => todo' = {x})
            OBVIOUS
        <3>1. PICK x \in Ids : get.ids = {x} /\ todo = {x}
            BY DEF ReadsIInv, GetTyped
        <3>2. r = x
            BY <3>1, NowIsTheOnlyOne
        <3> QED BY <3>1, <3>2 DEF Proceed, Respond
    <2> QED BY <2>1, <2>2 DEF ReadsIInv, GetTyped, Proceed, Respond, StatesAreValid
<1>4. GetSees'
    <2>1. \A q \in get.ids \ todo' : q = r \/ q \in get.ids \ todo
        BY DEF Proceed
    <2>2. found'[r] = rows /\ \A q \in Ids \ {r} : found'[q] = found[q]
        BY DEF ReadsIInv, GetTyped, Proceed
    <2>3. get.ids \subseteq Ids
        BY DEF ReadsIInv, GetTyped, Gets
    <2>4. \A q \in get.ids \ todo' : found'[q] = Rows(q)
              \/ (found'[q] = {} /\ (q \in disturbed \/ get.seen[q] # "complete"))
        BY <2>1, <2>2, <2>3 DEF ReadsIInv, GetSees
    <2>5. phase' \in {"look", "answered"} /\ (phase' = "answered" => status' = 200)
        BY DEF Proceed, Respond
    <2>6. UNCHANGED <<files, state, get, disturbed>>
        BY DEF requestVars
    <2>7. (phase # "idle" => \A q \in Ids \ disturbed : state[q] = get.seen[q])'
        BY <2>6 DEF ReadsIInv, GetSees
    <2>8. (\A q \in get.ids \ todo : found[q] = Rows(q)
              \/ (found[q] = {} /\ (q \in disturbed \/ get.seen[q] # "complete")))'
        BY <2>4, <2>6 DEF Rows
    <2> QED BY <2>5, <2>7, <2>8 DEF GetSees
<1> QED BY <1>1, <1>2, <1>3, <1>4 DEF ReadsIInv

\* A step between two looks at the files of the same request.
LEMMA MovesOn ==
    ASSUME ReadsIInv, UNCHANGED <<requestVars, get, todo, found, disturbed>>,
           phase \in {"look", "compare", "send"},
           \/ phase' \in {"load", "compare", "send"} /\ status' = 0
           \/ Respond(200) \/ Respond(404) \/ Respond(500),
           get.endpoint \notin Several \/ phase' = "load",
           phase' \in {"compare", "send"} => get.endpoint = "archive",
           phase' = "load" => get.endpoint # "archive" /\ Now \in Ids
                                  /\ (Now \in disturbed \/ packages[Now] # NoFile),
           Respond(200) => get.endpoint = "archive",
           Respond(404) \/ Respond(500) =>
               \A x \in Ids : get.ids = {x} /\ Now = x /\ get.seen[x] = "complete" => x \in disturbed
    PROVE  ReadsIInv'
<1>1. ReadsTypeOK'
    BY DEF ReadsIInv, ReadsTypeOK, requestVars, Respond
<1>2. RequestsOK'
    BY GetLeavesRequests DEF ReadsIInv
<1>3. GetTyped'
    BY DEF ReadsIInv, ReadsTypeOK, GetTyped, Respond, StatesAreValid, Now
<1>4. GetSees'
    <2>1. Now' = Now
        BY DEF Now
    <2>2. (phase = "answered" /\ status # 200 /\ (\A q \in get.ids : get.seen[q] = "complete") =>
              get.ids \cap disturbed # {})'
        <3> SUFFICES ASSUME Respond(404) \/ Respond(500),
                            \A q \in get.ids : get.seen[q] = "complete"
                     PROVE  get.ids \cap disturbed # {}
            BY DEF Respond
        <3>1. PICK x \in Ids : get.ids = {x} /\ todo = {x}
            BY DEF ReadsIInv, GetTyped, Respond
        <3> QED BY <3>1, NowIsTheOnlyOne
    <2>3. UNCHANGED <<files, state, packages, get, todo, found, disturbed>> /\ phase # "idle"
        BY DEF requestVars
    <2>4. (phase = "load" => Now \in disturbed \/ packages[Now] # NoFile)'
        BY <2>1, <2>3
    <2> QED BY <2>2, <2>3, <2>4, SightLasts DEF ReadsIInv, GetSees
<1> QED BY <1>1, <1>2, <1>3, <1>4 DEF ReadsIInv

LEMMA LookKeeps ==
    ASSUME ReadsIInv, NEW r \in Ids, Look(r)
    PROVE  ReadsIInv'
<1>1. get.endpoint # "archive"
    BY DEF Look, Several
<1>2. r \in disturbed \/ state[r] = get.seen[r]
    BY DEF ReadsIInv, GetSees, Look
<1>3. CASE state[r] = "complete"
    <2>1. /\ UNCHANGED <<requestVars, get, todo, found, status, disturbed>>
          /\ phase = "look" /\ phase' = "load" /\ r = Now
        BY <1>3 DEF Look, IsComplete
    <2>2. packages[r] # NoFile
        BY <1>3 DEF ReadsIInv, RequestsOK, RequestOK
    <2>3. status' = 0
        BY <2>1 DEF ReadsIInv, ReadsTypeOK
    <2> QED BY <1>1, <2>1, <2>2, <2>3, MovesOn DEF Respond
<1>4. CASE state[r] # "complete"
    BY <1>1, <1>2, <1>4, ProceedKeeps DEF Look, IsComplete
<1> QED BY <1>3, <1>4

LEMMA LoadKeeps ==
    ASSUME ReadsIInv, NEW r \in Ids, Load(r)
    PROVE  ReadsIInv'
<1>1. get.endpoint # "archive"
    BY DEF ReadsIInv, GetTyped, Load
<1>2. packages[r] = NoFile => r \in disturbed
    BY DEF ReadsIInv, GetSees, Load
<1>3. packages[r] # NoFile => packages[r] = Rows(r)
    BY DEF ReadsIInv, RequestsOK, RequestOK
<1> QED BY <1>1, <1>2, <1>3, ProceedKeeps DEF Load

\* A complete request that was not disturbed has its files.
LEMMA CompleteHasFiles ==
    ASSUME ReadsIInv, phase # "idle", NEW r \in Ids, r \notin disturbed, get.seen[r] = "complete"
    PROVE  packages[r] # NoFile /\ r \in archive /\ r \in checksum
BY DEF ReadsIInv, GetSees, RequestsOK, RequestOK

LEMMA ListKeeps ==
    ASSUME ReadsIInv, NEW r \in Ids, ListPackages(r)
    PROVE  ReadsIInv'
<1>1. /\ UNCHANGED <<requestVars, get, todo, found, disturbed>> /\ phase = "look"
      /\ get.endpoint = "packages" /\ get.endpoint \notin Several /\ r = Now
    BY DEF ListPackages, Several
<1>2. CASE packages[r] # NoFile
    <2>1. phase' = "load" /\ status' = 0
        BY <1>1, <1>2 DEF ReadsIInv, ReadsTypeOK, ListPackages
    <2> QED BY <1>1, <1>2, <2>1, MovesOn DEF Respond
<1>3. CASE packages[r] = NoFile
    <2>1. Respond(404) \/ Respond(500)
        BY <1>3 DEF ListPackages
    <2>2. get.seen[r] = "complete" => r \in disturbed
        BY <1>1, <1>3, CompleteHasFiles
    <2> QED BY <1>1, <2>1, <2>2, MovesOn DEF Respond
<1> QED BY <1>2, <1>3

\* The three steps of a download.
LEMMA DownloadKeeps ==
    ASSUME ReadsIInv, NEW r \in Ids, HashArchive(r) \/ ReadChecksum(r) \/ SendArchive(r)
    PROVE  ReadsIInv'
<1>1. /\ UNCHANGED <<requestVars, get, todo, found, disturbed>>
      /\ phase \in {"look", "compare", "send"} /\ r = Now
      /\ get.endpoint = "archive" /\ get.endpoint \notin Several
    BY DEF ReadsIInv, GetTyped, HashArchive, ReadChecksum, SendArchive, Several
<1>2. CASE r \in archive /\ r \in checksum
    <2>1. (phase' \in {"compare", "send"} /\ status' = 0) \/ Respond(200)
        BY <1>1, <1>2 DEF ReadsIInv, ReadsTypeOK, HashArchive, ReadChecksum, SendArchive
    <2> QED BY <1>1, <2>1, MovesOn DEF Respond
<1>3. CASE r \notin archive \/ r \notin checksum
    <2>1. (phase' \in {"compare", "send"} /\ status' = 0) \/ Respond(200) \/ Respond(500)
        BY <1>1, <1>3 DEF ReadsIInv, ReadsTypeOK, HashArchive, ReadChecksum, SendArchive
    <2>2. get.seen[r] = "complete" => r \in disturbed
        BY <1>1, <1>3, CompleteHasFiles
    <2> QED BY <1>1, <2>1, <2>2, MovesOn DEF Respond
<1> QED BY <1>2, <1>3

LEMMA EndKeeps ==
    ASSUME ReadsIInv, End
    PROVE  ReadsIInv'
<1>1. NoGet \in Gets /\ NoGet.ids = {}
    BY DEF NoGet, Gets
<1>2. ReadsTypeOK'
    BY <1>1 DEF ReadsIInv, ReadsTypeOK, End, requestVars
<1>3. RequestsOK'
    BY GetLeavesRequests DEF ReadsIInv, End
<1>4. GetTyped'
    BY <1>1 DEF GetTyped, End
<1>5. GetSees'
    BY <1>1 DEF GetSees, End
<1> QED BY <1>2, <1>3, <1>4, <1>5 DEF ReadsIInv

-----------------------------------------------------------------------------
(* Every step *)

LEMMA ReadsStep == ReadsIInv /\ [Next]_vars => ReadsIInv'
<1> SUFFICES ASSUME ReadsIInv, [Next]_vars PROVE ReadsIInv'
    OBVIOUS
<1>1. ASSUME NEW r \in Ids, ProcessFetchedSources(r) PROVE ReadsIInv'
    BY <1>1, ProcessKeeps
<1>2. ASSUME NEW r \in Ids, Complete(r) PROVE ReadsIInv'
    BY <1>2, ChangeKeeps DEF Complete, States
<1>3. ASSUME NEW r \in Ids, FailRequest(r) PROVE ReadsIInv'
    BY <1>3, ChangeKeeps DEF FailRequest, States
<1>4. ASSUME NEW r \in Ids, Expire(r) PROVE ReadsIInv'
    BY <1>4, ChangeKeeps DEF Expire, States
<1>5. ASSUME NEW r \in Ids, DeleteFiles(r) PROVE ReadsIInv'
    BY <1>5, DeletesKeep
<1>6. ASSUME NEW r \in Ids, Look(r) \/ Load(r) \/ ListPackages(r) PROVE ReadsIInv'
    BY <1>6, LookKeeps, LoadKeeps, ListKeeps
<1>7. ASSUME NEW r \in Ids, HashArchive(r) \/ ReadChecksum(r) \/ SendArchive(r) PROVE ReadsIInv'
    BY <1>7, DownloadKeeps
<1>8. ASSUME NEW endpoint \in Endpoints, NEW ids \in (SUBSET Ids) \ {{}}, Begin(endpoint, ids)
      PROVE  ReadsIInv'
    BY <1>8, BeginKeeps
<1>9. CASE CheckState
    BY <1>9, CheckKeeps
<1>10. CASE End
    BY <1>10, EndKeeps
<1>11. CASE UNCHANGED vars
    <2>1. UNCHANGED <<requestVars, get, todo, phase, found, status, disturbed>>
        BY <1>11 DEF vars, getVars
    <2>2. RequestsOK'
        BY <2>1, GetLeavesRequests DEF ReadsIInv
    <2>3. GetTyped'
        BY <2>1 DEF ReadsIInv, GetTyped, StatesAreValid, Now
    <2>4. GetSees'
        <3>1. UNCHANGED <<files, state, packages>> /\ Now' = Now
            BY <2>1 DEF requestVars, Now
        <3>2. CASE phase = "idle"
            BY <2>1, <3>1, <3>2 DEF ReadsIInv, GetSees
        <3>3. CASE phase # "idle"
            BY <2>1, <3>1, <3>3, SightLasts DEF ReadsIInv, GetSees
        <3> QED BY <3>2, <3>3
    <2>5. ReadsTypeOK'
        BY <2>1 DEF ReadsIInv, ReadsTypeOK, requestVars
    <2> QED BY <2>2, <2>3, <2>4, <2>5 DEF ReadsIInv
<1> QED
    BY <1>1, <1>2, <1>3, <1>4, <1>5, <1>6, <1>7, <1>8, <1>9, <1>10, <1>11 DEF Next

LEMMA ReadsInvariance == ReadsSpec => []ReadsIInv
BY ReadsInit, ReadsStep, PTL DEF ReadsSpec

-----------------------------------------------------------------------------
(* Theorems *)

\* Type correctness of the requests and of the GET that reads them.
THEOREM ReadsTypeCorrect == ReadsSpec => []ReadsTypeOK
<1>1. ReadsIInv => ReadsTypeOK
    BY DEF ReadsIInv
<1> QED
    BY <1>1, ReadsInvariance, PTL

\* A client that asks for complete requests which stay complete gets all of their packages, or
\* their archive, however the answer is put together (api_v1.py).
THEOREM CompleteRequestsAreAlwaysServed == ReadsSpec => []CompleteRequestsAreServed
<1>1. ReadsIInv => CompleteRequestsAreServed
    <2> SUFFICES ASSUME ReadsIInv, phase = "answered", get.ids \cap disturbed = {},
                        \A r \in get.ids : get.seen[r] = "complete"
                 PROVE  /\ status = 200
                        /\ get.endpoint # "archive" => \A r \in get.ids : found[r] = Rows(r)
        BY DEF CompleteRequestsAreServed
    <2>1. status = 200
        BY DEF ReadsIInv, GetSees
    <2>2. get.endpoint # "archive" => todo = {}
        BY <2>1 DEF ReadsIInv, GetTyped
    <2> QED BY <2>1, <2>2 DEF ReadsIInv, GetSees
<1> QED
    BY <1>1, ReadsInvariance, PTL

\* A content manifest or SBOM of many requests has of each of them all packages, or none if it
\* expired after the states were checked (request_manifests, sbom).
THEOREM CombinedAnswersAreAlwaysWhole == ReadsSpec => []CombinedAnswersAreWhole
<1>1. ReadsIInv => CombinedAnswersAreWhole
    <2> SUFFICES ASSUME ReadsIInv, phase = "answered", status = 200, get.endpoint \in Several,
                        NEW r \in get.ids
                 PROVE  found[r] = Rows(r) \/ (found[r] = {} /\ r \in disturbed)
        BY DEF CombinedAnswersAreWhole, Answered
    <2>1. get.endpoint # "archive" /\ todo = {}
        BY DEF ReadsIInv, GetTyped, Several
    <2>2. get.seen[r] = "complete"
        BY DEF ReadsIInv, GetTyped, StatesAreValid, Valid, Several
    <2> QED BY <2>1, <2>2 DEF ReadsIInv, GetSees
<1> QED
    BY <1>1, ReadsInvariance, PTL

\* However many package managers a request has, its packages file has what each of them
\* reported, and no two packages with the same key (aggregate_packages_data).
THEOREM PackagesAreAlwaysAggregated == ReadsSpec => []PackagesAreAggregated
<1>1. ReadsIInv => PackagesAreAggregated
    <2> SUFFICES ASSUME ReadsIInv, NEW r \in Ids, packages[r] # NoFile
                 PROVE  /\ packages[r] = Rows(r)
                        /\ \A p, q \in packages[r] : PackageKey(p) = PackageKey(q) => p = q
        BY DEF PackagesAreAggregated
    <2>1. packages[r] = UNION files[r] /\ ~Clashes(files[r]) /\ files[r] \in FileSets[r]
        BY DEF ReadsIInv, RequestsOK, RequestOK, Rows
    <2>2. ASSUME NEW p \in packages[r], NEW q \in packages[r], PackageKey(p) = PackageKey(q)
          PROVE  p = q
        <3>1. PICK f \in files[r], g \in files[r] : p \in f /\ q \in g
            BY <2>1
        <3>2. f = g
            BY <2>1, <2>2, <3>1 DEF Clashes, Clash
        <3> QED BY <2>1, <2>2, <3>1, <3>2, FileSetsAssumption
    <2> QED BY <2>1, <2>2 DEF Rows
<1> QED
    BY <1>1, ReadsInvariance, PTL

-----------------------------------------------------------------------------
(***************************************************************************)
(* Folds: what the recursive functions of the community modules compute,   *)
(* step by step.  That they exist at all goes by induction over the size   *)
(* of a set, and the induction by the well-foundedness of inclusion.       *)
(***************************************************************************)

\* What holds for 0 and goes over from each number to the next holds up to n: the numbers up to
\* one for which it does not hold would be ever fewer.
LEMMA UpTo ==
    ASSUME NEW n \in Nat, NEW Good, 0 \in Good,
           \A k \in 1..n : k - 1 \in Good => k \in Good
    PROVE  0..n \subseteq Good
<1> SUFFICES ASSUME NEW b \in 0..n, b \notin Good PROVE FALSE
    OBVIOUS
<1> DEFINE Bad == {k \in 0..n : k \notin Good}
           Below(m) == {k \in Bad : k < m}
           A == {Below(m) : m \in Bad}
           R == StrictSubsetOrdering(Bad)
<1>1. IsFiniteSet(Bad)
    <2>1. IsFiniteSet(0..n)
        BY FS_Interval
    <2> QED BY <2>1, FS_Subset
<1>2. IsWellFoundedOn(R, SUBSET Bad)
    <2> HIDE DEF Bad
    <2> QED BY <1>1, FS_StrictSubsetOrderingWellFounded, FS_FiniteSubsetsOfFinite
<1>3. A \subseteq SUBSET Bad /\ A # {}
    OBVIOUS
<1>4. PICK a \in A : \A c \in A : <<c, a>> \notin R
    <2> HIDE DEF A, R, Bad
    <2> QED BY <1>2, <1>3, WFMin
<1>5. PICK m \in Bad : a = Below(m)
    BY <1>4
<1>6. m - 1 \in Bad
    BY <1>5
<1>7. Below(m - 1) \subseteq Below(m) /\ m - 1 \in Below(m) /\ m - 1 \notin Below(m - 1)
    BY <1>5, <1>6
<1>8. <<Below(m - 1), a>> \in R /\ Below(m - 1) \in A
    <2>1. Below(m - 1) \in A /\ Below(m - 1) \in SUBSET Bad /\ Below(m) \in SUBSET Bad
        BY <1>6
    <2> HIDE DEF Below, Bad
    <2> QED BY <1>5, <1>7, <2>1 DEF StrictSubsetOrdering
<1> QED BY <1>4, <1>8

\* A fold over a finite set has a value for each of its subsets.
FoldOver(S, base, choose, step, f) ==
    f = [s \in SUBSET S |->
            IF s = {} THEN base ELSE step[<<choose[s], f[s \ {choose[s]}]>>]]

\* This function exists, whatever is taken first.
LEMMA FoldExists ==
    ASSUME NEW S, IsFiniteSet(S), NEW X, NEW base \in X, NEW choose, NEW step,
           \A s \in SUBSET S : s # {} => choose[s] \in s,
           \A x \in S : \A y \in X : step[<<x, y>>] \in X
    PROVE  \E f \in [SUBSET S -> X] : FoldOver(S, base, choose, step, f)
<1> DEFINE n == Cardinality(S)
           Right(f, s) == f[s] = IF s = {} THEN base ELSE step[<<choose[s], f[s \ {choose[s]}]>>]
           Good == {k \in 0..n : \E f \in [SUBSET S -> X] :
                                     \A s \in SUBSET S : Cardinality(s) <= k => Right(f, s)}
<1>1. n \in Nat
    BY FS_CardinalityType
<1>2. \A s \in SUBSET S : IsFiniteSet(s) /\ Cardinality(s) \in 0..n
    BY <1>1, FS_Subset, FS_CardinalityType
<1>3. \A s \in SUBSET S : s # {} =>
          /\ s \ {choose[s]} \in SUBSET S
          /\ Cardinality(s) = Cardinality(s \ {choose[s]}) + 1
    <2> SUFFICES ASSUME NEW s \in SUBSET S, s # {}
                 PROVE  Cardinality(s) = Cardinality(s \ {choose[s]}) + 1
        OBVIOUS
    <2>1. Cardinality(s \ {choose[s]}) = Cardinality(s) - 1
        BY <1>2, FS_RemoveElement
    <2> QED BY <1>2, <2>1
<1>4. 0 \in Good
    <2> DEFINE f == [s \in SUBSET S |-> base]
    <2>1. f \in [SUBSET S -> X]
        OBVIOUS
    <2>2. \A s \in SUBSET S : Cardinality(s) <= 0 => s = {}
        BY <1>1, <1>2, FS_EmptySet
    <2>3. \A s \in SUBSET S : Cardinality(s) <= 0 => Right(f, s)
        BY <2>2
    <2> HIDE DEF f, Right
    <2> QED BY <1>1, <2>1, <2>3
<1>5. ASSUME NEW k \in 1..n, k - 1 \in Good PROVE k \in Good
    <2>1. PICK f \in [SUBSET S -> X] :
              \A s \in SUBSET S : Cardinality(s) <= k - 1 => Right(f, s)
        <3> HIDE DEF Right
        <3> QED BY <1>5
    <2> DEFINE g == [s \in SUBSET S |->
                        IF s = {} THEN base
                        ELSE step[<<choose[s], f[s \ {choose[s]}]>>]]
    <2>2. g \in [SUBSET S -> X]
        BY <1>3
    <2>3. \A s \in SUBSET S : Cardinality(s) <= k - 1 => g[s] = f[s]
        BY <2>1
    <2>4. ASSUME NEW s \in SUBSET S, Cardinality(s) <= k PROVE Right(g, s)
        <3>1. CASE s = {}
            BY <3>1
        <3>2. CASE s # {}
            <4>1. Cardinality(s \ {choose[s]}) <= k - 1 /\ s \ {choose[s]} \in SUBSET S
                BY <1>1, <1>2, <1>3, <2>4, <3>2
            <4>2. g[s \ {choose[s]}] = f[s \ {choose[s]}]
                BY <2>3, <4>1
            <4>3. g[s] = step[<<choose[s], f[s \ {choose[s]}]>>]
                BY <3>2
            <4> HIDE DEF g
            <4> QED BY <3>2, <4>2, <4>3
        <3> QED BY <3>1, <3>2
    <2> HIDE DEF g, Right
    <2> QED BY <1>5, <2>2, <2>4
<1>6. n \in Good
    <2> HIDE DEF Good
    <2> QED BY <1>1, <1>4, <1>5, UpTo
<1>7. PICK f \in [SUBSET S -> X] : \A s \in SUBSET S : Cardinality(s) <= n => Right(f, s)
    <2> HIDE DEF Right
    <2> QED BY <1>6
<1>8. \A s \in SUBSET S : Right(f, s)
    <2> HIDE DEF Right
    <2> QED BY <1>1, <1>2, <1>7
<1> DEFINE value(s) == IF s = {} THEN base ELSE step[<<choose[s], f[s \ {choose[s]}]>>]
<1>9. f = [s \in SUBSET S |-> value(s)]
    <2>1. \A s \in SUBSET S : f[s] = value(s)
        BY <1>8
    <2> HIDE DEF value
    <2> QED BY <2>1
<1> QED BY <1>9 DEF FoldOver

\* The greatest element of a part of an interval (Max of FiniteSetsExt).
LEMMA Greatest ==
    ASSUME NEW n \in Nat, NEW S \in SUBSET (1..n), S # {}
    PROVE  Max(S) \in S /\ \A k \in S : k <= Max(S)
<1> DEFINE Good == {k \in 0..n : S \cap (1..k) # {} =>
                                     \E m \in S \cap (1..k) : \A j \in S \cap (1..k) : j <= m}
<1>1. 0 \in Good
    OBVIOUS
<1>2. ASSUME NEW k \in 1..n, k - 1 \in Good PROVE k \in Good
    <2>1. CASE k \in S
        <3>1. k \in S \cap (1..k) /\ \A j \in S \cap (1..k) : j <= k
            BY <2>1
        <3> QED BY <3>1
    <2>2. CASE k \notin S
        <3>1. S \cap (1..k) = S \cap (1..(k - 1))
            BY <2>2
        <3> QED BY <1>2, <3>1
    <2> QED BY <2>1, <2>2
<1>3. n \in Good
    <2> HIDE DEF Good
    <2> QED BY <1>1, <1>2, UpTo
<1>4. S \cap (1..n) = S
    OBVIOUS
<1>5. PICK m \in S : \A j \in S : j <= m
    BY <1>3, <1>4
<1>6. \A j \in S : m >= j
    BY <1>5
<1>7. Max(S) \in S /\ \A j \in S : Max(S) >= j
    BY <1>6 DEF Max
<1> QED BY <1>7

\* A fold over the positions of a sequence takes the last one of them first.
LEMMA LastPosition ==
    ASSUME NEW n \in Nat, NEW k \in 1..n
    PROVE  /\ 1..k \in SUBSET (1..n) /\ 1..k # {}
           /\ Max(1..k) = k /\ (1..k) \ {Max(1..k)} = 1..(k - 1)
<1> DEFINE m == Max(1..k)
<1>1. 1..k \in SUBSET (1..n) /\ 1..k # {}
    OBVIOUS
<1>2. m \in 1..k /\ k <= m
    <2>1. \A j \in 1..k : j <= Max(1..k)
        BY <1>1, Greatest
    <2>2. Max(1..k) \in 1..k
        BY <1>1, Greatest
    <2> QED BY <2>1, <2>2
<1>3. m = k
    <2> HIDE DEF m
    <2> QED BY <1>2
<1> QED BY <1>1, <1>3

\* A fold over the positions of a sequence (FoldLeft) takes the last one of them first, and so
\* it goes through them one by one.
Onward(n, X, base, step) ==
    /\ n \in Nat /\ base \in X
    /\ \A k \in 1..n : \A y \in X : step[<<k, y>>] \in X
OverPositions(n, base, step, f) ==
    \A s \in SUBSET (1..n) : f[s] = IF s = {} THEN base ELSE step[<<Max(s), f[s \ {Max(s)}]>>]
Follows(n, X, base, step, f) ==
    /\ \A s \in SUBSET (1..n) : s = {} => f[s] = base
    /\ \A s \in SUBSET (1..n) : s # {} /\ f[s \ {Max(s)}] \in X =>
           f[s] = step[<<Max(s), f[s \ {Max(s)}]>>]
Stepwise(n, base, step, out) ==
    out[0] = base /\ \A k \in 1..n : out[k] = step[<<k, out[k - 1]>>]

\* So does a fold over positions.
LEMMA FoldOverPositions ==
    ASSUME NEW n, NEW X, NEW base, NEW step, Onward(n, X, base, step)
    PROVE  \E f \in [SUBSET (1..n) -> X] : OverPositions(n, base, step, f)
<1> USE DEF Onward
<1> DEFINE choose == [s \in SUBSET (1..n) |-> Max(s)]
<1>1. IsFiniteSet(1..n)
    BY FS_Interval
<1>2. \A s \in SUBSET (1..n) : s # {} => choose[s] \in s /\ choose[s] = Max(s)
    BY Greatest
<1>3. PICK f \in [SUBSET (1..n) -> X] : FoldOver(1..n, base, choose, step, f)
    <2> HIDE DEF choose
    <2> QED BY <1>1, <1>2, FoldExists
<1>4. ASSUME NEW s \in SUBSET (1..n)
      PROVE  f[s] = IF s = {} THEN base ELSE step[<<Max(s), f[s \ {Max(s)}]>>]
    <2>1. f[s] = IF s = {} THEN base ELSE step[<<choose[s], f[s \ {choose[s]}]>>]
        BY <1>3 DEF FoldOver
    <2>2. CASE s = {}
        BY <2>1, <2>2
    <2>3. CASE s # {}
        BY <1>2, <2>1, <2>3
    <2> HIDE DEF choose
    <2> QED BY <2>2, <2>3
<1> QED BY <1>4 DEF OverPositions

\* What follows such a fold where it stays in X is a sequence of steps.
LEMMA OneByOne ==
    ASSUME NEW n, NEW X, NEW base, NEW step, Onward(n, X, base, step),
           NEW f, Follows(n, X, base, step, f)
    PROVE  \E out \in [0..n -> X] : Stepwise(n, base, step, out) /\ out[n] = f[1..n]
<1> USE DEF Onward, Follows
<1> DEFINE out == [k \in 0..n |-> f[1..k]]
           Good == {k \in 0..n : out[k] \in X}
<1>1. out[0] = base
    <2>1. 1..0 = {}
        OBVIOUS
    <2> QED BY <2>1
<1>2. ASSUME NEW k \in 1..n, out[k - 1] \in X PROVE out[k] = step[<<k, out[k - 1]>>]
    <2>1. /\ 1..k \in SUBSET (1..n) /\ 1..k # {}
          /\ Max(1..k) = k /\ (1..k) \ {Max(1..k)} = 1..(k - 1)
        BY LastPosition
    <2>2. out[k] = f[1..k] /\ out[k - 1] = f[1..(k - 1)]
        OBVIOUS
    <2> HIDE DEF out
    <2> QED BY <1>2, <2>1, <2>2
<1>3. out[n] = f[1..n] /\ out = [k \in 0..n |-> out[k]]
    OBVIOUS
<1> HIDE DEF out
<1>4. 0..n \subseteq Good
    <2>1. 0 \in Good
        BY <1>1
    <2>2. ASSUME NEW k \in 1..n, k - 1 \in Good PROVE k \in Good
        <3>1. k \in 0..n /\ out[k - 1] \in X
            BY <2>2
        <3>2. out[k] \in X
            BY <1>2, <3>1
        <3> QED BY <3>1, <3>2
    <2> HIDE DEF Good
    <2> QED BY <2>1, <2>2, UpTo
<1>5. \A k \in 0..n : out[k] \in X
    BY <1>4
<1>6. \A k \in 1..n : out[k] = step[<<k, out[k - 1]>>]
    BY <1>2, <1>5
<1> QED BY <1>1, <1>3, <1>5, <1>6 DEF Stepwise

-----------------------------------------------------------------------------
(***************************************************************************)
(* The content manifest and the SBOM: both are made of the purls of the    *)
(* packages and their dependencies, and each of these can be named.        *)
(***************************************************************************)

\* What RowsAssumption says of the packages of one request.
Reported(rows) ==
    LET names == ModuleNames(rows)
    IN /\ IsFiniteSet(rows)
       /\ \A row \in rows : /\ row.type \in RowTypes
                           /\ row.name \in Seq(STRING) /\ row.path \in Seq(STRING)
                           /\ row.deps \subseteq ToSet(DepOrder)
       /\ \A row \in {x \in rows : x.type \in {"gomod", "go-package"}} :
              /\ row.version.kind # "path"
              /\ ".." \notin ToSet(row.name)
              /\ \A d \in Used(row) : d.version.kind = "path" =>
                     LET user == match_parent_module(row.name, names)
                     IN /\ HasParent(row.name, names)
                        /\ ".." \notin ToSet(normpath(Module(rows, user).path \o d.version.parts))
                        /\ \/ HasParent(d.name, names)
                           \/ HasParent(normpath(user \o d.version.parts), names)

\* Dependencies are among those that DepOrder sorts.
LEMMA DependencyTyped ==
    ASSUME NEW rows, Reported(rows), NEW row \in rows, NEW d \in row.deps
    PROVE  /\ d \in Dependencies
           /\ d.name \in Seq(STRING) /\ d.version.parts \in Seq(STRING)
<1>1. d \in Dependencies
    <2>1. PICK i \in DOMAIN DepOrder : d = DepOrder[i]
        BY DEF Reported, ToSet
    <2> QED BY <2>1, DepOrderAssumption
<1> QED BY <1>1 DEF Dependencies

\* Of the modules that contain a package there is a longest one: the longer ones of a module are
\* ever fewer.
LEMMA LongestParent ==
    ASSUME NEW S, NEW modules \in SUBSET Seq(S), IsFiniteSet(modules),
           NEW package, HasParent(package, modules)
    PROVE  LET m == match_parent_module(package, modules)
           IN  /\ m \in modules /\ contains_package(m, package)
               /\ \A n \in modules : contains_package(n, package) => Len(n) <= Len(m)
<1> DEFINE Parents == {m \in modules : contains_package(m, package)}
           Longer(m) == {n \in Parents : Len(n) > Len(m)}
           A == {Longer(m) : m \in Parents}
           R == StrictSubsetOrdering(Parents)
<1>1. IsFiniteSet(Parents) /\ \A m \in Parents : Len(m) \in Nat
    BY FS_Subset
<1>2. IsWellFoundedOn(R, SUBSET Parents)
    <2> HIDE DEF Parents
    <2> QED BY <1>1, FS_StrictSubsetOrderingWellFounded, FS_FiniteSubsetsOfFinite
<1>3. A \subseteq SUBSET Parents /\ A # {}
    <2>1. Parents # {}
        BY DEF HasParent
    <2> HIDE DEF Parents
    <2> QED BY <2>1
<1>4. PICK a \in A : \A b \in A : <<b, a>> \notin R
    <2> HIDE DEF A, R, Parents
    <2> QED BY <1>2, <1>3, WFMin
<1>5. PICK m \in Parents : a = Longer(m)
    BY <1>4
<1>6. ASSUME NEW n \in Parents PROVE Len(n) <= Len(m)
    <2> SUFFICES ASSUME Len(n) > Len(m) PROVE FALSE
        BY <1>1
    <2>1. Longer(n) \subseteq Longer(m) /\ n \in Longer(m) /\ n \notin Longer(n)
        BY <1>1
    <2>2. Longer(n) \in A /\ Longer(n) \in SUBSET Parents /\ Longer(m) \in SUBSET Parents
        OBVIOUS
    <2>3. <<Longer(n), a>> \in R
        <3> HIDE DEF Longer, Parents
        <3> QED BY <1>5, <2>1, <2>2 DEF StrictSubsetOrdering
    <2> QED BY <1>4, <2>2, <2>3
<1> QED BY <1>5, <1>6 DEF match_parent_module

\* A name that has a parent leads to a module of the request.
LEMMA ParentModule ==
    ASSUME NEW rows, Reported(rows), NEW name, HasParent(name, ModuleNames(rows))
    PROVE  LET m == Module(rows, match_parent_module(name, ModuleNames(rows)))
           IN  /\ m \in ModuleRows(rows) /\ m.name = match_parent_module(name, ModuleNames(rows))
               /\ m.name \in ModuleNames(rows) /\ contains_package(m.name, name)
               /\ \A n \in ModuleNames(rows) : contains_package(n, name) => Len(n) <= Len(m.name)
<1>1. IsFiniteSet(ModuleRows(rows)) /\ ModuleNames(rows) \subseteq Seq(STRING)
    BY FS_Subset DEF Reported, ModuleRows, ModuleNames
<1>2. IsFiniteSet(ModuleNames(rows))
    <2> DEFINE f == [r \in ModuleRows(rows) |-> r.name]
    <2>1. f \in Surjection(ModuleRows(rows), ModuleNames(rows))
        BY DEF Surjection, ModuleNames
    <2> QED BY <1>1, <2>1, FS_Surjection
<1> DEFINE longest == match_parent_module(name, ModuleNames(rows))
<1>3. /\ longest \in ModuleNames(rows) /\ contains_package(longest, name)
      /\ \A n \in ModuleNames(rows) : contains_package(n, name) => Len(n) <= Len(longest)
    BY <1>1, <1>2, LongestParent
<1>4. \E r \in ModuleRows(rows) : r.name = match_parent_module(name, ModuleNames(rows))
    BY <1>3 DEF ModuleNames
<1>5. Module(rows, longest) \in ModuleRows(rows) /\ Module(rows, longest).name = longest
    BY <1>4 DEF Module
<1> QED BY <1>3, <1>5

\* The module of a package that has the name of a module is this module.
LEMMA OwnModule ==
    ASSUME NEW rows, Reported(rows), NEW name \in ModuleNames(rows)
    PROVE  HasParent(name, ModuleNames(rows)) /\ match_parent_module(name, ModuleNames(rows)) = name
<1> DEFINE names == ModuleNames(rows)
           m == match_parent_module(name, names)
<1>1. names \subseteq Seq(STRING)
    BY DEF Reported, ModuleNames, ModuleRows
<1>2. contains_package(name, name) /\ HasParent(name, names)
    BY <1>1 DEF contains_package, IsPrefix, HasParent
<1>3. m \in names /\ contains_package(m, name) /\ Len(name) <= Len(m)
    BY <1>2, ParentModule
<1>4. m = SubSeq(name, 1, Len(m)) /\ Len(m) = Len(name)
    BY <1>1, <1>3 DEF contains_package, IsPrefix
<1>5. SubSeq(name, 1, Len(name)) = name
    BY <1>1
<1> QED BY <1>2, <1>4, <1>5

\* No purl is a placeholder.
LEMMA VcsPurl ==
    ASSUME NEW name, NEW repo, NEW ref
    PROVE  to_vcs_purl(name, repo, ref).type # "PARENT"
BY DEF to_vcs_purl, KnownHosts, Purl

LEMMA ModuleRowPurl ==
    ASSUME NEW rows, Reported(rows), NEW m \in rows, m.type \in {"gomod", "go-package"}
    PROVE  to_purl(m, <<>>).type = "golang"
<1>1. m.version.kind # "path"
    BY DEF Reported
<1> QED BY <1>1 DEF to_purl, Purl

LEMMA WithinPurl ==
    ASSUME NEW rows, Reported(rows), NEW name, HasParent(name, ModuleNames(rows))
    PROVE  Within(rows, name).type = "golang"
<1> DEFINE parent == match_parent_module(name, ModuleNames(rows))
           m == Module(rows, parent)
<1>1. m \in rows /\ m.type = "gomod"
    BY ParentModule DEF ModuleRows
<1>2. to_purl(m, <<>>) = Purl("golang", m.name, m.version, <<>>)
    BY <1>1 DEF to_purl, Reported
<1> QED BY <1>2 DEF Within, ModulePurl, Purl

LEMMA OtherPurl ==
    ASSUME NEW d, d.type \in {"npm", "yarn", "pip", "git-submodule"}, NEW sub
    PROVE  to_purl(d, sub).type # "PARENT"
<1>1. CASE d.type \in {"npm", "yarn"}
    BY <1>1, VcsPurl DEF to_purl, to_git_purl, Purl
<1>2. CASE d.type = "pip"
    BY <1>2, VcsPurl DEF to_purl, to_git_purl, Purl
<1>3. CASE d.type = "git-submodule"
    BY <1>3, VcsPurl DEF to_purl, to_git_purl, Purl
<1> QED BY <1>1, <1>2, <1>3

LEMMA TopPurl ==
    ASSUME NEW rows, Reported(rows), NEW row \in rows, NEW repo, NEW ref
    PROVE  to_top_level_purl(row, repo, ref).type # "PARENT"
<1>1. CASE row.type \in {"gomod", "go-package"}
    BY <1>1, ModuleRowPurl DEF to_top_level_purl
<1>2. CASE row.type = "git-submodule"
    BY <1>2, OtherPurl DEF to_top_level_purl
<1>3. CASE row.type \notin {"gomod", "go-package", "git-submodule"}
    <2>1. to_top_level_purl(row, repo, ref)
              = [to_vcs_purl(row.name, repo, ref) EXCEPT !.sub = row.path]
        BY <1>3 DEF to_top_level_purl
    <2> QED BY <2>1 DEF to_vcs_purl, KnownHosts, Purl
<1> QED BY <1>1, <1>2, <1>3

LEMMA DependencyPurl ==
    ASSUME NEW rows, Reported(rows), NEW row \in rows, NEW d \in Used(row), NEW repo, NEW ref
    PROVE  DepPurl(rows, row, d, repo, ref).type # "PARENT"
<1>1. d.type = row.type /\ d \in Dependencies /\ row.type \in RowTypes
    BY DependencyTyped DEF Used, Reported
<1> DEFINE names == ModuleNames(rows)
<1>2. CASE row.type \in {"gomod", "go-package"} /\ d.version.kind # "path"
    <2>1. DepPurl(rows, row, d, repo, ref) = to_purl(d, <<>>)
        BY <1>1, <1>2 DEF DepPurl, ModuleDepPurl, PackageDepPurl
    <2>2. to_purl(d, <<>>) = Purl("golang", d.name, d.version, <<>>)
        BY <1>1, <1>2 DEF to_purl
    <2> QED BY <2>1, <2>2 DEF Purl
<1>3. CASE row.type = "gomod" /\ d.version.kind = "path"
    <2>1. HasParent(d.name, names) \/ HasParent(normpath(row.name \o d.version.parts), names)
        <3>1. row.name \in names
            BY <1>3 DEF ModuleNames, ModuleRows
        <3>2. match_parent_module(row.name, names) = row.name
            BY <3>1, OwnModule
        <3> QED BY <1>3, <3>2 DEF Reported
    <2>2. DepPurl(rows, row, d, repo, ref)
              = IF HasParent(d.name, names) THEN Within(rows, d.name)
                ELSE Within(rows, normpath(row.name \o d.version.parts))
        BY <1>3 DEF DepPurl, ModuleDepPurl
    <2> HIDE DEF names
    <2> QED BY <2>1, <2>2, WithinPurl DEF names
<1>4. CASE row.type = "go-package" /\ d.version.kind = "path" /\ HasParent(d.name, names)
    <2> DEFINE m == Module(rows, match_parent_module(d.name, names))
               e == [d EXCEPT !.version = m.version]
    <2>1. m \in rows /\ m.type = "gomod" /\ m.version.kind # "path"
        BY <1>4, ParentModule DEF ModuleRows, Reported
    <2>2. DepPurl(rows, row, d, repo, ref) = to_purl(e, <<>>)
        BY <1>4 DEF DepPurl, PackageDepPurl
    <2>3. e.type = "go-package" /\ e.version = m.version
        BY <1>1, <1>4 DEF Dependencies
    <2>4. to_purl(e, <<>>) = Purl("golang", e.name, e.version, <<>>)
        <3> HIDE DEF e, m
        <3> QED BY <2>1, <2>3 DEF to_purl
    <2> HIDE DEF e
    <2> QED BY <2>2, <2>4 DEF Purl
<1>5. CASE row.type = "go-package" /\ d.version.kind = "path" /\ ~HasParent(d.name, names)
    <2> DEFINE user == match_parent_module(row.name, names)
    <2>1. HasParent(normpath(user \o d.version.parts), names)
        BY <1>5 DEF Reported
    <2>2. DepPurl(rows, row, d, repo, ref) = Within(rows, normpath(user \o d.version.parts))
        BY <1>5 DEF DepPurl, PackageDepPurl
    <2> HIDE DEF user
    <2> QED BY <2>1, <2>2, WithinPurl
<1>6. CASE row.type = "rubygems"
    <2> DEFINE parent == to_vcs_purl(<<Last(repo)>>, repo, ref)
               p == to_purl(d, row.path)
    <2>1. DepPurl(rows, row, d, repo, ref) = replace_parent_purl_placeholder(p, parent)
        BY <1>6 DEF DepPurl, GemDepPurl
    <2>2. parent.type # "PARENT" /\ [parent EXCEPT !.sub = p.sub].type = parent.type
        BY VcsPurl DEF to_vcs_purl, Purl
    <2> HIDE DEF parent, p
    <2> QED BY <2>1, <2>2 DEF replace_parent_purl_placeholder
<1>7. CASE row.type \notin {"gomod", "go-package", "rubygems"}
    <2>1. DepPurl(rows, row, d, repo, ref) = to_purl(d, <<>>)
        BY <1>7 DEF DepPurl
    <2>2. d.type \in {"npm", "yarn", "pip", "git-submodule"}
        BY <1>1, <1>7 DEF RowTypes
    <2> QED BY <2>1, <2>2, OtherPurl
<1> QED BY <1>2, <1>3, <1>4, <1>5, <1>6, <1>7

\* The purls of the SBOM.
LEMMA SbomPurls ==
    ASSUME NEW rows, NEW repo, NEW ref
    PROVE  {c.purl : c \in sbom_components(rows, repo, ref)}
               = {to_top_level_purl(r, repo, ref) : r \in rows}
                 \cup UNION {DepPurls(rows, r, Used(r), repo, ref) : r \in rows}
<1> DEFINE components == sbom_components(rows, repo, ref)
           purls == {to_top_level_purl(r, repo, ref) : r \in rows}
                        \cup UNION {DepPurls(rows, r, Used(r), repo, ref) : r \in rows}
<1>1. \A package, purl : Component(package, purl).purl = purl
    BY DEF Component
<1>2. ASSUME NEW r \in rows
      PROVE  \E c \in components : c.purl = to_top_level_purl(r, repo, ref)
    BY <1>1 DEF sbom_components
<1>3. ASSUME NEW r \in rows, NEW d \in Used(r)
      PROVE  \E c \in components : c.purl = DepPurl(rows, r, d, repo, ref)
    <2>1. Component(Reversioned(rows, r, d), DepPurl(rows, r, d, repo, ref)) \in components
        BY DEF sbom_components
    <2> QED BY <1>1, <2>1
<1>4. ASSUME NEW c \in components
      PROVE  \/ \E r \in rows : c.purl = to_top_level_purl(r, repo, ref)
             \/ \E r \in rows : \E d \in Used(r) : c.purl = DepPurl(rows, r, d, repo, ref)
    BY <1>1 DEF sbom_components
<1>5. ASSUME NEW p
      PROVE  p \in purls <=>
                 \/ \E r \in rows : p = to_top_level_purl(r, repo, ref)
                 \/ \E r \in rows : \E d \in Used(r) : p = DepPurl(rows, r, d, repo, ref)
    BY DEF DepPurls
<1> HIDE DEF components, purls
<1> QED BY <1>2, <1>3, <1>4, <1>5 DEF components, purls

\* What the content manifest and the SBOM of a set of packages have to do with each other.
LEMMA ManifestInSbom ==
    ASSUME NEW rows, Reported(rows), NEW repo, NEW ref
    PROVE  LET icm == image_contents(rows, repo, ref)
               named == UNION {{e.purl} \cup e.dependencies \cup e.sources : e \in icm}
               components == {c.purl : c \in sbom_components(rows, repo, ref)}
               goPurls == {to_purl(m, <<>>) : m \in ModuleRows(rows)}
                            \cup UNION {DepPurls(rows, m, Used(m), repo, ref) :
                                           m \in ModuleRows(rows)}
           IN /\ named \subseteq components
              /\ components \subseteq named \cup goPurls
              /\ \A p \in components : p.type # "PARENT"
<1> DEFINE named ==
               UNION {{e.purl} \cup e.dependencies \cup e.sources : e \in image_contents(rows, repo, ref)}
           components == {c.purl : c \in sbom_components(rows, repo, ref)}
           goPurls == {to_purl(m, <<>>) : m \in ModuleRows(rows)}
                          \cup UNION {DepPurls(rows, m, Used(m), repo, ref) : m \in ModuleRows(rows)}
           Entry(r) == IcmEntry(rows, r, repo, ref)
           Top(r) == to_top_level_purl(r, repo, ref)
           Purls(r, deps) == DepPurls(rows, r, deps, repo, ref)
<1>1. components = {Top(r) : r \in rows} \cup UNION {Purls(r, Used(r)) : r \in rows}
    BY SbomPurls
<1>2. \A r, deps : deps \subseteq Used(r) => Purls(r, deps) \subseteq Purls(r, Used(r))
    BY DEF DepPurls
<1>3. \A r : /\ Entry(r).purl = Top(r)
             /\ Entry(r).dependencies \subseteq Purls(r, Used(r))
             /\ Entry(r).sources = IF r.type = "go-package" THEN ModuleSources(rows, r, repo, ref)
                                   ELSE Purls(r, Used(r))
             /\ r.type = "go-package" => Entry(r).dependencies = Purls(r, Used(r))
    <2> TAKE r
    <2>1. {d \in Used(r) : ~d.dev} \subseteq Used(r)
        OBVIOUS
    <2> QED BY <1>2, <2>1 DEF IcmEntry
<1>4. \A r \in rows : ModuleSources(rows, r, repo, ref) \subseteq components
    <2> SUFFICES ASSUME NEW r \in rows PROVE ModuleSources(rows, r, repo, ref) \subseteq components
        OBVIOUS
    <2> DEFINE m == Module(rows, match_parent_module(r.name, ModuleNames(rows)))
    <2>1. CASE HasParent(r.name, ModuleNames(rows))
        <3>1. m \in rows
            BY <2>1, ParentModule DEF ModuleRows
        <3>2. ModuleSources(rows, r, repo, ref) = Purls(m, Used(m))
            BY <2>1 DEF ModuleSources
        <3> HIDE DEF m
        <3> QED BY <1>1, <3>1, <3>2
    <2>2. CASE ~HasParent(r.name, ModuleNames(rows))
        BY <2>2 DEF ModuleSources
    <2> QED BY <2>1, <2>2
<1>5. named = UNION {{Entry(r).purl} \cup Entry(r).dependencies \cup Entry(r).sources :
                         r \in rows \ ModuleRows(rows)}
    BY DEF image_contents
<1> HIDE DEF Entry, Top, Purls, named, components
<1>6. named \subseteq components
    <2> SUFFICES ASSUME NEW r \in rows
                 PROVE {Entry(r).purl} \cup Entry(r).dependencies \cup Entry(r).sources
                           \subseteq components
        BY <1>5
    <2>1. Top(r) \in components /\ Purls(r, Used(r)) \subseteq components
        BY <1>1
    <2> QED BY <1>3, <1>4, <2>1
<1>7. components \subseteq named \cup goPurls
    <2>1. ASSUME NEW r \in rows \ ModuleRows(rows)
          PROVE  Top(r) \in named /\ Purls(r, Used(r)) \subseteq named
        BY <1>3, <1>5
    <2>2. ASSUME NEW r \in ModuleRows(rows)
          PROVE  Top(r) \in goPurls /\ Purls(r, Used(r)) \subseteq goPurls
        BY DEF Top, Purls, to_top_level_purl, ModuleRows
    <2> HIDE DEF goPurls
    <2> QED BY <1>1, <2>1, <2>2
<1>8. \A p \in components : p.type # "PARENT"
    <2>1. \A r \in rows : Top(r).type # "PARENT"
        BY TopPurl DEF Top
    <2>2. \A r \in rows : \A p \in Purls(r, Used(r)) : p.type # "PARENT"
        BY DependencyPurl DEF Purls, DepPurls
    <2> QED BY <1>1, <2>1, <2>2
<1> QED BY <1>6, <1>7, <1>8 DEF named, components

\* The content manifest and the SBOM of a request name the same sources, and both name them for
\* good, with no placeholder for the request: image_contents and sbom_components_list over whatever
\* the package managers report.
THEOREM ManifestAndSbomAlwaysAgree == ReadsSpec => []ManifestAndSbomAgree
<1>1. ReadsIInv => ManifestAndSbomAgree
    <2> SUFFICES ASSUME ReadsIInv, NEW r \in Fresh
                 PROVE  LET icm == image_contents(packages[r], RepoOf[r], RefOf[r])
                            named == UNION {{e.purl} \cup e.dependencies \cup e.sources : e \in icm}
                            components ==
                                {c.purl : c \in sbom_components(packages[r], RepoOf[r], RefOf[r])}
                            goPurls == {to_purl(m, <<>>) : m \in ModuleRows(packages[r])}
                                         \cup UNION {DepPurls(packages[r], m, Used(m), RepoOf[r], RefOf[r]) :
                                                        m \in ModuleRows(packages[r])}
                        IN /\ named \subseteq components
                           /\ components \subseteq named \cup goPurls
                           /\ \A p \in components : p.type # "PARENT"
        BY DEF ManifestAndSbomAgree
    <2>1. r \in Ids /\ packages[r] = UNION files[r] /\ files[r] \in FileSets[r]
        BY DEF Fresh, ReadsIInv, RequestsOK, RequestOK, Rows
    <2>2. Reported(packages[r])
        BY <2>1, RowsAssumption DEF Reported
    <2> QED BY <2>2, ManifestInSbom
<1> QED BY <1>1, ReadsInvariance, PTL

-----------------------------------------------------------------------------
(***************************************************************************)
(* Where the purls of local dependencies lead: a path below the repository *)
(* is the same path behind its name.                                       *)
(***************************************************************************)

\* One part more (normpath).
NormStep(path, k, out) ==
    IF path[k] = ".." /\ out # <<>> /\ Last(out) # ".." THEN Front(out) ELSE Append(out, path[k])

\* Parts before the last one.
LEMMA FrontOfParts ==
    ASSUME NEW S, NEW s \in Seq(S), s # <<>>
    PROVE  /\ Front(s) \in Seq(S) /\ Len(Front(s)) = Len(s) - 1 /\ Len(s) \in Nat \ {0}
           /\ \A i \in 1..(Len(s) - 1) : Front(s)[i] = s[i]
<1>1. Len(s) \in Nat \ {0}
    OBVIOUS
<1> DEFINE m == Len(s) - 1
<1>2. m \in Nat /\ m <= Len(s)
    BY <1>1
<1>3. /\ SubSeq(s, 1, m) \in Seq(S) /\ Len(SubSeq(s, 1, m)) = m
      /\ \A i \in 1..m : SubSeq(s, 1, m)[i] = s[i]
    <2> HIDE DEF m
    <2> QED BY <1>2
<1> QED BY <1>1, <1>3 DEF Front

\* normpath goes through the parts of a path from the first to the last.
LEMMA NormpathSteps ==
    ASSUME NEW path \in Seq(STRING)
    PROVE  \E out \in [0..Len(path) -> Seq(STRING)] :
               /\ out[0] = <<>>
               /\ \A k \in 1..Len(path) : out[k] = NormStep(path, k, out[k - 1])
               /\ normpath(path) = out[Len(path)]
<1> DEFINE n == Len(path)
           X == Seq(STRING)
           step == [x \in (1..n) \X X |-> NormStep(path, x[1], x[2])]
           Iter(g) == g = [s \in SUBSET (1..n) |->
                              IF s = {} THEN <<>> ELSE NormStep(path, Max(s), g[s \ {Max(s)}])]
           f == CHOOSE g : Iter(g)
<1>1. n \in Nat /\ DOMAIN path = 1..n /\ <<>> \in X /\ IsFiniteSet(1..n)
    BY FS_Interval
<1>2. \A k \in 1..n : \A y \in X : NormStep(path, k, y) \in X
    <2> SUFFICES ASSUME NEW k \in 1..n, NEW y \in X PROVE NormStep(path, k, y) \in X
        OBVIOUS
    <2>1. path[k] \in STRING
        BY <1>1
    <2>2. y # <<>> => Front(y) \in X
        BY FrontOfParts
    <2>3. Append(y, path[k]) \in X
        BY <2>1
    <2> QED BY <2>2, <2>3 DEF NormStep
<1>3. normpath(path) = f[1..n]
    BY <1>1 DEF normpath, FoldLeft, MapThenFoldSet, NormStep
<1> HIDE DEF step
<1>4. \A k \in 1..n : \A y \in X : step[<<k, y>>] = NormStep(path, k, y) /\ step[<<k, y>>] \in X
    BY <1>2 DEF step
<1>0. Onward(n, X, <<>>, step)
    BY <1>1, <1>4 DEF Onward
<1>5. Iter(f)
    <2>1. PICK g \in [SUBSET (1..n) -> X] : OverPositions(n, <<>>, step, g)
        BY <1>0, FoldOverPositions
    <2> DEFINE value(s) == IF s = {} THEN <<>> ELSE NormStep(path, Max(s), g[s \ {Max(s)}])
    <2>2. \A s \in SUBSET (1..n) : g[s] = value(s)
        <3> SUFFICES ASSUME NEW s \in SUBSET (1..n), s # {}
                     PROVE  g[s] = NormStep(path, Max(s), g[s \ {Max(s)}])
            BY <2>1 DEF OverPositions
        <3>1. Max(s) \in 1..n /\ g[s \ {Max(s)}] \in X
            BY <1>1, Greatest
        <3> QED BY <1>4, <2>1, <3>1 DEF OverPositions
    <2>3. g = [s \in SUBSET (1..n) |-> value(s)]
        <3> HIDE DEF value
        <3> QED BY <2>2
    <2>4. Iter(g)
        BY <2>3
    <2> HIDE DEF Iter
    <2> QED BY <2>4
<1> HIDE DEF f
<1>6. /\ \A s \in SUBSET (1..n) : s = {} => f[s] = <<>>
      /\ \A s \in SUBSET (1..n) : s # {} => f[s] = NormStep(path, Max(s), f[s \ {Max(s)}])
    BY <1>5
<1>7. Follows(n, X, <<>>, step, f)
    BY <1>1, <1>4, <1>6, Greatest DEF Follows
<1>8. PICK out \in [0..n -> X] : Stepwise(n, <<>>, step, out) /\ out[n] = f[1..n]
    BY <1>0, <1>7, OneByOne
<1>9. ASSUME NEW k \in 1..n PROVE out[k] = NormStep(path, k, out[k - 1])
    <2>1. k - 1 \in 0..n
        BY <1>1
    <2> QED BY <1>4, <1>8, <2>1 DEF Stepwise
<1> QED BY <1>3, <1>8, <1>9 DEF Stepwise

\* Sequences one after the other.
LEMMA Behind ==
    ASSUME NEW S, NEW s \in Seq(S), NEW t \in Seq(S)
    PROVE  /\ \A x \in S : Append(s \o t, x) = s \o Append(t, x)
           /\ t # <<>> => /\ s \o t # <<>> /\ Last(s \o t) = Last(t)
                          /\ Front(s \o t) = s \o Front(t)
<1>1. s \o t \in Seq(S) /\ Len(s) \in Nat /\ Len(t) \in Nat /\ Len(s \o t) = Len(s) + Len(t)
    OBVIOUS
<1>2. \A x \in S : Append(s \o t, x) = s \o Append(t, x)
    OBVIOUS
<1>3. ASSUME t # <<>>
      PROVE  s \o t # <<>> /\ Last(s \o t) = Last(t) /\ Front(s \o t) = s \o Front(t)
    <2>1. Len(t) > 0 /\ s \o t # <<>>
        BY <1>3
    <2>2. (s \o t)[Len(s) + Len(t)] = t[Len(t)]
        BY <2>1
    <2>3. Last(s \o t) = Last(t)
        BY <1>1, <2>2 DEF Last
    <2>4. /\ Front(t) \in Seq(S) /\ Len(Front(t)) = Len(t) - 1
          /\ \A i \in 1..(Len(t) - 1) : Front(t)[i] = t[i]
        BY <1>3, FrontOfParts
    <2>5. /\ Front(s \o t) \in Seq(S) /\ Len(Front(s \o t)) = Len(s \o t) - 1
          /\ \A i \in 1..(Len(s \o t) - 1) : Front(s \o t)[i] = (s \o t)[i]
        BY <1>1, <2>1, FrontOfParts
    <2>6. s \o Front(t) \in Seq(S) /\ Len(s \o Front(t)) = Len(s) + Len(t) - 1
        BY <2>1, <2>4
    <2>7. ASSUME NEW i \in 1..(Len(s) + Len(t) - 1)
          PROVE  Front(s \o t)[i] = (s \o Front(t))[i]
        <3>1. Front(s \o t)[i] = (s \o t)[i]
            BY <1>1, <2>5
        <3>2. CASE i <= Len(s)
            BY <2>4, <3>1, <3>2
        <3>3. CASE i > Len(s)
            <4>1. i - Len(s) \in 1..(Len(t) - 1)
                BY <3>3
            <4>2. (s \o t)[i] = t[i - Len(s)]
                BY <3>3
            <4>3. (s \o Front(t))[i] = Front(t)[i - Len(s)]
                BY <2>4, <3>3
            <4> QED BY <2>4, <3>1, <4>1, <4>2, <4>3
        <3>4. i <= Len(s) \/ i > Len(s)
            BY <1>1
        <3> QED BY <3>2, <3>3, <3>4
    <2>8. Front(s \o t) = s \o Front(t)
        <3> DEFINE a == Front(s \o t)
                   b == s \o Front(t)
        <3>1. a \in Seq(S) /\ b \in Seq(S) /\ Len(a) = Len(b) /\ \A i \in 1..Len(a) : a[i] = b[i]
            BY <1>1, <2>5, <2>6, <2>7
        <3> HIDE DEF a, b
        <3>2. a = b
            BY <3>1
        <3> QED BY <3>2 DEF a, b
    <2> QED BY <2>1, <2>3, <2>8
<1> QED BY <1>2, <1>3

\* A directory below another one: its path is not changed by the parts before it.
LEMMA NormpathUnder ==
    ASSUME NEW root \in Seq(STRING), ".." \notin ToSet(root),
           NEW s \in Seq(STRING), ".." \notin ToSet(normpath(s))
    PROVE  normpath(root \o s) = root \o normpath(s)
<1> DEFINE path == root \o s
           r == Len(root)
           n == Len(s)
<1>1. /\ path \in Seq(STRING) /\ r \in Nat /\ n \in Nat /\ Len(path) = r + n
      /\ \A k \in 1..r : path[k] = root[k] /\ root[k] \in STRING
      /\ \A k \in 1..n : path[r + k] = s[k] /\ s[k] \in STRING
    OBVIOUS
<1> HIDE DEF path
<1>0. r \in Nat /\ n \in Nat
    OBVIOUS
<1> HIDE DEF r, n
<1>2. PICK short \in [0..n -> Seq(STRING)] :
          /\ short[0] = <<>>
          /\ \A k \in 1..n : short[k] = NormStep(s, k, short[k - 1])
          /\ normpath(s) = short[n]
    BY NormpathSteps
<1>3. PICK long \in [0..(r + n) -> Seq(STRING)] :
          /\ long[0] = <<>>
          /\ \A k \in 1..(r + n) : long[k] = NormStep(path, k, long[k - 1])
          /\ normpath(path) = long[r + n]
    BY <1>1, NormpathSteps

<1>4. long[r] = root
    <2> DEFINE Good == {k \in 0..r : long[k] = SubSeq(root, 1, k)}
    <2>1. 0 \in Good
        BY <1>1, <1>3
    <2>2. ASSUME NEW k \in 1..r, k - 1 \in Good PROVE k \in Good
        <3>1. root[k] # ".."
            BY <1>1 DEF ToSet, r
        <3>2. long[k] = Append(SubSeq(root, 1, k - 1), root[k])
            <4>1. k \in 1..(r + n) /\ path[k] = root[k] /\ long[k - 1] = SubSeq(root, 1, k - 1)
                BY <1>0, <1>1, <2>2
            <4> QED BY <1>3, <3>1, <4>1 DEF NormStep
        <3>3. Append(SubSeq(root, 1, k - 1), root[k]) = SubSeq(root, 1, k)
            BY DEF r
        <3>4. k \in 0..r
            BY <1>0
        <3>5. long[k] = SubSeq(root, 1, k)
            BY <3>2, <3>3
        <3> QED BY <3>4, <3>5
    <2>3. 0..r \subseteq Good
        <3> HIDE DEF Good
        <3> QED BY <1>0, <2>1, <2>2, UpTo
    <2>4. SubSeq(root, 1, r) = root
        BY DEF r
    <2>5. r \in Good
        <3> HIDE DEF Good
        <3> QED BY <1>0, <2>3
    <2> QED BY <2>4, <2>5
<1>5. \A j \in 0..n : ".." \notin ToSet(short[j])
    <2> DEFINE Good == {k \in 0..n : \A j \in 0..k : ".." \in ToSet(short[j]) => ".." \in ToSet(short[k])}
    <2>1. 0 \in Good
        BY <1>1
    <2>2. ASSUME NEW k \in 1..n, k - 1 \in Good PROVE k \in Good
        <3>1. ".." \in ToSet(short[k - 1]) => ".." \in ToSet(short[k])
            <4> SUFFICES ASSUME ".." \in ToSet(short[k - 1]) PROVE ".." \in ToSet(short[k])
                OBVIOUS
            <4> DEFINE before == short[k - 1]
            <4>1. before \in Seq(STRING) /\ short[k] = NormStep(s, k, before)
                BY <1>1, <1>2
            <4>2. PICK i \in 1..Len(before) : before[i] = ".."
                BY <4>1 DEF ToSet
            <4> HIDE DEF before
            <4>3. CASE s[k] = ".." /\ before # <<>> /\ Last(before) # ".."
                <5>1. i # Len(before) /\ short[k] = Front(before)
                    BY <4>1, <4>2, <4>3 DEF Last, NormStep
                <5>2. i \in 1..(Len(before) - 1)
                    BY <4>1, <5>1
                <5>3. Front(before)[i] = ".." /\ i \in DOMAIN Front(before)
                    BY <4>1, <4>2, <4>3, <5>2, FrontOfParts
                <5> QED BY <5>1, <5>3 DEF ToSet
            <4>4. CASE ~(s[k] = ".." /\ before # <<>> /\ Last(before) # "..")
                <5>1. short[k] = Append(before, s[k])
                    BY <4>1, <4>4 DEF NormStep
                <5>2. Append(before, s[k])[i] = ".." /\ i \in DOMAIN Append(before, s[k])
                    BY <1>1, <4>1, <4>2
                <5> QED BY <5>1, <5>2 DEF ToSet
            <4> QED BY <4>3, <4>4
        <3>2. \A j \in 0..k : j \in 0..(k - 1) \/ j = k
            OBVIOUS
        <3> QED BY <2>2, <3>1, <3>2
    <2>3. 0..n \subseteq Good
        <3> HIDE DEF Good
        <3> QED BY <1>0, <2>1, <2>2, UpTo
    <2>4. n \in Good
        <3> HIDE DEF Good
        <3> QED BY <1>0, <2>3
    <2> QED BY <1>2, <2>4
<1>6. long[r + n] = root \o short[n]
    <2> DEFINE Good == {k \in 0..n : long[r + k] = root \o short[k]}
    <2>1. 0 \in Good
        BY <1>1, <1>2, <1>4
    <2>2. ASSUME NEW k \in 1..n, k - 1 \in Good PROVE k \in Good
        <3> DEFINE before == short[k - 1]
        <3>1. /\ before \in Seq(STRING) /\ short[k] = NormStep(s, k, before)
              /\ long[r + (k - 1)] = root \o before
            BY <1>1, <1>2, <2>2
        <3>2. r + k \in 1..(r + n) /\ (r + k) - 1 = r + (k - 1)
            BY <1>1
        <3>3. long[r + k] = NormStep(path, r + k, root \o before) /\ path[r + k] = s[k]
            BY <1>1, <1>3, <3>1, <3>2
        <3>4. s[k] = ".." => before # <<>> /\ Last(before) # ".."
            <4> SUFFICES ASSUME s[k] = "..", before = <<>> \/ Last(before) = ".." PROVE FALSE
                OBVIOUS
            <4>1. short[k] = Append(before, "..")
                BY <3>1 DEF NormStep
            <4>2. Append(before, "..")[Len(before) + 1] = ".."
                  /\ Len(before) + 1 \in DOMAIN Append(before, "..")
                BY <3>1
            <4>3. ".." \in ToSet(short[k])
                BY <4>1, <4>2 DEF ToSet
            <4> QED BY <1>5, <4>3
        <3> HIDE DEF before
        <3>5. NormStep(path, r + k, root \o before) = root \o NormStep(s, k, before)
            <4>1. CASE s[k] = ".."
                BY <3>1, <3>3, <3>4, <4>1, Behind DEF NormStep
            <4>2. CASE s[k] # ".."
                <5>1. NormStep(path, r + k, root \o before) = Append(root \o before, s[k])
                      /\ NormStep(s, k, before) = Append(before, s[k])
                    BY <3>3, <4>2 DEF NormStep
                <5>2. s[k] \in STRING
                    BY <1>1
                <5>3. before \in Seq(STRING)
                    BY <3>1
                <5>4. \A x \in STRING : Append(root \o before, x) = root \o Append(before, x)
                    BY <5>3, Behind
                <5> QED BY <5>1, <5>2, <5>4
            <4> QED BY <4>1, <4>2
        <3>6. k \in 0..n /\ long[r + k] = root \o short[k]
            BY <3>1, <3>3, <3>5
        <3> QED BY <3>6
    <2>3. 0..n \subseteq Good
        <3> HIDE DEF Good
        <3> QED BY <1>0, <2>1, <2>2, UpTo
    <2>4. n \in Good
        <3> HIDE DEF Good
        <3> QED BY <1>0, <2>3
    <2> QED BY <2>4
<1> QED BY <1>2, <1>3, <1>6 DEF path

\* What is left of a path behind one of its prefixes.
LEMMA Rest ==
    ASSUME NEW S, NEW root \in Seq(S), NEW path \in Seq(S), NEW place \in Seq(S),
           contains_package(root \o path, root \o place)
    PROVE  path \o path_to_subpackage(root \o path, root \o place) = place
<1> DEFINE rest == path_to_subpackage(root \o path, root \o place)
           name == root \o place
           r == Len(root)
           p == Len(path)
           n == Len(place)
<1>1. /\ name \in Seq(S) /\ r \in Nat /\ p \in Nat /\ n \in Nat
      /\ Len(root \o path) = r + p /\ Len(name) = r + n
      /\ \A i \in 1..p : (root \o path)[r + i] = path[i] /\ r + i \in 1..(r + p)
      /\ \A i \in 1..n : name[r + i] = place[i]
    OBVIOUS
<1>2. r + p <= r + n /\ root \o path = SubSeq(name, 1, r + p)
    <2>1. Len(root \o path) <= Len(name)
          /\ SubSeq(root \o path, 1, Len(root \o path)) = SubSeq(name, 1, Len(root \o path))
        BY DEF contains_package, IsPrefix
    <2>2. SubSeq(root \o path, 1, Len(root \o path)) = root \o path
        OBVIOUS
    <2> HIDE DEF name
    <2> QED BY <1>1, <2>1, <2>2
<1>3. rest = SubSeq(name, r + p + 1, r + n)
    BY <1>1 DEF path_to_subpackage
<1> HIDE DEF name, r, p, n, rest
<1>4. p <= n
    BY <1>1, <1>2
<1>5. /\ rest \in Seq(S) /\ Len(rest) = n - p
      /\ \A i \in 1..(n - p) : rest[i] = name[r + p + i]
    <2>1. r + p + 1 \in Nat /\ r + n \in Nat /\ Len(name) = r + n
        BY <1>1
    <2>2. r + p + 1 >= 1 /\ r + n <= Len(name)
        BY <1>1
    <2>3. rest \in Seq(S)
        BY <1>1, <1>3, <2>1, <2>2
    <2>4. Len(rest) = n - p
        BY <1>1, <1>3, <1>4, <2>1, <2>2
    <2>5. ASSUME NEW i \in 1..(n - p) PROVE rest[i] = name[r + p + i]
        <3>1. i \in 1..((r + n) - (r + p + 1) + 1)
            BY <1>1
        <3>2. rest[i] = name[i + (r + p + 1) - 1]
            BY <1>1, <1>3, <2>1, <2>2, <3>1
        <3>3. i + (r + p + 1) - 1 = r + p + i
            BY <1>1
        <3> QED BY <3>2, <3>3
    <2> QED BY <2>3, <2>4, <2>5
<1>6. \A i \in 1..p : name[r + i] = path[i]
    <2> SUFFICES ASSUME NEW i \in 1..p PROVE name[r + i] = path[i]
        OBVIOUS
    <2>1. r + i \in 1..(r + p) /\ (root \o path)[r + i] = path[i]
        BY <1>1
    <2>2. SubSeq(name, 1, r + p)[r + i] = name[r + i]
        BY <1>1, <1>2, <2>1
    <2> QED BY <1>2, <2>1, <2>2
<1>7. path \o rest \in Seq(S) /\ Len(path \o rest) = n
    BY <1>1, <1>4, <1>5 DEF p
<1>8. ASSUME NEW i \in 1..n PROVE (path \o rest)[i] = place[i]
    <2>1. name[r + i] = place[i]
        BY <1>1
    <2>2. CASE i <= p
        <3>1. i \in 1..p /\ (path \o rest)[i] = path[i]
            BY <1>1, <1>5, <2>2 DEF p
        <3> QED BY <1>6, <2>1, <3>1
    <2>3. CASE i > p
        <3>1. i - p \in 1..(n - p) /\ r + p + (i - p) = r + i
            BY <1>1, <2>3
        <3>2. (path \o rest)[i] = rest[i - p]
            BY <1>1, <1>5, <1>4, <2>3, <3>1 DEF p
        <3> QED BY <1>5, <2>1, <3>1, <3>2
    <2>4. i <= p \/ i > p
        BY <1>1
    <2> QED BY <2>2, <2>3, <2>4
<1>9. path \o rest = place
    <2> DEFINE whole == path \o rest
    <2>1. whole \in Seq(S) /\ Len(whole) = Len(place) /\ \A i \in 1..Len(place) : whole[i] = place[i]
        BY <1>7, <1>8 DEF n
    <2> HIDE DEF whole
    <2>2. whole = place
        BY <2>1
    <2> QED BY <2>2 DEF whole
<1> QED BY <1>9 DEF rest

\* The name of the repository is the beginning of the name of each of its modules.
LEMMA NameOfTheRepository ==
    ASSUME NEW rows, Reported(rows), NamedByPath(rows), ModuleRows(rows) # {}
    PROVE  RepositoryName(rows) \in Seq(STRING) /\ ".." \notin ToSet(RepositoryName(rows))
<1> DEFINE m == CHOOSE m \in ModuleRows(rows) : TRUE
           k == Len(m.name) - Len(m.path)
           root == SubSeq(m.name, 1, k)
<1>1. m \in ModuleRows(rows)
    OBVIOUS
<1>2. RepositoryName(rows) = root /\ m.name = root \o m.path
    BY <1>1 DEF NamedByPath, RepositoryName
<1>3. m.name \in Seq(STRING) /\ m.path \in Seq(STRING) /\ ".." \notin ToSet(m.name)
    BY <1>1 DEF Reported, ModuleRows
<1> HIDE DEF m
<1>4. k \in Int /\ k <= Len(m.name)
    <2>1. Len(m.name) \in Nat /\ Len(m.path) \in Nat
        BY <1>3
    <2>2. \A a, b \in Nat : a - b \in Int /\ a - b <= a
        OBVIOUS
    <2>3. Len(m.name) - Len(m.path) \in Int /\ Len(m.name) - Len(m.path) <= Len(m.name)
        BY <2>1, <2>2
    <2> QED BY <2>3
<1> HIDE DEF k
<1>5. root \in Seq(STRING)
    BY <1>3, <1>4
<1>6. ".." \notin ToSet(root)
    <2> HIDE DEF root
    <2>1. \A i \in 1..Len(root) : i \in 1..Len(root \o m.path) /\ (root \o m.path)[i] = root[i]
        BY <1>3, <1>5
    <2>2. \A i \in DOMAIN root : i \in DOMAIN m.name /\ m.name[i] = root[i]
        BY <1>2, <1>3, <1>5, <2>1
    <2> QED BY <1>3, <2>2 DEF ToSet
<1> QED BY <1>2, <1>5, <1>6

\* A module that is named for its place leads to each place below it by its name.
LEMMA NamedPlace ==
    ASSUME NEW rows, Reported(rows), NamedByPath(rows), NEW place \in Seq(STRING),
           HasParent(RepositoryName(rows) \o place, ModuleNames(rows))
    PROVE  LET name == RepositoryName(rows) \o place
               m == Module(rows, match_parent_module(name, ModuleNames(rows)))
           IN  m.path \in Seq(STRING) /\ m.path \o path_to_subpackage(m.name, name) = place
<1> DEFINE root == RepositoryName(rows)
           name == root \o place
           m == Module(rows, match_parent_module(name, ModuleNames(rows)))
<1>1. m \in ModuleRows(rows) /\ contains_package(m.name, name)
    BY ParentModule
<1>2. m.name = root \o m.path /\ m.path \in Seq(STRING)
    BY <1>1 DEF NamedByPath, Reported, ModuleRows
<1>3. root \in Seq(STRING)
    BY <1>1, NameOfTheRepository
<1>4. m.path \o path_to_subpackage(root \o m.path, root \o place) = place
    <2> HIDE DEF root, m
    <2> QED BY <1>1, <1>2, <1>3, Rest
<1> HIDE DEF root, m
<1> QED BY <1>2, <1>4 DEF root, m

\* The purl of a module with the path behind it.
LEMMA WithinPlace ==
    ASSUME NEW rows, Reported(rows), NamedByPath(rows), NEW place \in Seq(STRING),
           HasParent(RepositoryName(rows) \o place, ModuleNames(rows))
    PROVE  LET purl == Within(rows, RepositoryName(rows) \o place)
           IN  /\ purl.type = "golang" /\ HasParent(purl.name, ModuleNames(rows))
               /\ Place(rows, purl) = place
<1> DEFINE names == ModuleNames(rows)
           name == RepositoryName(rows) \o place
           m == Module(rows, match_parent_module(name, names))
           sub == path_to_subpackage(m.name, name)
           purl == Within(rows, name)
<1>1. /\ m \in ModuleRows(rows) /\ m \in rows /\ m.type = "gomod"
      /\ m.name = match_parent_module(name, names) /\ m.name \in names
    BY ParentModule DEF ModuleRows
<1>2. to_purl(m, <<>>) = Purl("golang", m.name, m.version, <<>>)
    BY <1>1 DEF to_purl, Reported
<1>3. purl = [Purl("golang", m.name, m.version, <<>>) EXCEPT !.sub = sub]
    BY <1>1, <1>2 DEF Within, ModulePurl
<1>4. purl.type = "golang" /\ purl.name = m.name /\ purl.sub = sub
    <2> HIDE DEF m, sub, purl
    <2> QED BY <1>3 DEF Purl
<1>5. HasParent(m.name, names) /\ match_parent_module(m.name, names) = m.name
    <2> HIDE DEF m
    <2> QED BY <1>1, OwnModule
<1>6. Module(rows, match_parent_module(m.name, names)) = m
    BY <1>1, <1>5
<1>7. Place(rows, purl) = m.path \o path_to_subpackage(m.name, m.name) \o sub
    <2> HIDE DEF m, sub, purl
    <2> QED BY <1>4, <1>6 DEF Place
<1>8. path_to_subpackage(m.name, m.name) = <<>> /\ m.path \in Seq(STRING)
    <2>1. m.name \in Seq(STRING) /\ m.path \in Seq(STRING)
        BY <1>1 DEF Reported
    <2> HIDE DEF m
    <2> QED BY <2>1 DEF path_to_subpackage
<1>9. m.path \o sub = place
    BY NamedPlace
<1>10. m.path \o <<>> = m.path
    <2> HIDE DEF m
    <2> QED BY <1>8
<1> HIDE DEF m, sub, purl
<1>11. Place(rows, purl) = place
    BY <1>7, <1>8, <1>9, <1>10
<1> QED BY <1>4, <1>5, <1>11 DEF purl

\* The purl of a package by its name.
LEMMA NamePlace ==
    ASSUME NEW rows, Reported(rows), NamedByPath(rows), NEW place \in Seq(STRING),
           HasParent(RepositoryName(rows) \o place, ModuleNames(rows)), NEW v
    PROVE  Place(rows, Purl("golang", RepositoryName(rows) \o place, v, <<>>)) = place
<1> DEFINE name == RepositoryName(rows) \o place
           m == Module(rows, match_parent_module(name, ModuleNames(rows)))
           purl == Purl("golang", name, v, <<>>)
<1>1. purl.name = name /\ purl.sub = <<>>
    <2> HIDE DEF name
    <2> QED BY DEF Purl
<1>2. m.path \in Seq(STRING) /\ m.path \o path_to_subpackage(m.name, name) = place
    BY NamedPlace
<1>3. Place(rows, purl) = m.path \o path_to_subpackage(m.name, name) \o <<>>
    <2> HIDE DEF name, purl
    <2> QED BY <1>1 DEF Place
<1>4. place \o <<>> = place
    OBVIOUS
<1> HIDE DEF m, name, purl
<1> QED BY <1>2, <1>3, <1>4 DEF purl, name

\* The purl of a local dependency of one package.
LEMMA LocalPurl ==
    ASSUME NEW rows, Reported(rows), NamedByPath(rows), NEW row \in rows, NEW d \in Used(row),
           NEW repo, NEW ref,
           row.type \in {"gomod", "go-package"}, d.version.kind = "path",
           NEW directory,
           directory = normpath(Module(rows, match_parent_module(row.name, ModuleNames(rows))).path
                                    \o d.version.parts),
           HasParent(d.name, ModuleNames(rows)) => d.name = RepositoryName(rows) \o directory
    PROVE  LET purl == DepPurl(rows, row, d, repo, ref)
           IN  /\ purl.type = "golang" /\ HasParent(purl.name, ModuleNames(rows))
               /\ Place(rows, purl) = directory
<1> DEFINE names == ModuleNames(rows)
           root == RepositoryName(rows)
           user == match_parent_module(row.name, names)
           m == Module(rows, user)
           parts == d.version.parts
           name == root \o directory
           purl == DepPurl(rows, row, d, repo, ref)
<1>1. d \in row.deps /\ d.type = row.type /\ d \in Dependencies /\ parts \in Seq(STRING)
    BY DependencyTyped DEF Used
<1>2. /\ HasParent(row.name, names) /\ ".." \notin ToSet(directory)
      /\ HasParent(d.name, names) \/ HasParent(normpath(user \o parts), names)
    BY DEF Reported
<1>3. m \in ModuleRows(rows) /\ m.name = user
    BY <1>2, ParentModule
<1>4. m.path \in Seq(STRING) /\ m.name = root \o m.path
    BY <1>3 DEF Reported, ModuleRows, NamedByPath
<1>5. root \in Seq(STRING) /\ ".." \notin ToSet(root)
    BY <1>3, NameOfTheRepository
<1>6. /\ m.path \o parts \in Seq(STRING) /\ directory \in Seq(STRING)
      /\ normpath(user \o parts) = name
    <2> DEFINE s == m.path \o parts
    <2> HIDE DEF m, root, parts, user
    <2>1. s \in Seq(STRING) /\ user \o parts = root \o s
        <3>1. \A a, b, c \in Seq(STRING) : b \o c \in Seq(STRING) /\ (a \o b) \o c = a \o (b \o c)
            OBVIOUS
        <3>2. (root \o m.path) \o parts = root \o s /\ s \in Seq(STRING)
            BY <1>1, <1>4, <1>5, <3>1
        <3>3. user = root \o m.path
            BY <1>3, <1>4
        <3> QED BY <3>2, <3>3
    <2>2. directory = normpath(s)
        BY DEF m, parts, user
    <2> HIDE DEF s
    <2>3. normpath(s) \in Seq(STRING)
        <3>1. Len(s) \in 0..Len(s)
            BY <2>1
        <3> QED BY <2>1, <3>1, NormpathSteps
    <2>4. normpath(root \o s) = root \o normpath(s)
        BY <1>2, <1>5, <2>1, <2>2, NormpathUnder
    <2> QED BY <2>1, <2>2, <2>3, <2>4 DEF s
<1>7. HasParent(name, names) /\ (HasParent(d.name, names) => d.name = name)
    BY <1>2, <1>6
<1>8. CASE purl = Within(rows, name)
    BY <1>6, <1>7, <1>8, WithinPlace
<1>9. CASE row.type = "gomod"
    <2>1. row.name \in names
        BY <1>9 DEF ModuleNames, ModuleRows
    <2>2. user = row.name
        BY <2>1, OwnModule
    <2>3. purl = IF HasParent(d.name, names) THEN Within(rows, d.name)
                 ELSE Within(rows, normpath(row.name \o parts))
        BY <1>9 DEF DepPurl, ModuleDepPurl
    <2>4. purl = Within(rows, name)
        <3> HIDE DEF purl, name, names, user, parts
        <3> QED BY <1>6, <1>7, <2>2, <2>3
    <2> QED BY <1>8, <2>4
<1>10. CASE row.type = "go-package" /\ ~HasParent(d.name, names)
    <2>1. purl = Within(rows, normpath(user \o parts))
        BY <1>10 DEF DepPurl, PackageDepPurl
    <2>2. purl = Within(rows, name)
        BY <1>6, <2>1
    <2> QED BY <1>8, <2>2
<1>11. CASE row.type = "go-package" /\ HasParent(d.name, names)
    <2> DEFINE v == Module(rows, match_parent_module(d.name, names)).version
               e == [d EXCEPT !.version = v]
    <2>1. v.kind # "path"
        BY <1>11, ParentModule DEF ModuleRows, Reported
    <2>2. purl = to_purl(e, <<>>)
        BY <1>11 DEF DepPurl, PackageDepPurl
    <2>3. e.type = "go-package" /\ e.version = v /\ e.name = name
        <3> HIDE DEF v, name
        <3> QED BY <1>1, <1>7, <1>11 DEF Dependencies
    <2>4. to_purl(e, <<>>) = Purl("golang", e.name, e.version, <<>>)
        <3> HIDE DEF e, v
        <3> QED BY <2>1, <2>3 DEF to_purl
    <2>5. purl = Purl("golang", name, v, <<>>)
        BY <2>2, <2>3, <2>4
    <2>6. Place(rows, purl) = directory
        <3> HIDE DEF v
        <3> QED BY <1>6, <1>7, <2>5, NamePlace
    <2>7. purl.type = "golang" /\ purl.name = name
        <3> HIDE DEF purl, v, name
        <3> QED BY <2>5 DEF Purl
    <2> QED BY <1>7, <2>6, <2>7
<1> QED BY <1>9, <1>10, <1>11

\* The purl of every dependency that go.mod replaces by a directory of the repository leads to this
\* directory, by whichever of its ways the code takes, as long as the names say where things are
\* (_get_local_go_package_dep_purl, process_gomod).
THEOREM LocalPurlsAlwaysLeadToThePlace == ReadsSpec => []LocalPurlsLeadToThePlace
<1>1. ReadsIInv => LocalPurlsLeadToThePlace
    <2> SUFFICES ASSUME ReadsIInv, NEW r \in Fresh, NamedByPath(packages[r]),
                        NEW row \in packages[r], NEW d \in Used(row),
                        row.type \in {"gomod", "go-package"}, d.version.kind = "path",
                        NEW directory,
                        directory = normpath(Module(packages[r], match_parent_module(row.name,
                                        ModuleNames(packages[r]))).path \o d.version.parts),
                        HasParent(d.name, ModuleNames(packages[r])) =>
                            d.name = RepositoryName(packages[r]) \o directory
                 PROVE  LET purl == DepPurl(packages[r], row, d, RepoOf[r], RefOf[r])
                        IN  /\ purl.type = "golang"
                            /\ HasParent(purl.name, ModuleNames(packages[r]))
                            /\ Place(packages[r], purl) = directory
        BY DEF LocalPurlsLeadToThePlace
    <2>1. r \in Ids /\ packages[r] = UNION files[r] /\ files[r] \in FileSets[r]
        BY DEF Fresh, ReadsIInv, RequestsOK, RequestOK, Rows
    <2>2. Reported(packages[r])
        BY <2>1, RowsAssumption DEF Reported
    <2> QED BY <2>2, LocalPurl
<1> QED BY <1>1, ReadsInvariance, PTL

-----------------------------------------------------------------------------
(***************************************************************************)
(* The list of all dependencies: gathered, sorted, and without duplicates. *)
(***************************************************************************)

\* What is in a list that grows by one.
LEMMA OneMore ==
    ASSUME NEW S, NEW s \in Seq(S), NEW x \in S
    PROVE  /\ ToSet(Append(s, x)) = ToSet(s) \cup {x}
           /\ Append(s, x) # <<>> /\ Last(Append(s, x)) = x
<1> DEFINE t == Append(s, x)
           n == Len(s)
<1>1. /\ t \in Seq(S) /\ n \in Nat /\ Len(t) = n + 1 /\ t[n + 1] = x
      /\ \A i \in 1..n : t[i] = s[i]
    OBVIOUS
<1>2. t # <<>> /\ Last(t) = x
    BY <1>1 DEF Last
<1>3. DOMAIN t = 1..(n + 1) /\ DOMAIN s = 1..n
    BY <1>1
<1> HIDE DEF t, n
<1>4. ToSet(t) = {t[i] : i \in 1..(n + 1)} /\ ToSet(s) = {s[i] : i \in 1..n}
    BY <1>3 DEF ToSet
<1>5. {t[i] : i \in 1..(n + 1)} = {s[i] : i \in 1..n} \cup {x}
    <2>1. \A i \in 1..(n + 1) : t[i] = x \/ (i \in 1..n /\ t[i] = s[i])
        BY <1>1
    <2>2. n + 1 \in 1..(n + 1) /\ \A i \in 1..n : i \in 1..(n + 1)
        BY <1>1
    <2> QED BY <1>1, <2>1, <2>2
<1> QED BY <1>2, <1>4, <1>5 DEF t

\* One package more (unique_packages).
UniqueStep(list, k, out) ==
    IF out # <<>> /\ Last(out) = list[k] THEN out ELSE Append(out, list[k])

\* unique_packages goes through a list from the first package to the last.
LEMMA UniqueSteps ==
    ASSUME NEW S, NEW list \in Seq(S)
    PROVE  \E out \in [0..Len(list) -> Seq(S)] :
               /\ out[0] = <<>>
               /\ \A k \in 1..Len(list) : out[k] = UniqueStep(list, k, out[k - 1])
               /\ unique_packages(list) = out[Len(list)]
<1> DEFINE n == Len(list)
           X == Seq(S)
           step == [x \in (1..n) \X X |-> UniqueStep(list, x[1], x[2])]
           Iter(g) == g = [s \in SUBSET (1..n) |->
                              IF s = {} THEN <<>> ELSE UniqueStep(list, Max(s), g[s \ {Max(s)}])]
           f == CHOOSE g : Iter(g)
<1>1. n \in Nat /\ DOMAIN list = 1..n /\ <<>> \in X
    OBVIOUS
<1>2. \A k \in 1..n : \A y \in X : UniqueStep(list, k, y) \in X
    BY <1>1 DEF UniqueStep
<1>3. unique_packages(list) = f[1..n]
    BY <1>1 DEF unique_packages, FoldLeft, MapThenFoldSet, UniqueStep
<1>4. \A k \in 1..n : \A y \in X : step[<<k, y>>] = UniqueStep(list, k, y) /\ step[<<k, y>>] \in X
    BY <1>2
<1> HIDE DEF step
<1>5. Onward(n, X, <<>>, step)
    BY <1>1, <1>4 DEF Onward
<1>6. Iter(f)
    <2>1. PICK g \in [SUBSET (1..n) -> X] : OverPositions(n, <<>>, step, g)
        BY <1>5, FoldOverPositions
    <2> DEFINE value(s) == IF s = {} THEN <<>> ELSE UniqueStep(list, Max(s), g[s \ {Max(s)}])
    <2>2. \A s \in SUBSET (1..n) : g[s] = value(s)
        <3> SUFFICES ASSUME NEW s \in SUBSET (1..n), s # {}
                     PROVE  g[s] = UniqueStep(list, Max(s), g[s \ {Max(s)}])
            BY <2>1 DEF OverPositions
        <3>1. Max(s) \in 1..n /\ g[s \ {Max(s)}] \in X
            BY <1>1, Greatest
        <3> QED BY <1>4, <2>1, <3>1 DEF OverPositions
    <2>3. g = [s \in SUBSET (1..n) |-> value(s)]
        <3> HIDE DEF value
        <3> QED BY <2>2
    <2>4. Iter(g)
        BY <2>3
    <2> HIDE DEF Iter
    <2> QED BY <2>4
<1> HIDE DEF f
<1>7. /\ \A s \in SUBSET (1..n) : s = {} => f[s] = <<>>
      /\ \A s \in SUBSET (1..n) : s # {} => f[s] = UniqueStep(list, Max(s), f[s \ {Max(s)}])
    BY <1>6
<1>8. Follows(n, X, <<>>, step, f)
    BY <1>1, <1>4, <1>7, Greatest DEF Follows
<1>9. PICK out \in [0..n -> X] : Stepwise(n, <<>>, step, out) /\ out[n] = f[1..n]
    BY <1>5, <1>8, OneByOne
<1>10. ASSUME NEW k \in 1..n PROVE out[k] = UniqueStep(list, k, out[k - 1])
    <2>1. k - 1 \in 0..n
        BY <1>1
    <2> QED BY <1>4, <1>9, <2>1 DEF Stepwise
<1> QED BY <1>3, <1>9, <1>10 DEF Stepwise

-----------------------------------------------------------------------------
(* The order of the dependencies *)

Known == ToSet(DepOrder)

\* Each dependency has a place of its own in the order.
LEMMA RankOfDependency ==
    /\ \A d \in Known : Rank(d) \in Nat /\ DepOrder[Rank(d)] = d
    /\ \A d, e \in Known : Rank(d) = Rank(e) => d = e
<1>1. DOMAIN DepOrder \subseteq Nat
    BY DepOrderAssumption
<1>2. ASSUME NEW d \in Known PROVE Rank(d) \in Nat /\ DepOrder[Rank(d)] = d
    <2>1. \E i \in DOMAIN DepOrder : DepOrder[i] = d
        BY DEF Known, ToSet
    <2>2. Rank(d) \in DOMAIN DepOrder /\ DepOrder[Rank(d)] = d
        BY <2>1 DEF Rank
    <2> QED BY <1>1, <2>2
<1> QED BY <1>2

\* A sequence has finitely many members.
LEMMA FinitelyMany ==
    ASSUME NEW S, NEW s \in Seq(S)
    PROVE  IsFiniteSet(ToSet(s))
<1>1. s \in Surjection(DOMAIN s, ToSet(s))
    BY DEF Surjection, ToSet
<1>2. DOMAIN s = 1..Len(s) /\ Len(s) \in Nat
    OBVIOUS
<1>3. IsFiniteSet(DOMAIN s)
    BY <1>2, FS_Interval
<1> QED BY <1>1, <1>3, FS_Surjection

\* All dependencies of all packages are gathered.
LEMMA AllAreGathered ==
    ASSUME NEW rows, IsFiniteSet(rows), \A row \in rows : row.deps \subseteq Known
    PROVE  /\ Gathered(rows) \in Seq(Known)
           /\ ToSet(Gathered(rows)) = UNION {row.deps : row \in rows}
<1> DEFINE E == UNION {{r} \X r.deps : r \in rows}
           X == Seq(Known)
           step == [x \in E \X X |-> Append(x[2], x[1][2])]
           choose == [s \in SUBSET E |-> CHOOSE x \in s : TRUE]
           Iter(g) == g = [s \in SUBSET E |->
                              IF s = {} THEN <<>>
                              ELSE LET x == CHOOSE x \in s : TRUE IN Append(g[s \ {x}], x[2])]
           f == CHOOSE g : Iter(g)
<1>1. Gathered(rows) = f[E]
    BY DEF Gathered, FoldSet, MapThenFoldSet
<1>2. E \subseteq rows \X Known
    OBVIOUS
<1>3. IsFiniteSet(E)
    <2>1. IsFiniteSet(Known)
        BY FinitelyMany, DepOrderAssumption DEF Known
    <2>2. IsFiniteSet(rows \X Known)
        BY <2>1, FS_Product
    <2> HIDE DEF E
    <2> QED BY <1>2, <2>2, FS_Subset
<1>4. \A x \in E : \A y \in X : step[<<x, y>>] = Append(y, x[2]) /\ step[<<x, y>>] \in X
    BY <1>2
<1>5. /\ \A s \in SUBSET E : choose[s] = CHOOSE x \in s : TRUE
      /\ \A s \in SUBSET E : s # {} => choose[s] \in s
    OBVIOUS
<1>6. <<>> \in X
    OBVIOUS
<1> HIDE DEF E, step, choose, X
<1>7. PICK g \in [SUBSET E -> X] : FoldOver(E, <<>>, choose, step, g)
    <2>1. \A x \in E : \A y \in X : step[<<x, y>>] \in X
        BY <1>4
    <2>2. \A s \in SUBSET E : s # {} => choose[s] \in s
        BY <1>5
    <2> QED BY <1>3, <1>6, <2>1, <2>2, FoldExists
<1>8. Iter(g)
    <2> DEFINE value(s) == IF s = {} THEN <<>>
                           ELSE LET x == CHOOSE x \in s : TRUE IN Append(g[s \ {x}], x[2])
    <2>1. \A s \in SUBSET E : g[s] = value(s)
        <3> SUFFICES ASSUME NEW s \in SUBSET E, s # {}
                     PROVE  g[s] = Append(g[s \ {choose[s]}], choose[s][2])
            BY <1>5, <1>7 DEF FoldOver
        <3>1. choose[s] \in E /\ s \ {choose[s]} \in SUBSET E
            BY <1>5
        <3>2. g[s \ {choose[s]}] \in X
            BY <3>1
        <3>3. g[s] = step[<<choose[s], g[s \ {choose[s]}]>>]
            BY <1>7 DEF FoldOver
        <3> QED BY <1>4, <3>1, <3>2, <3>3
    <2>2. g = [s \in SUBSET E |-> value(s)]
        <3> HIDE DEF value
        <3> QED BY <2>1
    <2> QED BY <2>2
<1>9. Iter(f)
    <2> HIDE DEF Iter
    <2> QED BY <1>8
<1>10. \A s \in SUBSET E : /\ s = {} => f[s] = <<>>
                           /\ s # {} => f[s] = Append(f[s \ {choose[s]}], choose[s][2])
    <2> HIDE DEF f
    <2> QED BY <1>5, <1>9
<1> HIDE DEF f
<1>11. \A s \in SUBSET E : f[s] \in X /\ ToSet(f[s]) = {e[2] : e \in s}
    <2> DEFINE n == Cardinality(E)
               Whole(s) == f[s] \in X /\ ToSet(f[s]) = {e[2] : e \in s}
               Good == {k \in 0..n : \A s \in SUBSET E : Cardinality(s) <= k => Whole(s)}
    <2>1. n \in Nat /\ \A s \in SUBSET E : IsFiniteSet(s) /\ Cardinality(s) \in 0..n
        BY <1>3, FS_Subset, FS_CardinalityType
    <2>2. Whole({})
        <3>1. f[{}] = <<>> /\ {} \in SUBSET E
            BY <1>10
        <3> QED BY <1>6, <3>1 DEF ToSet
    <2>3. 0 \in Good
        <3>1. \A s \in SUBSET E : Cardinality(s) <= 0 => s = {}
            BY <2>1, FS_EmptySet
        <3>2. \A s \in SUBSET E : Cardinality(s) <= 0 => Whole(s)
            <4> HIDE DEF Whole
            <4> QED BY <2>2, <3>1
        <3>3. 0 \in 0..n
            BY <2>1
        <3> HIDE DEF Whole
        <3> QED BY <3>2, <3>3
    <2>4. ASSUME NEW k \in 1..n, k - 1 \in Good PROVE k \in Good
        <3> SUFFICES ASSUME NEW s \in SUBSET E, Cardinality(s) <= k, s # {} PROVE Whole(s)
            <4>1. k \in 0..n
                BY <2>1
            <4>2. \A s \in SUBSET E : s = {} => Whole(s)
                <5> HIDE DEF Whole
                <5> QED BY <2>2
            <4> HIDE DEF Whole
            <4> QED BY <4>1, <4>2
        <3> DEFINE x == choose[s]
                   rest == s \ {x}
        <3>1. x \in s /\ rest \in SUBSET E /\ x \in E /\ s = rest \cup {x}
            BY <1>5
        <3>2. Cardinality(rest) <= k - 1
            <4>1. Cardinality(rest) = Cardinality(s) - 1
                BY <2>1, <3>1, FS_RemoveElement
            <4> QED BY <2>1, <4>1
        <3>3. Whole(rest)
            <4> HIDE DEF Whole, rest
            <4> QED BY <2>4, <3>1, <3>2
        <3>4. f[s] = Append(f[rest], x[2])
            BY <1>10
        <3>5. x[2] \in Known
            BY <1>2, <3>1
        <3>6. f[s] \in X /\ ToSet(f[s]) = ToSet(f[rest]) \cup {x[2]}
            <4> DEFINE t == f[rest]
            <4>1. t \in Seq(Known)
                BY <3>3 DEF X
            <4> HIDE DEF t, x
            <4>2. Append(t, x[2]) \in Seq(Known)
                BY <3>5, <4>1
            <4>3. ToSet(Append(t, x[2])) = ToSet(t) \cup {x[2]}
                BY <3>5, <4>1, OneMore
            <4> QED BY <3>4, <4>2, <4>3 DEF t, X
        <3>7. {e[2] : e \in s} = {e[2] : e \in rest} \cup {x[2]}
            <4> HIDE DEF x, rest
            <4> QED BY <3>1
        <3> HIDE DEF rest, x
        <3> QED BY <3>3, <3>6, <3>7
    <2>5. n \in Good
        <3>1. 0..n \subseteq Good
            <4> HIDE DEF Good
            <4> QED BY <2>1, <2>3, <2>4, UpTo
        <3> HIDE DEF Good
        <3> QED BY <2>1, <3>1
    <2> QED BY <2>1, <2>5
<1>12. {e[2] : e \in E} = UNION {row.deps : row \in rows}
    <2>1. ASSUME NEW row \in rows, NEW d \in row.deps PROVE \E e \in E : e[2] = d
        <3>1. <<row, d>> \in E
            BY DEF E
        <3> QED BY <3>1
    <2>2. ASSUME NEW e \in E PROVE \E row \in rows : e[2] \in row.deps
        BY DEF E
    <2> QED BY <2>1, <2>2
<1> QED BY <1>1, <1>11, <1>12 DEF X

\* Sorting moves the packages to other places, with none before one that is less.
LEMMA SortedInOrder ==
    ASSUME NEW list \in Seq(Known)
    PROVE  /\ sorted(list) \in Seq(Known) /\ Len(sorted(list)) = Len(list)
           /\ ToSet(sorted(list)) = ToSet(list)
           /\ \A i \in 1..(Len(list) - 1) : Rank(sorted(list)[i]) <= Rank(sorted(list)[i + 1])
<1> DEFINE n == Len(list)
           rank(j) == Rank(list[j])
           Less(j, k) == rank(j) < rank(k) \/ (rank(j) = rank(k) /\ j < k)
           size(k) == Cardinality(Before(list, k))
           at(i) == CHOOSE k \in 1..n : size(k) = i - 1
           place == [k \in 1..n |-> size(k) + 1]
<1>1. /\ n \in Nat /\ DOMAIN list = 1..n
      /\ \A k \in 1..n : list[k] \in Known
    OBVIOUS
<1>2. \A k \in 1..n : rank(k) \in Nat
    BY <1>1, RankOfDependency
<1> HIDE DEF n, rank
<1>3. /\ \A j, k \in 1..n : j # k => Less(j, k) \/ Less(k, j)
      /\ \A j \in 1..n : ~Less(j, j)
      /\ \A i, j, k \in 1..n : Less(i, j) /\ Less(j, k) => Less(i, k)
    BY <1>1, <1>2
<1>4. \A k \in 1..n : Before(list, k) = {j \in 1..n : Less(j, k)}
    BY <1>1 DEF Before, rank
<1> HIDE DEF Less
<1>5. \A k \in 1..n : /\ IsFiniteSet(Before(list, k)) /\ size(k) \in 0..(n - 1)
    <2> SUFFICES ASSUME NEW k \in 1..n
                 PROVE  IsFiniteSet(Before(list, k)) /\ size(k) \in 0..(n - 1)
        OBVIOUS
    <2>1. IsFiniteSet(1..n) /\ Cardinality(1..n) = n
        <3>1. IsFiniteSet(1..n) /\ Cardinality(1..n) = IF 1 > n THEN 0 ELSE n - 1 + 1
            BY <1>1, FS_Interval
        <3> QED BY <1>1, <3>1
    <2>2. Before(list, k) \in SUBSET (1..n) /\ k \notin Before(list, k)
        BY <1>3, <1>4
    <2>3. IsFiniteSet(Before(list, k)) /\ size(k) <= n /\ (n = size(k) => 1..n = Before(list, k))
        BY <2>1, <2>2, FS_Subset
    <2>4. size(k) \in Nat
        BY <2>3, FS_CardinalityType
    <2> HIDE DEF size
    <2> QED BY <1>1, <2>2, <2>3, <2>4
<1>6. \A j, k \in 1..n : Less(j, k) => size(j) < size(k)
    <2> SUFFICES ASSUME NEW j \in 1..n, NEW k \in 1..n, Less(j, k) PROVE size(j) < size(k)
        OBVIOUS
    <2>1. Before(list, j) \in SUBSET Before(list, k) /\ Before(list, j) # Before(list, k)
        BY <1>3, <1>4
    <2>2. size(j) <= size(k) /\ size(k) # size(j)
        BY <1>5, <2>1, FS_Subset
    <2>3. size(j) \in Nat /\ size(k) \in Nat
        <3> HIDE DEF size
        <3> QED BY <1>5
    <2> HIDE DEF size
    <2> QED BY <2>2, <2>3
<1> HIDE DEF size
<1>7. \A j, k \in 1..n : size(j) = size(k) => j = k
    <2>1. \A j, k \in 1..n : size(j) \in Nat /\ (j # k => size(j) < size(k) \/ size(k) < size(j))
        BY <1>3, <1>5, <1>6
    <2> QED BY <2>1
<1>8. place \in Injection(1..n, 1..n)
    <2>1. \A k \in 1..n : size(k) + 1 \in 1..n
        BY <1>1, <1>5
    <2>2. \A j, k \in 1..n : size(j) + 1 = size(k) + 1 => j = k
        BY <1>5, <1>7
    <2> QED BY <2>1, <2>2 DEF Injection, IsInjective
<1>9. place \in Surjection(1..n, 1..n)
    <2>1. IsFiniteSet(1..n)
        BY <1>1, FS_Interval
    <2> HIDE DEF place
    <2> QED BY <1>8, <2>1, FS_Injection
<1>10. \A i \in 1..n : at(i) \in 1..n /\ size(at(i)) = i - 1
    <2> SUFFICES ASSUME NEW i \in 1..n PROVE at(i) \in 1..n /\ size(at(i)) = i - 1
        OBVIOUS
    <2>1. \E k \in 1..n : place[k] = i
        BY <1>9 DEF Surjection
    <2>2. PICK k \in 1..n : size(k) + 1 = i
        BY <2>1
    <2>3. size(k) = i - 1
        BY <1>1, <1>5, <2>2
    <2> QED BY <2>3
<1>11. \A k \in 1..n : size(k) + 1 \in 1..n /\ at(size(k) + 1) = k
    <2> SUFFICES ASSUME NEW k \in 1..n PROVE size(k) + 1 \in 1..n /\ at(size(k) + 1) = k
        OBVIOUS
    <2>1. size(k) + 1 \in 1..n /\ (size(k) + 1) - 1 = size(k)
        BY <1>1, <1>5
    <2>2. at(size(k) + 1) \in 1..n /\ size(at(size(k) + 1)) = size(k)
        BY <1>10, <2>1
    <2> HIDE DEF at
    <2> QED BY <1>7, <2>1, <2>2
<1>12. sorted(list) = [i \in 1..n |-> list[at(i)]]
    BY <1>1 DEF sorted, size
<1> HIDE DEF at
<1>13. /\ sorted(list) \in Seq(Known) /\ Len(sorted(list)) = n
       /\ \A i \in 1..n : sorted(list)[i] = list[at(i)]
    <2> DEFINE s == [i \in 1..n |-> list[at(i)]]
    <2>1. s \in Seq(Known) /\ Len(s) = n /\ \A i \in 1..n : s[i] = list[at(i)]
        BY <1>1, <1>10
    <2> QED BY <1>12, <2>1
<1> HIDE DEF place
<1>14. ToSet(sorted(list)) = ToSet(list)
    <2>1. DOMAIN sorted(list) = 1..n
        BY <1>12
    <2>2. \A i \in 1..n : \E k \in 1..n : sorted(list)[i] = list[k]
        BY <1>10, <1>13
    <2>3. \A k \in 1..n : \E i \in 1..n : sorted(list)[i] = list[k]
        BY <1>11, <1>13
    <2>4. ToSet(sorted(list)) = {sorted(list)[i] : i \in 1..n}
        BY <2>1 DEF ToSet
    <2>5. ToSet(list) = {list[k] : k \in 1..n}
        BY <1>1 DEF ToSet
    <2> QED BY <2>2, <2>3, <2>4, <2>5
<1>15. ASSUME NEW i \in 1..(n - 1) PROVE Rank(sorted(list)[i]) <= Rank(sorted(list)[i + 1])
    <2>1. i \in 1..n /\ i + 1 \in 1..n
        BY <1>1
    <2>2. at(i) \in 1..n /\ at(i + 1) \in 1..n /\ size(at(i)) = i - 1 /\ size(at(i + 1)) = i
        BY <1>10, <2>1
    <2>3. ~Less(at(i + 1), at(i))
        <3> SUFFICES ASSUME Less(at(i + 1), at(i)) PROVE FALSE
            OBVIOUS
        <3>1. size(at(i + 1)) < size(at(i))
            BY <1>6, <2>2
        <3> QED BY <2>1, <2>2, <3>1
    <2>4. rank(at(i)) <= rank(at(i + 1))
        BY <1>2, <2>2, <2>3 DEF Less
    <2>5. sorted(list)[i] = list[at(i)] /\ sorted(list)[i + 1] = list[at(i + 1)]
        BY <1>13, <2>1
    <2> QED BY <2>4, <2>5 DEF rank
<1> QED BY <1>13, <1>14, <1>15 DEF n

\* What is left of a sorted list has each package once, in strict order.
LEMMA UniqueInOrder ==
    ASSUME NEW list \in Seq(Known),
           \A i \in 1..(Len(list) - 1) : Rank(list[i]) <= Rank(list[i + 1])
    PROVE  LET listed == unique_packages(list)
           IN  /\ ToSet(listed) = ToSet(list)
               /\ \A i \in 1..(Len(listed) - 1) : Rank(listed[i]) < Rank(listed[i + 1])
<1> DEFINE n == Len(list)
           Strict(s) == \A i \in 1..(Len(s) - 1) : Rank(s[i]) < Rank(s[i + 1])
<1>1. n \in Nat /\ DOMAIN list = 1..n /\ \A k \in 1..n : list[k] \in Known
    OBVIOUS
<1>2. PICK out \in [0..n -> Seq(Known)] :
          /\ out[0] = <<>>
          /\ \A k \in 1..n : out[k] = UniqueStep(list, k, out[k - 1])
          /\ unique_packages(list) = out[n]
    BY UniqueSteps
<1> DEFINE Right(k) == /\ ToSet(out[k]) = {list[j] : j \in 1..k}
                       /\ Strict(out[k])
                       /\ k > 0 => out[k] # <<>> /\ Last(out[k]) = list[k]
           Good == {k \in 0..n : Right(k)}
<1>3. 0 \in Good
    BY <1>1, <1>2 DEF ToSet
<1>4. ASSUME NEW k \in 1..n, k - 1 \in Good PROVE k \in Good
    <2> DEFINE before == out[k - 1]
               p == list[k]
    <2>1. /\ before \in Seq(Known) /\ p \in Known
          /\ out[k] = IF before # <<>> /\ Last(before) = p THEN before ELSE Append(before, p)
        BY <1>1, <1>2 DEF UniqueStep
    <2>2. /\ ToSet(before) = {list[j] : j \in 1..(k - 1)} /\ Strict(before)
          /\ k > 1 => before # <<>> /\ Last(before) = list[k - 1]
        BY <1>4
    <2>3. {list[j] : j \in 1..k} = {list[j] : j \in 1..(k - 1)} \cup {p}
        OBVIOUS
    <2>4. before # <<>> => Last(before) \in ToSet(before) /\ k > 1
        <3> SUFFICES ASSUME before # <<>> PROVE Last(before) \in ToSet(before) /\ k > 1
            OBVIOUS
        <3>1. Last(before) \in ToSet(before)
            BY <2>1 DEF Last, ToSet
        <3> HIDE DEF before
        <3> QED BY <2>2, <3>1
    <2> HIDE DEF before, Strict
    <2>5. CASE before # <<>> /\ Last(before) = p
        <3>1. p \in ToSet(before) /\ out[k] = before
            BY <2>1, <2>4, <2>5
        <3>2. ToSet(out[k]) = {list[j] : j \in 1..k}
            BY <2>2, <2>3, <3>1
        <3> QED BY <2>2, <2>5, <3>1, <3>2
    <2>6. CASE ~(before # <<>> /\ Last(before) = p)
        <3>1. out[k] = Append(before, p)
            BY <2>1, <2>6
        <3> HIDE DEF p
        <3>0. before \in Seq(Known) /\ p \in Known
            BY <2>1
        <3>2. ToSet(Append(before, p)) = ToSet(before) \cup {p}
            BY <3>0, OneMore
        <3>3. Append(before, p) # <<>> /\ Last(Append(before, p)) = p
            BY <3>0, OneMore
        <3>4. before # <<>> => Rank(Last(before)) < Rank(p)
            <4> SUFFICES ASSUME before # <<>> PROVE Rank(Last(before)) < Rank(p)
                OBVIOUS
            <4>1. k > 1 /\ Last(before) = list[k - 1] /\ Last(before) # p
                BY <2>2, <2>4, <2>6
            <4>2. k - 1 \in 1..(n - 1) /\ (k - 1) + 1 = k /\ list[k - 1] \in Known
                BY <1>1, <4>1
            <4>3. Rank(list[k - 1]) <= Rank(list[(k - 1) + 1])
                BY <4>2
            <4>4. Rank(list[k - 1]) # Rank(p) /\ Rank(list[k - 1]) \in Nat /\ Rank(p) \in Nat
                BY <2>1, <4>1, <4>2, RankOfDependency
            <4> QED BY <4>1, <4>2, <4>3, <4>4 DEF p
        <3>5. Strict(Append(before, p))
            <4> SUFFICES ASSUME NEW i \in 1..Len(before)
                         PROVE  Rank(Append(before, p)[i]) < Rank(Append(before, p)[i + 1])
                BY <2>1 DEF Strict
            <4>1. Append(before, p)[i] = before[i] /\ Len(before) \in Nat
                BY <2>1
            <4>2. CASE i = Len(before)
                <5>1. before # <<>> /\ before[i] = Last(before) /\ Append(before, p)[i + 1] = p
                    BY <2>1, <4>2 DEF Last
                <5> QED BY <3>4, <4>1, <5>1
            <4>3. CASE i # Len(before)
                <5>1. i \in 1..(Len(before) - 1) /\ Append(before, p)[i + 1] = before[i + 1]
                    BY <2>1, <4>1, <4>3
                <5> QED BY <2>2, <4>1, <5>1 DEF Strict
            <4> QED BY <4>2, <4>3
        <3>6. ToSet(out[k]) = {list[j] : j \in 1..k}
            BY <2>2, <2>3, <3>1, <3>2
        <3>7. k \in 0..n /\ Last(out[k]) = list[k] /\ out[k] # <<>>
            BY <1>1, <3>1, <3>3 DEF p
        <3>8. Strict(out[k])
            BY <3>1, <3>5
        <3> QED BY <3>6, <3>7, <3>8
    <2> QED BY <2>5, <2>6
<1>5. n \in Good
    <2>1. 0..n \subseteq Good
        <3> HIDE DEF Good
        <3> QED BY <1>1, <1>3, <1>4, UpTo
    <2> HIDE DEF Good
    <2> QED BY <1>1, <2>1
<1>6. ToSet(out[n]) = ToSet(list) /\ Strict(out[n])
    BY <1>1, <1>5 DEF ToSet
<1> QED BY <1>2, <1>6

\* Of however many packages, the list of all dependencies has each dependency of each of them,
\* once and sorted (PackagesData.all_dependencies, unique_packages).
THEOREM EveryDependencyIsListedOnce == ReadsSpec => []EveryDependencyOnce
<1>1. ReadsIInv => EveryDependencyOnce
    <2> SUFFICES ASSUME ReadsIInv, NEW r \in Fresh
                 PROVE  LET listed == all_dependencies(packages[r])
                        IN  /\ ToSet(listed) = UNION {p.deps : p \in packages[r]}
                            /\ \A i \in 1..(Len(listed) - 1) : Rank(listed[i]) < Rank(listed[i + 1])
        BY DEF EveryDependencyOnce
    <2> DEFINE rows == packages[r]
               gathered == Gathered(rows)
    <2>1. r \in Ids /\ packages[r] = UNION files[r] /\ files[r] \in FileSets[r]
        BY DEF Fresh, ReadsIInv, RequestsOK, RequestOK, Rows
    <2>2. Reported(rows)
        BY <2>1, RowsAssumption DEF Reported
    <2>3. gathered \in Seq(Known) /\ ToSet(gathered) = UNION {p.deps : p \in rows}
        <3> HIDE DEF rows
        <3> QED BY <2>2, AllAreGathered DEF Reported, Known
    <2> HIDE DEF gathered
    <2> QED BY <2>3, SortedInOrder, UniqueInOrder DEF all_dependencies, gathered
<1> QED BY <1>1, ReadsInvariance, PTL

=============================================================================
