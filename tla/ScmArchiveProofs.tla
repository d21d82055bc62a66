-------------------------- MODULE ScmArchiveProofs --------------------------
(***************************************************************************)
(* Sharing the source archives is safe for any number of workers, commits  *)
(* and faults: no request gets the submodules of another commit, and none  *)
(* fails unless something else failed.                                     *)
(*                                                                         *)
(* A worker acts on what it saw some steps ago.  FetchOK says what of it   *)
(* still holds: nobody removes an archive while nothing fails, and what is *)
(* built of plain archives is free of foreign submodules.                  *)
(***************************************************************************)
EXTENDS ScmArchive, TLAPS

ArchiveOK(content, failures) ==
    content # Missing =>
        ~content.strays /\ (failures = 0 => content.health = "good")

\* What the archives still are to a worker in the step it is in.
FetchOK(fetch, archives, failures) ==
    /\ fetch.step \notin {"stat", "failed"} => \A a \in fetch.listed : ~a.submodules
    /\ fetch.step = "link" => fetch.built \in Content /\ ArchiveOK(fetch.built, failures)
    /\ fetch.step = "done" => fetch.sources \in Content /\ ~fetch.sources.strays
    /\ failures = 0 =>
          /\ fetch.step \notin {"remove", "failed"}
          /\ fetch.step \in {"verify", "check", "unpack"} => archives[fetch.needs] # Missing
          /\ fetch.step = "stat" => \A a \in fetch.listed : archives[a] # Missing

ScmIInv ==
    /\ ScmTypeOK
    /\ \A a \in Archives : ArchiveOK(archive[a], faults)
    /\ \A p \in Fetchers : Busy(p) => FetchOK(fetcher[p], archive, faults)

-----------------------------------------------------------------------------
(* What every step does *)

LEMMA FetchTyped ==
    ASSUME ScmIInv, NEW p \in Fetchers, NEW step, Doing(p, step)
    PROVE  /\ fetcher[p] \in Fetch
           /\ fetcher[p].step = step
           /\ fetcher[p].needs \in Archives
           /\ fetcher[p].listed \in SUBSET Archives
           /\ fetcher[p].built \in Content \cup {Missing}
           /\ fetcher[p].sources \in Content \cup {Missing}
           /\ FetchOK(fetcher[p], archive, faults)
           /\ archive[fetcher[p].needs] \in Content \cup {Missing}
           /\ ArchiveOK(archive[fetcher[p].needs], faults)
  BY DEF ScmIInv, ScmTypeOK, Doing, Busy, Fetch

LEMMA FaultTyped ==
    ASSUME ScmTypeOK, NEW kind, Fault(kind)
    PROVE  faults' \in 0..MaxFaults /\ faults' # 0
  BY ScmBoundAssumption DEF ScmTypeOK, Fault

LEMMA VerifiedTyped ==
    ASSUME ScmTypeOK, NEW p, NEW verdict, Verified(p, verdict)
    PROVE  /\ faults' \in 0..MaxFaults
           /\ faults' = 0 => faults = 0 /\ verdict = Verdict(fetcher[p].needs)
  BY ScmBoundAssumption, FaultTyped DEF ScmTypeOK, Verified

\* A worker moves on; what the others know of the archives stays true.
LEMMA WorkerMoves ==
    ASSUME ScmIInv, NEW p \in Fetchers, NEW fetch \in Fetch \cup {Idle}, Becomes(p, fetch),
           UNCHANGED pruner, recent' \subseteq Commits,
           faults' \in 0..MaxFaults, faults' = 0 => faults = 0,
           archive' \in [Archives -> Content \cup {Missing}],
           \A a \in Archives : ArchiveOK(archive'[a], faults'),
           faults' = 0 => \A a \in Archives : archive[a] # Missing => archive'[a] # Missing,
           fetch # Idle => FetchOK(fetch, archive', faults')
    PROVE  ScmIInv'
<1>1. fetcher' \in [Fetchers -> Fetch \cup {Idle}]
    BY DEF ScmIInv, ScmTypeOK, Becomes
<1>2. ScmTypeOK'
    BY <1>1 DEF ScmIInv, ScmTypeOK
<1>3. ASSUME NEW q \in Fetchers, fetcher'[q] # Idle
      PROVE  FetchOK(fetcher'[q], archive', faults')
    <2>1. CASE q = p
        BY <1>3, <2>1 DEF ScmIInv, ScmTypeOK, Becomes
    <2>2. CASE q # p
        <3>1. fetcher'[q] = fetcher[q] /\ fetcher[q] \in Fetch
            BY <1>3, <2>2 DEF ScmIInv, ScmTypeOK, Becomes
        <3>2. FetchOK(fetcher[q], archive, faults)
            BY <1>3, <3>1 DEF ScmIInv, Busy
        <3>3. fetcher[q].needs \in Archives /\ fetcher[q].listed \subseteq Archives
            BY <3>1 DEF Fetch
        <3> QED
            BY <3>1, <3>2, <3>3 DEF FetchOK, ArchiveOK
    <2> QED
        BY <2>1, <2>2
<1> QED
    BY <1>2, <1>3 DEF ScmIInv, Busy

\* The same for a step that leaves the archives alone.
LEMMA WorkerMovesAlone ==
    ASSUME ScmIInv, NEW p \in Fetchers, NEW fetch \in Fetch \cup {Idle}, Becomes(p, fetch),
           UNCHANGED <<archive, recent, pruner>>,
           faults' \in 0..MaxFaults, faults' = 0 => faults = 0,
           fetch # Idle => FetchOK(fetch, archive, faults')
    PROVE  ScmIInv'
  BY WorkerMoves DEF ScmIInv, ScmTypeOK, ArchiveOK

Built(p, a, health) ==
    [fetcher[p] EXCEPT !.step = "link", !.cloned = FALSE, !.listed = @ \ {a},
                       !.built = [health |-> health,
                                  strays |-> a.submodules \/ archive[a].strays]]

\* The three ways update_and_archive goes on.
LEMMA UpdateCases ==
    ASSUME ScmIInv, NEW p \in Fetchers, Update(p)
    PROVE  /\ Doing(p, "update") /\ UNCHANGED <<archive, faults>>
           /\ \E a \in fetcher[p].listed :
                 \/ Becomes(p, [fetcher[p] EXCEPT !.listed = @ \ {a}])
                 \/ /\ archive[a] \in Content /\ archive[a].health # "good"
                    /\ Goto(p, "failed")
                 \/ \E health \in {"good", "broken"} :
                       /\ archive[a] \in Content
                       /\ archive[a].health = "good" => health = "good"
                       /\ Becomes(p, Built(p, a, health))
<1>1. Doing(p, "update") /\ UNCHANGED <<archive, faults>>
    BY DEF Update
<1>2. PICK a \in fetcher[p].listed : \E result \in UpdateResults(archive[a]) :
          CASE result = "next" -> Becomes(p, [fetcher[p] EXCEPT !.listed = @ \ {a}])
            [] result = "raise" -> Goto(p, "failed")
            [] OTHER -> Becomes(p, Built(p, a, result))
    BY Zenon DEF Update, Built
<1>3. archive[a] \in Content \cup {Missing}
    BY <1>1, FetchTyped DEF ScmIInv, ScmTypeOK
<1>4. PICK result \in UpdateResults(archive[a]) :
          CASE result = "next" -> Becomes(p, [fetcher[p] EXCEPT !.listed = @ \ {a}])
            [] result = "raise" -> Goto(p, "failed")
            [] OTHER -> Becomes(p, Built(p, a, result))
    BY <1>2
<1>5. /\ result \in {"next", "raise", "good", "broken"}
      /\ result # "next" => archive[a] \in Content
      /\ result = "raise" => archive[a].health # "good"
      /\ result # "next" /\ archive[a].health = "good" => result = "good"
    BY <1>3, <1>4, MissingAssumption DEF UpdateResults, Content, Damage
<1>6. CASE result = "next"
    BY <1>1, <1>4, <1>6
<1>7. CASE result = "raise"
    BY <1>1, <1>4, <1>5, <1>7
<1>8. CASE result \in {"good", "broken"}
    BY <1>1, <1>4, <1>5, <1>8
<1> QED
    BY <1>5, <1>6, <1>7, <1>8

-----------------------------------------------------------------------------

\* Invariance: one step per action.
LEMMA FetchStepKeeps ==
    ASSUME ScmIInv, NEW p \in Fetchers, FetchStep(p)
    PROVE  ScmIInv'
<1> DEFINE f == fetcher[p]
<1>0. UNCHANGED <<recent, pruner>> /\ recent \subseteq Commits /\ faults \in 0..MaxFaults
    BY DEF FetchStep, ScmIInv, ScmTypeOK
<1>1. CASE Look(p)
    <2> DEFINE g == [f EXCEPT !.step = IF Exists(f.needs) THEN "verify" ELSE "list"]
    <2>1. Becomes(p, g) /\ UNCHANGED <<archive, faults>>
        BY <1>1 DEF Look, Goto
    <2>2. g \in Fetch /\ FetchOK(g, archive, faults)
        BY <1>1, FetchTyped DEF Look, Fetch, Steps, FetchOK, Exists
    <2> QED
        BY <1>0, <2>1, <2>2, WorkerMovesAlone
<1>2. CASE Verify(p)
    <2>1. Doing(p, "verify") /\ UNCHANGED archive
        BY <1>2 DEF Verify
    <2>2. CASE Verified(p, "valid") /\ Goto(p, "unpack")
        <3> DEFINE g == [f EXCEPT !.step = "unpack"]
        <3>1. Becomes(p, g) /\ faults' \in 0..MaxFaults /\ (faults' = 0 => faults = 0)
            BY <2>2, VerifiedTyped DEF Goto, ScmIInv
        <3>2. g \in Fetch /\ FetchOK(g, archive, faults')
            BY <2>1, <3>1, FetchTyped DEF Fetch, Steps, FetchOK
        <3> QED
            BY <1>0, <2>1, <3>1, <3>2, WorkerMovesAlone
    <2>3. CASE Verified(p, "uncaught") /\ Goto(p, "failed")
        <3> DEFINE g == [f EXCEPT !.step = "failed"]
        <3>1. Becomes(p, g) /\ faults' \in 0..MaxFaults /\ faults' # 0
            BY <2>1, <2>3, VerifiedTyped, FetchTyped
               DEF Goto, ScmIInv, Verdict, ArchiveOK, Exists, FetchOK
        <3>2. g \in Fetch /\ FetchOK(g, archive, faults')
            BY <2>1, <3>1, FetchTyped DEF Fetch, Steps, FetchOK
        <3> QED
            BY <1>0, <2>1, <3>1, <3>2, WorkerMovesAlone
    <2>4. CASE Verified(p, "invalid") /\ Becomes(p, [f EXCEPT !.step = "list", !.met = TRUE])
        <3> DEFINE g == [f EXCEPT !.step = "list", !.met = TRUE]
        <3>1. Becomes(p, g) /\ faults' \in 0..MaxFaults /\ (faults' = 0 => faults = 0)
            BY <2>4, VerifiedTyped DEF ScmIInv
        <3>2. g \in Fetch /\ g.step = "list" /\ g.listed = f.listed
            BY <2>1, FetchTyped DEF Fetch, Steps
        <3>3. FetchOK(g, archive, faults')
            BY <2>1, <3>2, FetchTyped DEF FetchOK
        <3> QED
            BY <1>0, <2>1, <3>1, <3>2, <3>3, WorkerMovesAlone
    <2> QED
        BY <1>2, <2>2, <2>3, <2>4 DEF Verify
<1>3. CASE List(p)
    <2> DEFINE g == [f EXCEPT !.step = "stat", !.listed = {a \in Archives : Exists(a)}]
    <2>1. Becomes(p, g) /\ UNCHANGED <<archive, faults>>
        BY <1>3 DEF List
    <2>2. g \in Fetch /\ FetchOK(g, archive, faults)
        BY <1>3, FetchTyped DEF List, Fetch, Steps, FetchOK, Exists
    <2> QED
        BY <1>0, <2>1, <2>2, WorkerMovesAlone
<1>4. CASE Stat(p)
    <2>1. Doing(p, "stat") /\ UNCHANGED <<archive, faults>>
        BY <1>4 DEF Stat
    <2>2. CASE \A a \in f.listed : Exists(a)
        <3> DEFINE g == [f EXCEPT !.step = "update", !.listed = PlainPrevious(@)]
        <3>1. Becomes(p, g)
            BY <1>4, <2>2 DEF Stat
        <3>2. g \in Fetch /\ FetchOK(g, archive, faults)
            BY <2>1, FetchTyped DEF Fetch, Steps, FetchOK, PlainPrevious
        <3> QED
            BY <1>0, <2>1, <3>1, <3>2, WorkerMovesAlone
    <2>3. CASE ~ \A a \in f.listed : Exists(a)
        <3> DEFINE g == [f EXCEPT !.step = "failed"]
        <3>1. Becomes(p, g)
            BY <1>4, <2>3 DEF Stat, Goto
        <3>2. g \in Fetch /\ FetchOK(g, archive, faults)
            BY <2>1, <2>3, FetchTyped DEF Fetch, Steps, FetchOK, Exists
        <3> QED
            BY <1>0, <2>1, <3>1, <3>2, WorkerMovesAlone
    <2> QED
        BY <2>2, <2>3
<1>5. CASE Update(p)
    <2>1. Doing(p, "update") /\ UNCHANGED <<archive, faults>>
        BY <1>5, UpdateCases
    <2>2. PICK a \in f.listed :
              \/ Becomes(p, [f EXCEPT !.listed = @ \ {a}])
              \/ /\ archive[a] \in Content /\ archive[a].health # "good"
                 /\ Goto(p, "failed")
              \/ \E health \in {"good", "broken"} :
                    /\ archive[a] \in Content
                    /\ archive[a].health = "good" => health = "good"
                    /\ Becomes(p, Built(p, a, health))
        BY <1>5, UpdateCases
    <2>3. a \in Archives /\ ~a.submodules /\ ArchiveOK(archive[a], faults)
        BY <2>1, <2>2, FetchTyped DEF FetchOK, ScmIInv
    <2>4. CASE Becomes(p, [f EXCEPT !.listed = @ \ {a}])
        <3> DEFINE g == [f EXCEPT !.listed = @ \ {a}]
        <3>1. g \in Fetch /\ FetchOK(g, archive, faults)
            BY <2>1, FetchTyped DEF Fetch, FetchOK
        <3> QED
            BY <1>0, <2>1, <2>4, <3>1, WorkerMovesAlone
    <2>5. CASE archive[a] \in Content /\ archive[a].health # "good" /\ Goto(p, "failed")
        <3> DEFINE g == [f EXCEPT !.step = "failed"]
        <3>1. Becomes(p, g) /\ faults # 0
            BY <2>3, <2>5, MissingAssumption DEF Goto, ArchiveOK
        <3>2. g \in Fetch /\ FetchOK(g, archive, faults)
            BY <2>1, <3>1, FetchTyped DEF Fetch, Steps, FetchOK
        <3> QED
            BY <1>0, <2>1, <3>1, <3>2, WorkerMovesAlone
    <2>6. ASSUME NEW health \in {"good", "broken"}, archive[a] \in Content,
                 archive[a].health = "good" => health = "good", Becomes(p, Built(p, a, health))
          PROVE  ScmIInv'
        <3> DEFINE content == [health |-> health, strays |-> a.submodules \/ archive[a].strays]
                   g == [f EXCEPT !.step = "link", !.cloned = FALSE, !.listed = @ \ {a},
                                  !.built = content]
        <3>1. a.submodules \in BOOLEAN /\ archive[a].strays \in BOOLEAN
            BY <2>3, <2>6 DEF Archives, Content
        <3>2. content \in Content /\ ArchiveOK(content, faults)
            BY <2>3, <2>6, <3>1, MissingAssumption DEF Content, Damage, ArchiveOK
        <3> HIDE DEF content
        <3>3. /\ g \in Fetch
              /\ g.step = "link" /\ g.listed \subseteq f.listed /\ g.built = content
            BY <2>1, <3>2, FetchTyped DEF Fetch, Steps
        <3>4. FetchOK(g, archive, faults)
            BY <2>1, <3>2, <3>3, FetchTyped DEF FetchOK
        <3>5. Becomes(p, g)
            BY <2>6 DEF Built, content
        <3> QED
            BY <1>0, <2>1, <3>3, <3>4, <3>5, WorkerMovesAlone
    <2> QED
        BY <2>2, <2>4, <2>5, <2>6
<1>6. CASE NoneIsLeft(p)
    <2> DEFINE g == [f EXCEPT !.step = "clone"]
    <2>1. Becomes(p, g) /\ UNCHANGED <<archive, faults>>
        BY <1>6 DEF NoneIsLeft, Goto
    <2>2. g \in Fetch /\ FetchOK(g, archive, faults)
        BY <1>6, FetchTyped DEF NoneIsLeft, Fetch, Steps, FetchOK
    <2> QED
        BY <1>0, <2>1, <2>2, WorkerMovesAlone
<1>7. CASE Clone(p)
    <2> DEFINE g == [f EXCEPT !.step = "link", !.cloned = TRUE, !.built = Intact]
    <2>1. Becomes(p, g) /\ UNCHANGED <<archive, faults>> /\ Doing(p, "clone")
        BY <1>7 DEF Clone
    <2>2. Intact \in Content /\ ArchiveOK(Intact, faults)
        BY DEF Intact, Content, ArchiveOK
    <2>3. g \in Fetch /\ g.step = "link" /\ g.listed = f.listed /\ g.built = Intact
        BY <2>1, <2>2, FetchTyped DEF Fetch, Steps
    <2>4. FetchOK(g, archive, faults)
        BY <2>1, <2>2, <2>3, FetchTyped DEF FetchOK
    <2> QED
        BY <1>0, <2>1, <2>3, <2>4, WorkerMovesAlone
<1>8. CASE GitFails(p)
    <2> DEFINE g == [f EXCEPT !.step = "failed"]
    <2>1. Becomes(p, g) /\ UNCHANGED archive /\ (Doing(p, "clone") \/ Doing(p, "update"))
        BY <1>8 DEF GitFails, Goto
    <2>2. faults' \in 0..MaxFaults /\ faults' # 0
        BY <1>8, FaultTyped DEF GitFails, ScmIInv
    <2>3. g \in Fetch /\ FetchOK(g, archive, faults')
        BY <2>1, <2>2, FetchTyped DEF Fetch, Steps, FetchOK
    <2> QED
        BY <1>0, <2>1, <2>2, <2>3, WorkerMovesAlone
<1>9. CASE Link(p)
    <2> DEFINE g == [f EXCEPT !.step = "check", !.built = Missing]
               held == IF Exists(f.needs) THEN archive[f.needs] ELSE f.built
    <2>1. /\ Doing(p, "link") /\ Becomes(p, g) /\ UNCHANGED faults
          /\ archive' = [archive EXCEPT ![f.needs] = held]
        BY <1>9 DEF Link
    <2>2. held \in Content /\ ArchiveOK(held, faults)
        BY <2>1, FetchTyped DEF FetchOK, Exists
    <2> HIDE DEF held
    <2>3. archive' \in [Archives -> Content \cup {Missing}] /\ archive'[f.needs] = held
        BY <2>1, <2>2, FetchTyped DEF ScmIInv, ScmTypeOK
    <2>4. \A a \in Archives : a # f.needs => archive'[a] = archive[a]
        BY <2>1 DEF ScmIInv, ScmTypeOK
    <2>5. \A a \in Archives : ArchiveOK(archive'[a], faults)
        BY <2>2, <2>3, <2>4 DEF ScmIInv
    <2>6. \A a \in Archives : archive[a] # Missing => archive'[a] # Missing
        BY <2>2, <2>3, <2>4, MissingAssumption
    <2>7. g \in Fetch /\ g.step = "check" /\ g.listed = f.listed /\ g.needs = f.needs
        BY <2>1, FetchTyped DEF Fetch, Steps
    <2>8. FetchOK(g, archive', faults)
        BY <2>1, <2>2, <2>3, <2>7, FetchTyped, MissingAssumption DEF FetchOK
    <2> QED
        BY <1>0, <2>1, <2>3, <2>5, <2>6, <2>7, <2>8, WorkerMoves
<1>10. CASE Check(p)
    <2>1. PICK step \in {"unpack", "failed", "remove"} :
              \E verdict \in {"valid", "uncaught", "invalid"} :
                  /\ verdict # "valid" <=> step # "unpack"
                  /\ Verified(p, verdict) /\ Goto(p, step)
        BY <1>10 DEF Check
    <2>2. Doing(p, "check") /\ UNCHANGED archive
        BY <1>10 DEF Check
    <2>3. faults' \in 0..MaxFaults /\ (faults' = 0 => faults = 0 /\ step = "unpack")
        BY <2>1, <2>2, VerifiedTyped, FetchTyped DEF ScmIInv, Verdict, ArchiveOK, Exists, FetchOK
    <2> DEFINE g == [f EXCEPT !.step = step]
    <2>4. Becomes(p, g)
        BY <2>1 DEF Goto
    <2>5. g \in Fetch /\ FetchOK(g, archive, faults')
        BY <2>2, <2>3, FetchTyped DEF Fetch, Steps, FetchOK
    <2> QED
        BY <1>0, <2>2, <2>3, <2>4, <2>5, WorkerMovesAlone
<1>11. CASE Remove(p)
    <2> DEFINE g == [f EXCEPT !.step = IF Exists(f.needs) \/ f.cloned
                                       THEN "failed" ELSE "update"]
    <2>1. /\ Doing(p, "remove") /\ Becomes(p, g) /\ UNCHANGED faults
          /\ archive' = [archive EXCEPT ![f.needs] = Missing]
        BY <1>11 DEF Remove, Goto
    <2>2. faults # 0
        BY <2>1, FetchTyped DEF FetchOK
    <2>3. archive' \in [Archives -> Content \cup {Missing}]
        BY <2>1 DEF ScmIInv, ScmTypeOK
    <2>4. \A a \in Archives : ArchiveOK(archive'[a], faults)
        BY <2>1 DEF ScmIInv, ScmTypeOK, ArchiveOK
    <2>5. g \in Fetch /\ FetchOK(g, archive', faults)
        BY <2>1, <2>2, FetchTyped DEF Fetch, Steps, FetchOK
    <2> QED
        BY <1>0, <2>1, <2>2, <2>3, <2>4, <2>5, WorkerMoves
<1>12. CASE Unpack(p)
    <2> DEFINE content == archive[f.needs]
    <2>1. Doing(p, "unpack") /\ UNCHANGED <<archive, faults>>
        BY <1>12 DEF Unpack
    <2>2. content \in Content \cup {Missing} /\ ArchiveOK(content, faults)
        BY <2>1, FetchTyped
    <2>3. CASE content # Missing /\ content.health \in {"good", "broken"}
        <3> DEFINE g == [f EXCEPT !.step = "done", !.sources = content]
        <3>1. Becomes(p, g)
            BY <1>12, <2>3 DEF Unpack
        <3>2. g \in Fetch /\ g.step = "done" /\ g.listed = f.listed /\ g.sources = content
            BY <2>1, <2>2, FetchTyped DEF Fetch, Steps
        <3>3. FetchOK(g, archive, faults)
            BY <2>1, <2>2, <2>3, <3>2, FetchTyped DEF FetchOK, ArchiveOK
        <3> QED
            BY <1>0, <2>1, <3>1, <3>2, <3>3, WorkerMovesAlone
    <2>4. CASE ~(content # Missing /\ content.health \in {"good", "broken"})
        <3> DEFINE g == [f EXCEPT !.step = "failed"]
        <3>1. Becomes(p, g)
            BY <1>12, <2>4 DEF Unpack, Goto
        <3>2. faults # 0
            BY <2>1, <2>2, <2>4, FetchTyped DEF FetchOK, ArchiveOK
        <3>3. g \in Fetch /\ FetchOK(g, archive, faults)
            BY <2>1, <3>2, FetchTyped DEF Fetch, Steps, FetchOK
        <3> QED
            BY <1>0, <2>1, <3>1, <3>3, WorkerMovesAlone
    <2> QED
        BY <2>3, <2>4
<1>13. CASE EndFetch(p)
    BY <1>0, <1>13, WorkerMovesAlone DEF EndFetch
<1>14. CASE FetcherDies(p)
    <2>1. Becomes(p, Idle) /\ UNCHANGED archive /\ faults' \in 0..MaxFaults /\ faults' # 0
        BY <1>14, FaultTyped DEF FetcherDies, ScmIInv
    <2> QED
        BY <1>0, <2>1, WorkerMovesAlone
<1> QED
    BY <1>1, <1>2, <1>3, <1>4, <1>5, <1>6, <1>7, <1>8, <1>9, <1>10, <1>11, <1>12, <1>13, <1>14
       DEF FetchStep

LEMMA ScmInvariance == ScmSpec => []ScmIInv
<1>1. ScmInit => ScmIInv
    BY ScmBoundAssumption DEF ScmInit, ScmIInv, ScmTypeOK, ArchiveOK, Busy
<1>2. ScmIInv /\ [ScmNext]_scmVars => ScmIInv'
    <2> SUFFICES ASSUME ScmIInv, [ScmNext]_scmVars PROVE ScmIInv'
        OBVIOUS
    <2>0. recent \subseteq Commits /\ faults \in 0..MaxFaults
        BY DEF ScmIInv, ScmTypeOK
    <2>1. ASSUME NEW p \in Fetchers, FetchStep(p) PROVE ScmIInv'
        BY <2>1, FetchStepKeeps
    <2>2. ASSUME NEW p \in Fetchers, NEW a \in Archives, StartFetch(p, a) PROVE ScmIInv'
        <3> DEFINE g == [needs |-> a, step |-> "look", listed |-> {}, built |-> Missing,
                         cloned |-> FALSE, met |-> FALSE, sources |-> Missing]
        <3>1. g \in Fetch /\ FetchOK(g, archive, faults)
            BY DEF Fetch, Steps, FetchOK
        <3>2. Becomes(p, g) /\ UNCHANGED <<archive, pruner, faults>>
              /\ recent' \subseteq Commits
            BY <2>0, <2>2 DEF StartFetch, Archives
        <3>3. archive \in [Archives -> Content \cup {Missing}]
              /\ \A b \in Archives : ArchiveOK(archive[b], faults)
            BY DEF ScmIInv, ScmTypeOK
        <3> QED
            BY <2>0, <3>1, <3>2, <3>3, WorkerMoves
    <2>3. ASSUME NEW a \in Archives, DamageArchive(a) PROVE ScmIInv'
        <3>1. PICK damage \in Damage : archive' = [archive EXCEPT ![a].health = damage]
            BY <2>3 DEF DamageArchive
        <3>2. archive[a] \in Content /\ UNCHANGED <<fetcher, recent, pruner>>
            BY <2>3 DEF DamageArchive, Exists, ScmIInv, ScmTypeOK
        <3>3. faults' \in 0..MaxFaults /\ faults' # 0
            BY <2>3, FaultTyped DEF DamageArchive, ScmIInv
        <3>4. /\ archive' \in [Archives -> Content \cup {Missing}]
              /\ archive'[a].strays = archive[a].strays
              /\ \A b \in Archives : b # a => archive'[b] = archive[b]
            BY <3>1, <3>2 DEF ScmIInv, ScmTypeOK, Content
        <3>5. ScmTypeOK'
            BY <3>2, <3>3, <3>4 DEF ScmIInv, ScmTypeOK
        <3>6. \A b \in Archives : ArchiveOK(archive'[b], faults')
            BY <3>2, <3>3, <3>4, MissingAssumption DEF ScmIInv, ArchiveOK
        <3>7. \A p \in Fetchers : Busy(p) => FetchOK(fetcher[p], archive', faults')
            BY <3>3 DEF ScmIInv, FetchOK, ArchiveOK
        <3> QED
            BY <3>2, <3>5, <3>6, <3>7 DEF ScmIInv, Busy
    <2>4. ASSUME NEW a \in Archives, FindStale(a) PROVE ScmIInv'
        BY <2>4 DEF ScmIInv, ScmTypeOK, FindStale, Busy
    <2>5. ASSUME NEW c \in Commits, GrowOld(c) PROVE ScmIInv'
        BY <2>5 DEF ScmIInv, ScmTypeOK, GrowOld, Busy
    <2>6. CASE Prune
        <3>1. archive' \in [Archives -> Content \cup {Missing}]
              /\ archive' = [archive EXCEPT ![pruner] = Missing]
              /\ UNCHANGED <<fetcher, recent>> /\ pruner' = Idle
            BY <2>6 DEF Prune, ScmIInv, ScmTypeOK
        <3>2. faults' \in 0..MaxFaults /\ (faults' = 0 => faults = 0)
              /\ ((\E p \in Fetchers : Busy(p)) => faults' # 0)
            BY <2>0, <2>6, FaultTyped DEF Prune, ScmIInv
        <3>3. ScmTypeOK'
            BY <3>1, <3>2 DEF ScmIInv, ScmTypeOK
        <3>4. \A b \in Archives : ArchiveOK(archive'[b], faults')
            BY <3>1, <3>2 DEF ScmIInv, ScmTypeOK, ArchiveOK
        <3>5. \A p \in Fetchers : Busy(p) => FetchOK(fetcher[p], archive', faults')
            BY <3>1, <3>2 DEF ScmIInv, FetchOK, ArchiveOK
        <3> QED
            BY <3>1, <3>3, <3>4, <3>5 DEF ScmIInv, Busy
    <2>7. CASE UNCHANGED scmVars
        BY <2>7 DEF ScmIInv, ScmTypeOK, scmVars, Busy
    <2> QED
        BY <2>1, <2>2, <2>3, <2>4, <2>5, <2>6, <2>7 DEF ScmNext
<1> QED
    BY <1>1, <1>2, PTL DEF ScmSpec

-----------------------------------------------------------------------------
(* Theorems *)

\* Type correctness of the storage of archives and of the workers that use it.
THEOREM ScmTypeCorrect == ScmSpec => []ScmTypeOK
<1>1. ScmIInv => ScmTypeOK
    BY DEF ScmIInv
<1> QED
    BY <1>1, ScmInvariance, PTL

\* However many workers share the archives, no request fails unless something else failed
\* before: a lost race for an archive costs nobody anything (_create_archive).
THEOREM SharingNeverFails == ScmSpec => []SharingIsSafe
<1>1. ScmIInv => SharingIsSafe
    <2> SUFFICES ASSUME ScmIInv, NEW p \in Fetchers, Doing(p, "failed") PROVE faults > 0
        BY DEF SharingIsSafe
    <2>1. faults # 0 /\ faults \in 0..MaxFaults
        BY FetchTyped DEF FetchOK, ScmIInv, ScmTypeOK
    <2> QED
        BY <2>1, ScmBoundAssumption
<1> QED
    BY <1>1, ScmInvariance, PTL

\* However archives are made from each other, damaged and removed, a request never gets the
\* submodules of another commit (fetch_source).
THEOREM SourcesNeverMix == ScmSpec => []SourcesOfOneCommit
<1>1. ScmIInv => SourcesOfOneCommit
    BY FetchTyped DEF SourcesOfOneCommit, FetchOK
<1> QED
    BY <1>1, ScmInvariance, PTL

=============================================================================
