-------------------------- MODULE GoModulesProofs --------------------------
(***************************************************************************)
(* What fetch_gomod_source leaves behind when it ends, for any repository, *)
(* any number of failures and any number of restarts.  The invariant says  *)
(* what holds for the modules that the current execution has passed; a     *)
(* restart begins with none.  The second part is about get_golang_version: *)
(* the version of a module fits between the tags of its repository,        *)
(* whatever finite set of tags that has.  The third part explains          *)
(* failures, the fourth is about the packages that are reported.           *)
(***************************************************************************)
EXTENDS GoModules, FiniteSetTheorems, WellFoundedInduction, TLAPS

(* Names of modules and packages *)

LEMMA PrefixOfItself ==
    ASSUME NEW S, NEW name \in Seq(S)
    PROVE  contains_package(name, name)
BY DEF contains_package, IsPrefix

\* Of the modules that contain a package there is a longest one: the longer ones of a module are
\* ever fewer.
LEMMA LongestParent ==
    ASSUME NEW S, NEW modules \in SUBSET Seq(S), IsFiniteSet(modules),
           NEW package, HasParent(package, modules)
    PROVE  LET m == match_parent_module(package, modules)
           IN  /\ m \in modules /\ contains_package(m, package)
               /\ \A n \in modules : contains_package(n, package) => Len(n) <= Len(m)
<1> DEFINE Parents == {m \in modules : contains_package(m, package)}
           Longer(m) == {n \in Parents : Len(n) > Len(m)}
           A == {Longer(m) : m \in Parents}
           R == StrictSubsetOrdering(Parents)
<1>1. IsFiniteSet(Parents) /\ \A m \in Parents : Len(m) \in Nat
    BY FS_Subset
<1>2. IsWellFoundedOn(R, SUBSET Parents)
    <2> HIDE DEF Parents
    <2> QED BY <1>1, FS_StrictSubsetOrderingWellFounded, FS_FiniteSubsetsOfFinite
<1>3. A \subseteq SUBSET Parents /\ A # {}
    <2>1. Parents # {}
        BY DEF HasParent
    <2> HIDE DEF Parents
    <2> QED BY <2>1
<1>4. PICK a \in A : \A b \in A : <<b, a>> \notin R
    <2> HIDE DEF A, R, Parents
    <2> QED BY <1>2, <1>3, WFMin
<1>5. PICK m \in Parents : a = Longer(m)
    BY <1>4
<1>6. ASSUME NEW n \in Parents PROVE Len(n) <= Len(m)
    <2> SUFFICES ASSUME Len(n) > Len(m) PROVE FALSE
        BY <1>1
    <2>1. Longer(n) \subseteq Longer(m) /\ n \in Longer(m) /\ n \notin Longer(n)
        BY <1>1
    <2>2. Longer(n) \in A /\ Longer(n) \in SUBSET Parents /\ Longer(m) \in SUBSET Parents
        OBVIOUS
    <2>3. <<Longer(n), a>> \in R
        <3> HIDE DEF Longer, Parents
        <3> QED BY <1>5, <2>1, <2>2 DEF StrictSubsetOrdering
    <2> QED BY <1>4, <2>2, <2>3
<1> QED BY <1>5, <1>6 DEF match_parent_module

-----------------------------------------------------------------------------

Indices == DOMAIN ask.paths
PathOf(i) == ask.paths[i]
NeededAt(i) == Needed(repo[PathOf(i)])

\* Modules whose vendoring is over, and modules that are merged into the bundle.
Vendored(i) ==
    i < pos \/ (i = pos /\ step \in {"tidy", "merge", "list", "add", "write", "done"})
Merged(i) == i < pos \/ (i = pos /\ step \in {"list", "add", "write", "done"})

\* The bundle.
CacheOK ==
    /\ step = "download" => ~Vendoring
    /\ Vendoring =>
           gopath = {} /\ copying = NoVersion /\ \A v \in Versions : cache[v] = "absent"
    /\ ~Vendoring =>
           /\ step \in {"tidy", "merge"} => \A i \in Indices : i = pos => gopath = NeededAt(i)
           /\ \A i \in Indices : Merged(i) =>
                  \A v \in NeededAt(i) : cache[v] # "absent" /\ v \in listed

\* The source tree: only go mod vendor changes it, and the comparison sees what it changed.
VendorOK ==
    /\ \A d \in Dirs : vendor[d] \in {repo[d].vendor, "good"}
    /\ step \in {"vendor", "stage", "compare"} => Vendoring
    /\ step \in {"stage", "compare"} => ask.flag = "check" /\ vendor[here] = "good"
    /\ step = "vendor" /\ ask.flag = "check" /\ mayChange =>
           repo[here].vendor = "absent" /\ here \notin staged
    /\ step = "vendor" /\ ask.flag # "check" => mayChange
    /\ ask.flag = "check" =>
           \A i \in Indices : Vendored(i) => repo[PathOf(i)].vendor \in {"absent", "good"}

\* The Git index: what a dead execution left in it is compared again, and reset.
IndexOK ==
    /\ \A d \in staged : /\ ask.flag = "check" /\ vendor[d] = "good"
                         /\ d \in Asked
    /\ \A i \in Indices : Vendored(i) /\ PathOf(i) \in staged =>
           step = "compare" /\ PathOf(i) = here
    /\ deaths = 0 => staged \subseteq IF step = "compare" THEN {here} ELSE {}

Ends == step \in {"write", "done"} => pos = Len(ask.paths)

GoModIInv ==
    /\ GoModTypeOK
    /\ Ends
    /\ CacheOK
    /\ VendorOK
    /\ IndexOK

-----------------------------------------------------------------------------
(* Helpers *)

LEMMA Positions ==
    ASSUME GoModTypeOK
    PROVE  /\ ask \in [paths : Seq(Dirs), flag : Flags, tidy : BOOLEAN, replaced : BOOLEAN]
           /\ Len(ask.paths) \in Nat \ {0} /\ Indices = 1..Len(ask.paths)
           /\ 1 \in Indices /\ pos \in Indices /\ here = PathOf(pos)
           /\ \A i \in Indices : PathOf(i) \in Dirs /\ PathOf(i) \in Asked
           /\ \A d \in Asked : \E i \in Indices : d = PathOf(i)
           /\ here \in Dirs /\ here \in Asked
<1>1. ask \in [paths : Seq(Dirs), flag : Flags, tidy : BOOLEAN, replaced : BOOLEAN]
      /\ ask.paths # <<>>
    BY AsksAssumption DEF GoModTypeOK
<1>2. ask.paths \in Seq(Dirs) /\ Len(ask.paths) \in Nat \ {0} /\ Indices = 1..Len(ask.paths)
    BY <1>1 DEF Indices
<1>3. pos \in Indices
    BY DEF GoModTypeOK, Indices
<1>4. \A i \in Indices : ask.paths[i] \in Dirs
    BY <1>2
<1> QED
    BY <1>1, <1>2, <1>3, <1>4 DEF Indices, PathOf, here, Asked

LEMMA NextStep ==
    /\ Vendoring => AfterFetch \in {"tidy", "list"}
    /\ ~Vendoring => AfterFetch \in {"tidy", "merge"}
BY DEF AfterFetch

\* The request and the repository never change.
LEMMA InputsStay ==
    ASSUME UNCHANGED inputVars
    PROVE  /\ Indices' = Indices /\ Asked' = Asked /\ (Vendoring <=> Vendoring')
           /\ \A i : PathOf(i)' = PathOf(i)
           /\ \A i : NeededAt(i)' = NeededAt(i)
BY DEF inputVars, Indices, Asked, Vendoring, PathOf, Needed, NeededAt

LEMMA GoModInitOK == GoModInit => GoModIInv
<1> SUFFICES ASSUME GoModInit PROVE GoModIInv
    OBVIOUS
<1>1. /\ repo \in Repositories /\ tags \in TagSets /\ ask \in Asks
      /\ step = "check" /\ pos = 1 /\ tries = 0 /\ gopath = {} /\ mayChange = FALSE
      /\ edited = {} /\ staged = {} /\ listed = {} /\ copying = NoVersion
      /\ failures = 0 /\ deaths = 0
    BY DEF GoModInit
<1>2. /\ cache \in [Versions -> {"absent", "part", "whole"}]
      /\ \A v \in Versions : cache[v] = "absent"
    BY DEF GoModInit
<1>3. vendor = [d \in Dirs |-> repo[d].vendor]
    BY DEF GoModInit
<1>4. vendor \in [Dirs -> VendorDirs]
    BY <1>1, <1>3, RepositoriesAssumption
<1>5. pos \in DOMAIN ask.paths
    BY <1>1, AsksAssumption
<1>6. GoModTypeOK
    <2>1. tries \in 0..(MaxTries - 1) /\ failures \in 0..MaxFailures /\ deaths \in 0..MaxDeaths
        BY <1>1, MaxTriesAssumption, BoundsAssumption
    <2> QED
        BY <1>1, <1>2, <1>4, <1>5, <2>1 DEF GoModTypeOK
<1>7. \A i \in Indices : ~Vendored(i) /\ ~Merged(i)
    BY <1>1, <1>6, Positions DEF Vendored, Merged
<1>8. \A d \in Dirs : vendor[d] = repo[d].vendor
    BY <1>3
<1> QED
    BY <1>1, <1>2, <1>6, <1>7, <1>8 DEF GoModIInv, Ends, CacheOK, VendorOK, IndexOK

-----------------------------------------------------------------------------
(* Types *)

LEMMA GoModTypeNext ==
    ASSUME GoModTypeOK, [GoModNext]_vars
    PROVE  GoModTypeOK'
<1> USE DEF GoModTypeOK
<1> USE MaxTriesAssumption, BoundsAssumption
<1>0. here \in Dirs /\ 1 \in DOMAIN ask.paths /\ Len(ask.paths) \in Nat
      /\ DOMAIN ask.paths = 1..Len(ask.paths)
    BY Positions DEF Indices
<1>1. CASE Check
    BY <1>1 DEF Check, Goto, inputVars, treeVars, bundleVars, faultVars, At
<1>2. CASE Edit
    BY <1>0, <1>2 DEF Edit, Goto, inputVars, treeVars, bundleVars, faultVars, At
<1>3. CASE Decide
    BY <1>3 DEF Decide, Goto, inputVars, treeVars, bundleVars, faultVars, At
<1>4. CASE Vendor
    <2>1. vendor' \in [Dirs -> VendorDirs]
        BY <1>0, <1>4 DEF Vendor, VendorDirs
    <2> QED
        BY <1>4, <2>1 DEF Vendor, Goto, AfterFetch, inputVars, treeVars, bundleVars, faultVars, At
<1>5. CASE Stage
    BY <1>0, <1>5 DEF Stage, Goto, inputVars, treeVars, bundleVars, faultVars, At
<1>6. CASE Compare
    BY <1>6 DEF Compare, Goto, AfterFetch, inputVars, treeVars, bundleVars, faultVars, At
<1>7. CASE Download
    BY <1>7 DEF Download, Needed, Goto, AfterFetch, inputVars, treeVars, bundleVars, faultVars, At
<1>8. CASE Tidy
    BY <1>8 DEF Tidy, Goto, inputVars, treeVars, bundleVars, faultVars, At
<1>9. ASSUME NEW v \in Versions, CopyBegins(v) PROVE GoModTypeOK'
    BY <1>9 DEF CopyBegins, inputVars, treeVars, rowVars, faultVars, At
<1>10. CASE CopyEnds
    BY <1>10 DEF CopyEnds, inputVars, treeVars, rowVars, faultVars
<1>11. CASE MergeList
    BY <1>11 DEF MergeList, Goto, inputVars, treeVars, rowVars, faultVars, At
<1>12. CASE List
    BY <1>12 DEF List, Goto, inputVars, treeVars, bundleVars, rowVars, faultVars, At
<1>13. CASE Add
    BY <1>0, <1>13 DEF Add, Goto, inputVars, treeVars, bundleVars, rowVars, faultVars, At
<1>14. CASE Write
    BY <1>14 DEF Write, Goto, inputVars, treeVars, bundleVars, rowVars, faultVars, At
<1>15. CASE CommandFails
    BY <1>15 DEF CommandFails, inputVars, treeVars, bundleVars, rowVars, faultVars, At
<1>16. CASE WorkerDies
    BY <1>0, <1>16 DEF WorkerDies, inputVars, treeVars, bundleVars, rowVars, faultVars, At
<1>17. CASE UNCHANGED vars
    BY <1>17 DEF vars, inputVars, treeVars, bundleVars, rowVars, faultVars
<1> QED
    BY <1>1, <1>2, <1>3, <1>4, <1>5, <1>6, <1>7, <1>8, <1>9, <1>10, <1>11, <1>12, <1>13, <1>14,
       <1>15, <1>16, <1>17 DEF GoModNext

-----------------------------------------------------------------------------
(* The bundle *)

LEMMA ActionsKeepInputs ==
    ASSUME [GoModNext]_vars
    PROVE  UNCHANGED inputVars
BY DEF GoModNext, vars, Goto, Check, Edit, Decide, Vendor, Stage, Compare, Download, Tidy,
       CopyBegins, CopyEnds, MergeList, List, Add, Write, CommandFails, WorkerDies

\* What a step keeps, and where it is.
Around ==
    /\ UNCHANGED <<repo, ask>>
    /\ Indices' = Indices /\ Asked' = Asked /\ (Vendoring <=> Vendoring')
    /\ \A i : PathOf(i)' = PathOf(i) /\ NeededAt(i)' = NeededAt(i)
    /\ Indices = 1..Len(ask.paths) /\ Len(ask.paths) \in Nat \ {0}
    /\ \A i \in Indices : /\ PathOf(i) \in Dirs /\ PathOf(i) \in Asked
                          /\ NeededAt(i) \subseteq Versions
    /\ pos \in Indices /\ here = PathOf(pos)
    /\ pos' \in Indices /\ here' = PathOf(pos')
    /\ vendor \in [Dirs -> VendorDirs] /\ staged \subseteq Dirs /\ deaths \in Nat
    /\ \A d \in Dirs : repo[d].vendor \in VendorDirs
    /\ ask.flag \in {"none", "vendor", "check"} /\ (Vendoring <=> ask.flag # "none")
    /\ step = "download" => ~Vendoring
    /\ step \in {"vendor", "stage", "compare"} => Vendoring

LEMMA AroundHolds ==
    ASSUME GoModIInv, [GoModNext]_vars
    PROVE  Around
<1>1. UNCHANGED inputVars
    BY ActionsKeepInputs
<1>2. GoModTypeOK /\ GoModTypeOK'
    BY GoModTypeNext DEF GoModIInv
<1>3. /\ UNCHANGED <<repo, ask>>
      /\ Indices' = Indices /\ Asked' = Asked /\ (Vendoring <=> Vendoring')
      /\ \A i : PathOf(i)' = PathOf(i) /\ NeededAt(i)' = NeededAt(i)
    BY <1>1, InputsStay DEF inputVars
<1>4. pos' \in Indices /\ here' = PathOf(pos')
    BY <1>2, <1>3 DEF GoModTypeOK, Indices, here, PathOf
<1>5. /\ vendor \in [Dirs -> VendorDirs] /\ staged \subseteq Dirs /\ deaths \in Nat
      /\ \A d \in Dirs : repo[d].vendor \in VendorDirs
    BY <1>2, BoundsAssumption, RepositoriesAssumption DEF GoModTypeOK
<1>6. ask.flag \in {"none", "vendor", "check"} /\ (Vendoring <=> ask.flag # "none")
    BY <1>2, Positions DEF Flags, Vendoring
<1>7. /\ step = "download" => ~Vendoring
      /\ step \in {"vendor", "stage", "compare"} => Vendoring
    BY DEF GoModIInv, CacheOK, VendorOK
<1> QED
    BY <1>2, <1>3, <1>4, <1>5, <1>6, <1>7, Positions DEF Around, NeededAt, Needed

LEMMA CacheNext ==
    ASSUME GoModIInv, [GoModNext]_vars
    PROVE  CacheOK'
<1>0. Around
    BY AroundHolds
<1> USE DEF GoModIInv, CacheOK, Merged
<1>1. CASE Check
    BY <1>0, <1>1 DEF Around, Check, Goto, At, treeVars, bundleVars, rowVars, faultVars
<1>2. CASE Edit
    BY <1>0, <1>2 DEF Around, Edit, Goto, At, bundleVars, rowVars, faultVars
<1>3. CASE Decide
    BY <1>0, <1>3 DEF Around, Decide, Goto, At, treeVars, bundleVars, rowVars, faultVars
<1>4. CASE Vendor
    BY <1>0, NextStep, <1>4 DEF Around, Vendor, Goto, At, bundleVars, rowVars, faultVars
<1>5. CASE Stage
    BY <1>0, <1>5 DEF Around, Stage, Goto, At, bundleVars, rowVars, faultVars
<1>6. CASE Compare
    BY <1>0, NextStep, <1>6 DEF Around, Compare, Goto, At, bundleVars, rowVars, faultVars
<1>7. CASE Download
    <2>1. step' = AfterFetch /\ ~Vendoring /\ gopath' = Needed(this)
        BY <1>0, <1>7 DEF Around, Download, Goto, At
    <2>2. UNCHANGED <<pos, cache, listed, copying>>
        BY <1>7 DEF Download, treeVars, bundleVars
    <2>3. step' \in {"tidy", "merge"}
        BY <2>1, NextStep
    <2>4. \A i \in Indices' : Merged(i)' => Merged(i)
        BY <1>0, <2>2, <2>3 DEF Around
    <2>5. \A i \in Indices' : i = pos' => gopath' = NeededAt(i)'
        BY <1>0, <2>1, <2>2 DEF Around, NeededAt, this, here, PathOf, inputVars
    <2> QED
        BY <1>0, <2>1, <2>2, <2>3, <2>4, <2>5 DEF Around
<1>8. CASE Tidy
    BY <1>0, <1>8 DEF Around, Tidy, Goto, At, treeVars, bundleVars, rowVars, faultVars
<1>9. ASSUME NEW v \in Versions, CopyBegins(v) PROVE CacheOK'
    BY <1>0, <1>9 DEF Around, CopyBegins, At, treeVars, rowVars, faultVars
<1>10. CASE CopyEnds
    BY <1>0, <1>10 DEF Around, CopyEnds, treeVars, rowVars, faultVars
<1>11. CASE MergeList
    BY <1>0, <1>11 DEF Around, MergeList, Goto, At, treeVars, rowVars, faultVars
<1>12. CASE List
    BY <1>0, <1>12 DEF Around, List, Goto, At, treeVars, bundleVars, rowVars, faultVars
<1>13. CASE Add
    BY <1>0, <1>13 DEF Around, Add, Goto, At, treeVars, bundleVars, faultVars
<1>14. CASE Write
    BY <1>0, <1>14 DEF Around, Write, Goto, At, treeVars, bundleVars, faultVars
<1>15. CASE CommandFails
    BY <1>0, <1>15 DEF Around, CommandFails, At, treeVars, bundleVars, rowVars
<1>16. CASE WorkerDies
    BY <1>0, <1>16 DEF Around, WorkerDies, At, treeVars
<1>17. CASE UNCHANGED vars
    BY <1>0, <1>17 DEF Around, vars, treeVars, bundleVars, rowVars, faultVars
<1> QED
    BY <1>1, <1>2, <1>3, <1>4, <1>5, <1>6, <1>7, <1>8, <1>9, <1>10, <1>11, <1>12, <1>13, <1>14,
       <1>15, <1>16, <1>17 DEF GoModNext

-----------------------------------------------------------------------------
(* The source tree *)

LEMMA VendorNext ==
    ASSUME GoModIInv, [GoModNext]_vars
    PROVE  VendorOK'
<1>0. Around
    BY AroundHolds
<1> USE DEF GoModIInv, VendorOK, Vendored
<1>1. CASE Check
    BY <1>0, <1>1 DEF Around, Check, Goto, At, treeVars, bundleVars, rowVars, faultVars
<1>2. CASE Edit
    BY <1>0, <1>2 DEF Around, Edit, Goto, At, bundleVars, rowVars, faultVars
<1>3. CASE Decide
    BY <1>0, <1>3 DEF Around, Decide, Goto, At, treeVars, bundleVars, rowVars, faultVars, IndexOK
<1>4. CASE Vendor
    BY <1>0, NextStep, <1>4 DEF Around, Vendor, Goto, At, bundleVars, rowVars, faultVars
<1>5. CASE Stage
    BY <1>0, <1>5 DEF Around, Stage, Goto, At, bundleVars, rowVars, faultVars
<1>6. CASE Compare
    BY <1>0, NextStep, <1>6 DEF Around, Compare, Goto, At, bundleVars, rowVars, faultVars,
       VendorChanged, VendorDirs
<1>7. CASE Download
    BY <1>0, NextStep, <1>7 DEF Around, Download, Goto, At, treeVars, bundleVars, rowVars, faultVars
<1>8. CASE Tidy
    BY <1>0, <1>8 DEF Around, Tidy, Goto, At, treeVars, bundleVars, rowVars, faultVars
<1>9. ASSUME NEW v \in Versions, CopyBegins(v) PROVE VendorOK'
    BY <1>0, <1>9 DEF Around, CopyBegins, At, treeVars, rowVars, faultVars
<1>10. CASE CopyEnds
    BY <1>0, <1>10 DEF Around, CopyEnds, treeVars, rowVars, faultVars
<1>11. CASE MergeList
    BY <1>0, <1>11 DEF Around, MergeList, Goto, At, treeVars, rowVars, faultVars
<1>12. CASE List
    BY <1>0, <1>12 DEF Around, List, Goto, At, treeVars, bundleVars, rowVars, faultVars
<1>13. CASE Add
    BY <1>0, <1>13 DEF Around, Add, Goto, At, treeVars, bundleVars, faultVars
<1>14. CASE Write
    BY <1>0, <1>14 DEF Around, Write, Goto, At, treeVars, bundleVars, faultVars
<1>15. CASE CommandFails
    BY <1>0, <1>15 DEF Around, CommandFails, At, treeVars, bundleVars, rowVars
<1>16. CASE WorkerDies
    BY <1>0, <1>16 DEF Around, WorkerDies, At, treeVars
<1>17. CASE UNCHANGED vars
    BY <1>0, <1>17 DEF Around, vars, treeVars, bundleVars, rowVars, faultVars
<1> QED
    BY <1>1, <1>2, <1>3, <1>4, <1>5, <1>6, <1>7, <1>8, <1>9, <1>10, <1>11, <1>12, <1>13, <1>14,
       <1>15, <1>16, <1>17 DEF GoModNext

-----------------------------------------------------------------------------
(* The Git index *)

LEMMA IndexNext ==
    ASSUME GoModIInv, [GoModNext]_vars
    PROVE  IndexOK'
<1>0. Around
    BY AroundHolds
<1> USE DEF GoModIInv, IndexOK, Vendored
<1>1. CASE Check
    BY <1>0, <1>1 DEF Around, Check, Goto, At, treeVars, bundleVars, rowVars, faultVars
<1>2. CASE Edit
    BY <1>0, <1>2 DEF Around, Edit, Goto, At, bundleVars, rowVars, faultVars
<1>3. CASE Decide
    BY <1>0, <1>3 DEF Around, Decide, Goto, At, treeVars, bundleVars, rowVars, faultVars
<1>4. CASE Vendor
    BY <1>0, NextStep, <1>4 DEF Around, Vendor, Goto, At, bundleVars, rowVars, faultVars, VendorOK
<1>5. CASE Stage
    BY <1>0, <1>5 DEF Around, Stage, Goto, At, bundleVars, rowVars, faultVars, VendorOK
<1>6. CASE Compare
    BY <1>0, NextStep, <1>6 DEF Around, Compare, Goto, At, bundleVars, rowVars, faultVars
<1>7. CASE Download
    BY <1>0, NextStep, <1>7 DEF Around, Download, Goto, At, treeVars, bundleVars, rowVars, faultVars
<1>8. CASE Tidy
    BY <1>0, <1>8 DEF Around, Tidy, Goto, At, treeVars, bundleVars, rowVars, faultVars
<1>9. ASSUME NEW v \in Versions, CopyBegins(v) PROVE IndexOK'
    BY <1>0, <1>9 DEF Around, CopyBegins, At, treeVars, rowVars, faultVars
<1>10. CASE CopyEnds
    BY <1>0, <1>10 DEF Around, CopyEnds, treeVars, rowVars, faultVars
<1>11. CASE MergeList
    BY <1>0, <1>11 DEF Around, MergeList, Goto, At, treeVars, rowVars, faultVars
<1>12. CASE List
    BY <1>0, <1>12 DEF Around, List, Goto, At, treeVars, bundleVars, rowVars, faultVars
<1>13. CASE Add
    BY <1>0, <1>13 DEF Around, Add, Goto, At, treeVars, bundleVars, faultVars
<1>14. CASE Write
    BY <1>0, <1>14 DEF Around, Write, Goto, At, treeVars, bundleVars, faultVars
<1>15. CASE CommandFails
    BY <1>0, <1>15 DEF Around, CommandFails, At, treeVars, bundleVars, rowVars, Commands
<1>16. CASE WorkerDies
    BY <1>0, <1>16 DEF Around, WorkerDies, At, treeVars
<1>17. CASE UNCHANGED vars
    BY <1>0, <1>17 DEF Around, vars, treeVars, bundleVars, rowVars, faultVars
<1> QED
    BY <1>1, <1>2, <1>3, <1>4, <1>5, <1>6, <1>7, <1>8, <1>9, <1>10, <1>11, <1>12, <1>13, <1>14,
       <1>15, <1>16, <1>17 DEF GoModNext

-----------------------------------------------------------------------------
(* The invariant *)

LEMMA EndsNext ==
    ASSUME GoModIInv, [GoModNext]_vars
    PROVE  Ends'
<1>0. Around
    BY AroundHolds
<1> USE DEF GoModIInv, Ends
<1>1. CASE Check
    BY <1>0, <1>1 DEF Around, Check, Goto, At, treeVars, bundleVars, rowVars, faultVars
<1>2. CASE Edit
    BY <1>0, <1>2 DEF Around, Edit, Goto, At, bundleVars, rowVars, faultVars
<1>3. CASE Decide
    BY <1>0, <1>3 DEF Around, Decide, Goto, At, treeVars, bundleVars, rowVars, faultVars
<1>4. CASE Vendor
    BY <1>0, NextStep, <1>4 DEF Around, Vendor, Goto, At, bundleVars, rowVars, faultVars
<1>5. CASE Stage
    BY <1>0, <1>5 DEF Around, Stage, Goto, At, bundleVars, rowVars, faultVars
<1>6. CASE Compare
    BY <1>0, NextStep, <1>6 DEF Around, Compare, Goto, At, bundleVars, rowVars, faultVars
<1>7. CASE Download
    BY <1>0, NextStep, <1>7 DEF Around, Download, Goto, At, treeVars, bundleVars, rowVars, faultVars
<1>8. CASE Tidy
    BY <1>0, <1>8 DEF Around, Tidy, Goto, At, treeVars, bundleVars, rowVars, faultVars
<1>9. ASSUME NEW v \in Versions, CopyBegins(v) PROVE Ends'
    BY <1>0, <1>9 DEF Around, CopyBegins, At, treeVars, rowVars, faultVars
<1>10. CASE CopyEnds
    BY <1>0, <1>10 DEF Around, CopyEnds, treeVars, rowVars, faultVars
<1>11. CASE MergeList
    BY <1>0, <1>11 DEF Around, MergeList, Goto, At, treeVars, rowVars, faultVars
<1>12. CASE List
    BY <1>0, <1>12 DEF Around, List, Goto, At, treeVars, bundleVars, rowVars, faultVars
<1>13. CASE Add
    BY <1>0, <1>13 DEF Around, Add, Goto, At, treeVars, bundleVars, faultVars
<1>14. CASE Write
    BY <1>0, <1>14 DEF Around, Write, Goto, At, treeVars, bundleVars, faultVars
<1>15. CASE CommandFails
    BY <1>0, <1>15 DEF Around, CommandFails, At, treeVars, bundleVars, rowVars
<1>16. CASE WorkerDies
    BY <1>0, <1>16 DEF Around, WorkerDies, At, treeVars
<1>17. CASE UNCHANGED vars
    BY <1>0, <1>17 DEF Around, vars, treeVars, bundleVars, rowVars, faultVars
<1> QED
    BY <1>1, <1>2, <1>3, <1>4, <1>5, <1>6, <1>7, <1>8, <1>9, <1>10, <1>11, <1>12, <1>13, <1>14,
       <1>15, <1>16, <1>17 DEF GoModNext

LEMMA GoModInvariant == GoModSpec => []GoModIInv
<1>1. GoModIInv /\ [GoModNext]_vars => GoModIInv'
    BY GoModTypeNext, CacheNext, VendorNext, IndexNext, EndsNext DEF GoModIInv
<1> QED
    BY GoModInitOK, <1>1, PTL DEF GoModSpec

\* All values are in their sets, whatever the repository and the request.
THEOREM GoModTypeCorrect == GoModSpec => []GoModTypeOK
<1>1. GoModIInv => GoModTypeOK
    BY DEF GoModIInv
<1> QED
    BY GoModInvariant, <1>1, PTL

\* fetch_gomod_source leaves every module's dependencies in the bundle: each is there and in the
\* list file of its module, after any number of failed commands and restarts, in any order of the
\* modules.  With vendoring it leaves none.
THEOREM CacheAlwaysServes == GoModSpec => []CacheServesEveryModule
<1>1. GoModIInv => CacheServesEveryModule
    <2> SUFFICES ASSUME GoModIInv PROVE CacheServesEveryModule
        OBVIOUS
    <2>1. Vendoring => \A v \in Versions : cache[v] = "absent"
        BY DEF GoModIInv, CacheOK
    <2>2. ASSUME Done, ~Vendoring, NEW d \in Asked, NEW v \in Needed(repo[d])
          PROVE  cache[v] # "absent" /\ v \in listed
        <3>1. PICK i \in Indices : d = PathOf(i)
            BY Positions DEF GoModIInv
        <3>2. Merged(i)
            BY <2>2, Positions DEF GoModIInv, Ends, Done, Merged
        <3> QED
            BY <2>2, <3>1, <3>2 DEF GoModIInv, CacheOK, NeededAt
    <2> QED
        BY <2>1, <2>2 DEF CacheServesEveryModule
<1> QED
    BY GoModInvariant, <1>1, PTL

\* gomod-vendor-check: a request that succeeds has the vendor directories of its commit, also if
\* an execution died after it had changed them (_should_vendor_deps, _vendor_changed); and the
\* Git index is reset, also if an execution died before it could.
THEOREM VendoringIsAlwaysChecked == GoModSpec => []VendoringIsChecked
<1>1. GoModIInv => VendoringIsChecked
    <2> SUFFICES ASSUME GoModIInv PROVE VendoringIsChecked
        OBVIOUS
    <2>1. \A d \in Asked : d \in Dirs /\ \E i \in Indices : d = PathOf(i)
        BY Positions DEF GoModIInv
    <2>2. Done => \A i \in Indices : Vendored(i)
        BY Positions DEF GoModIInv, Ends, Done, Vendored
    <2>3. ASSUME Done, ask.flag = "check", NEW d \in Asked, repo[d].vendor # "absent"
          PROVE  vendor[d] = repo[d].vendor
        BY <2>1, <2>2, <2>3 DEF GoModIInv, VendorOK
    <2>4. Done => staged = {}
        BY <2>1, <2>2 DEF GoModIInv, IndexOK, Done
    <2>5. step = "failed" /\ deaths = 0 => staged = {}
        BY DEF GoModIInv, IndexOK
    <2> QED
        BY <2>3, <2>4, <2>5 DEF VendoringIsChecked
<1> QED
    BY GoModInvariant, <1>1, PTL

-----------------------------------------------------------------------------
(***************************************************************************)
(* Versions.  Less is the order of the tuples, a finite set of tags has a  *)
(* highest one because the higher ones of a tag are ever fewer, and the    *)
(* version that is given lies above every tag before the commit and below  *)
(* every tag that was not reached.                                         *)
(***************************************************************************)
AnyVersion == Nat \X Nat \X Nat \X (0..9) \X (0..1)

LEMMA LessByParts ==
    ASSUME NEW v \in AnyVersion, NEW w \in AnyVersion
    PROVE  Less(v, w) <=>
               \/ v[1] < w[1]
               \/ v[1] = w[1] /\ v[2] < w[2]
               \/ v[1] = w[1] /\ v[2] = w[2] /\ v[3] < w[3]
               \/ v[1] = w[1] /\ v[2] = w[2] /\ v[3] = w[3] /\ v[4] < w[4]
               \/ v[1] = w[1] /\ v[2] = w[2] /\ v[3] = w[3] /\ v[4] = w[4] /\ v[5] < w[5]
<1>1. 1..5 = {1, 2, 3, 4, 5} /\ 1..(1 - 1) = {} /\ 1..(2 - 1) = {1} /\ 1..(3 - 1) = {1, 2}
      /\ 1..(4 - 1) = {1, 2, 3} /\ 1..(5 - 1) = {1, 2, 3, 4}
    OBVIOUS
<1> QED BY <1>1 DEF Less

LEMMA LessOrders ==
    ASSUME NEW u \in AnyVersion, NEW v \in AnyVersion, NEW w \in AnyVersion
    PROVE  ~Less(u, u) /\ (Less(u, v) /\ Less(v, w) => Less(u, w))
BY LessByParts DEF AnyVersion

LEMMA TagsAreVersions == TagVersions \subseteq AnyVersion
BY DEF TagVersions, AnyVersion

\* Among finitely many tags one has no greater.
LEMMA HighestTagIsHighest ==
    ASSUME NEW S, IsFiniteSet(S), S # {}, \A t \in S : t.v \in AnyVersion
    PROVE  HighestTag(S) \in S /\ \A u \in S : ~Less(HighestTag(S).v, u.v)
<1> DEFINE Above(t) == {u \in S : Less(t.v, u.v)}
           R == StrictSubsetOrdering(S)
           A == {Above(t) : t \in S}
<1>1. IsWellFoundedOn(R, FiniteSubsetsOf(S))
    BY FS_StrictSubsetOrderingWellFounded
<1>2. A \subseteq FiniteSubsetsOf(S) /\ A # {}
    <2>1. FiniteSubsetsOf(S) = SUBSET S
        BY FS_FiniteSubsetsOfFinite
    <2>2. A \subseteq SUBSET S /\ A # {}
        OBVIOUS
    <2> HIDE DEF A
    <2> QED BY <2>1, <2>2
<1>3. PICK a \in A : \A b \in A : <<b, a>> \notin R
    BY <1>1, <1>2, WFMin
<1>4. PICK t \in S : a = Above(t)
    BY <1>3
<1>5. \A u \in S : ~Less(t.v, u.v)
    <2> SUFFICES ASSUME NEW u \in S, Less(t.v, u.v) PROVE FALSE
        OBVIOUS
    <2>1. Above(u) \subseteq Above(t) /\ Above(u) # Above(t)
        <3>1. \A w \in S : Less(u.v, w.v) => Less(t.v, w.v)
            BY LessOrders
        <3>2. u \in Above(t) /\ u \notin Above(u)
            BY LessOrders
        <3> QED BY <3>1, <3>2
    <2>2. Above(u) \in A /\ Above(u) \in SUBSET S /\ a \in SUBSET S
        BY <1>4
    <2>3. <<Above(u), a>> \in R
        BY <1>4, <2>1, <2>2 DEF StrictSubsetOrdering
    <2> QED BY <1>3, <2>2, <2>3
<1> QED BY <1>5 DEF HighestTag

\* The version after a tag: greater than the tag, less than any greater tag.
LEMMA PseudoVersionFits ==
    ASSUME NEW v \in TagVersions
    PROVE  /\ PseudoVersion(v) \in AnyVersion /\ PseudoVersion(v)[1] = v[1]
           /\ Less(v, PseudoVersion(v))
           /\ \A w \in TagVersions : Less(v, w) => Less(PseudoVersion(v), w)
<1>1. CASE v[4] < 9
    <2>1. PseudoVersion(v) = <<v[1], v[2], v[3], v[4], 1>>
        BY <1>1 DEF PseudoVersion
    <2> QED BY <2>1, TagsAreVersions, LessByParts DEF TagVersions, AnyVersion
<1>2. CASE ~(v[4] < 9)
    <2>1. PseudoVersion(v) = <<v[1], v[2], v[3] + 1, 0, 1>>
        BY <1>2 DEF PseudoVersion
    <2> QED BY <1>2, <2>1, TagsAreVersions, LessByParts DEF TagVersions, AnyVersion
<1> QED BY <1>1, <1>2

LEMMA FirstVersionFits ==
    ASSUME NEW major \in Nat
    PROVE  /\ <<major, 0, 0, 0, 1>> \in AnyVersion
           /\ \A w \in TagVersions : w[1] = major => Less(<<major, 0, 0, 0, 1>>, w)
BY TagsAreVersions, LessByParts DEF TagVersions, AnyVersion

\* Tags of a module with a major version, on the commit or before it.
FoundTags(dir, where, n) == {t \in tags : t.dir = dir /\ t.at \in where /\ t.v[1] = n}

LEMMA FoundHighest ==
    ASSUME GoModTypeOK, NEW dir, NEW where, NEW n, FoundTags(dir, where, n) # {}
    PROVE  LET h == HighestTag(FoundTags(dir, where, n))
           IN /\ h \in FoundTags(dir, where, n) /\ h.v \in TagVersions /\ h.v[1] = n
              /\ \A u \in FoundTags(dir, where, n) : ~Less(h.v, u.v)
<1>1. IsFiniteSet(tags) /\ \A t \in tags : t.v \in TagVersions
    BY TagsAssumption DEF GoModTypeOK
<1>2. IsFiniteSet(FoundTags(dir, where, n))
    BY <1>1, FS_Subset DEF FoundTags
<1>3. \A t \in FoundTags(dir, where, n) : t.v \in TagVersions /\ t.v \in AnyVersion /\ t.v[1] = n
    BY <1>1, TagsAreVersions DEF FoundTags
<1> QED BY <1>2, <1>3, HighestTagIsHighest

LEMMA PreferredIsOne ==
    ASSUME NEW S, S # {}, S \subseteq {0, 1} \/ \E n \in Nat : S \subseteq {n}
    PROVE  Preferred(S) \in S
<1>1. \E n \in S : \A m \in S : m <= n
    OBVIOUS
<1> QED BY <1>1 DEF Preferred

\* get_golang_version: the highest tag on the commit, or what comes after the highest before it,
\* or the first pseudo-version of the major version.
LEMMA VersionComesFrom ==
    ASSUME GoModTypeOK, NEW dir, NEW major \in Nat, NEW v, v = GolangVersion(dir, major)
    PROVE  \/ \E n \in Nat : /\ FoundTags(dir, {"commit"}, n) # {}
                             /\ v = HighestTag(FoundTags(dir, {"commit"}, n)).v
           \/ \E n \in Nat : /\ FoundTags(dir, {"commit", "before"}, n) # {}
                             /\ FoundTags(dir, {"commit"}, n) = {}
                             /\ v = PseudoVersion(
                                        HighestTag(FoundTags(dir, {"commit", "before"}, n)).v)
           \/ /\ v = <<major, 0, 0, 0, 1>>
              /\ FoundTags(dir, {"commit", "before"}, major) = {}
<1> DEFINE majors == IF major # 0 THEN {major} ELSE {0, 1}
           on == {n \in majors : FoundTags(dir, {"commit"}, n) # {}}
           before == {n \in majors : FoundTags(dir, {"commit", "before"}, n) # {}}
<1>1. v = IF on # {} THEN HighestTag(FoundTags(dir, {"commit"}, Preferred(on))).v
          ELSE IF before # {}
               THEN PseudoVersion(
                        HighestTag(FoundTags(dir, {"commit", "before"}, Preferred(before))).v)
               ELSE <<major, 0, 0, 0, 1>>
    BY DEF GolangVersion, FoundTags
<1>2. /\ on \subseteq majors /\ before \subseteq majors /\ major \in majors /\ majors \subseteq Nat
      /\ majors \subseteq {0, 1} \/ majors \subseteq {major}
    OBVIOUS
<1>3. on # {} => Preferred(on) \in on
    BY <1>2, PreferredIsOne
<1>4. before # {} => Preferred(before) \in before
    BY <1>2, PreferredIsOne
<1>5. CASE on # {}
    <2> DEFINE n == Preferred(on)
    <2>1. n \in Nat /\ FoundTags(dir, {"commit"}, n) # {}
        BY <1>2, <1>3, <1>5
    <2> QED BY <1>1, <1>5, <2>1
<1>6. CASE on = {} /\ before # {}
    <2> DEFINE n == Preferred(before)
    <2>1. n \in Nat /\ FoundTags(dir, {"commit", "before"}, n) # {}
          /\ FoundTags(dir, {"commit"}, n) = {}
        BY <1>2, <1>4, <1>6
    <2> QED BY <1>1, <1>6, <2>1
<1>7. CASE on = {} /\ before = {}
    <2>1. FoundTags(dir, {"commit", "before"}, major) = {}
        BY <1>2, <1>7
    <2> QED BY <1>1, <1>7, <2>1
<1> QED BY <1>5, <1>6, <1>7

\* What VersionsSortBetweenTags says of a version.
Fits(d, v) ==
    LET mine == {t \in tags : t.dir = d /\ t.v[1] = v[1]}
        contained == {t \in mine : t.at # "after"}
    IN /\ \A t \in contained : ~Less(v, t.v) \/ \E u \in mine : /\ u.at = "commit"
                                                                /\ u.v = v
       /\ \A t \in mine \ contained :
              (\A u \in contained : Less(u.v, t.v) /\ u.at # "commit") => Less(v, t.v)

LEMMA GolangVersionFits ==
    ASSUME GoModTypeOK, NEW d, NEW major \in Nat
    PROVE  Fits(d, GolangVersion(d, major))
<1>1. PICK v : v = GolangVersion(d, major)
    OBVIOUS
<1>2. \A t \in tags : t.v \in TagVersions /\ t.v \in AnyVersion /\ t.at \in {"before", "commit", "after"}
    BY TagsAssumption, TagsAreVersions DEF GoModTypeOK
<1>3. CASE \E n \in Nat : /\ FoundTags(d, {"commit"}, n) # {}
                          /\ v = HighestTag(FoundTags(d, {"commit"}, n)).v
    <2>1. PICK n \in Nat : /\ FoundTags(d, {"commit"}, n) # {}
                           /\ v = HighestTag(FoundTags(d, {"commit"}, n)).v
        BY <1>3
    <2>2. PICK h : h \in FoundTags(d, {"commit"}, n) /\ h.v = v /\ v[1] = n
        BY <2>1, FoundHighest
    <2>3. h \in tags /\ h.dir = d /\ h.at = "commit" /\ h.v[1] = v[1]
        BY <2>2 DEF FoundTags
    <2> QED BY <1>1, <2>2, <2>3 DEF Fits
<1>4. CASE \E n \in Nat : /\ FoundTags(d, {"commit", "before"}, n) # {}
                          /\ FoundTags(d, {"commit"}, n) = {}
                          /\ v = PseudoVersion(HighestTag(FoundTags(d, {"commit", "before"}, n)).v)
    <2>1. PICK n \in Nat : /\ FoundTags(d, {"commit", "before"}, n) # {}
                           /\ v = PseudoVersion(HighestTag(FoundTags(d, {"commit", "before"}, n)).v)
        BY <1>4
    <2>2. PICK h : /\ h = HighestTag(FoundTags(d, {"commit", "before"}, n))
                   /\ h \in FoundTags(d, {"commit", "before"}, n) /\ h.v \in TagVersions
                   /\ h.v[1] = n
                   /\ \A u \in FoundTags(d, {"commit", "before"}, n) : ~Less(h.v, u.v)
        BY <2>1, FoundHighest
    <2>3. /\ v \in AnyVersion /\ v[1] = n /\ Less(h.v, v) /\ h.v \in AnyVersion
          /\ \A w \in TagVersions : Less(h.v, w) => Less(v, w)
        BY <2>1, <2>2, PseudoVersionFits, TagsAreVersions
    <2>4. ASSUME NEW t \in tags, t.dir = d, t.v[1] = v[1], t.at # "after"
          PROVE  ~Less(v, t.v)
        <3>1. t \in FoundTags(d, {"commit", "before"}, n)
            BY <1>2, <2>3, <2>4 DEF FoundTags
        <3> QED BY <1>2, <2>2, <2>3, <3>1, LessOrders
    <2>5. h \in tags /\ h.dir = d /\ h.v[1] = v[1] /\ h.at # "after"
        BY <2>2, <2>3 DEF FoundTags
    <2>6. ASSUME NEW t \in tags, Less(h.v, t.v)
          PROVE  Less(v, t.v)
        BY <1>2, <2>3, <2>6
    <2> QED BY <1>1, <2>4, <2>5, <2>6 DEF Fits
<1>5. CASE v = <<major, 0, 0, 0, 1>> /\ FoundTags(d, {"commit", "before"}, major) = {}
    <2>1. v[1] = major
        BY <1>5
    <2>2. \A t \in tags : t.dir = d /\ t.v[1] = major => t.at = "after"
        BY <1>2, <1>5 DEF FoundTags
    <2>3. \A t \in tags : t.v[1] = major => Less(v, t.v)
        BY <1>2, <1>5, FirstVersionFits
    <2> QED BY <1>1, <2>1, <2>2, <2>3 DEF Fits
<1> QED BY <1>1, <1>3, <1>4, <1>5, VersionComesFrom

\* The version of a module is the one get_golang_version gives it.
VersionsGiven ==
    /\ DOMAIN version = Dirs
    /\ \A d \in Dirs : version[d] \in {NoVersion, GolangVersion(d, repo[d].major)}

LEMMA VersionsGivenNext ==
    ASSUME GoModIInv, VersionsGiven, [GoModNext]_vars
    PROVE  VersionsGiven'
<1>1. UNCHANGED <<repo, tags>> /\ here \in Dirs
    BY ActionsKeepInputs, Positions DEF inputVars, GoModIInv
<1>2. \A d, n : GolangVersion(d, n)' = GolangVersion(d, n)
    BY <1>1 DEF GolangVersion
<1>3. CASE List
    <2>1. version' = [version EXCEPT ![here] = GolangVersion(here, repo[here].major)]
        BY <1>3 DEF List, this
    <2> QED BY <1>1, <1>2, <2>1 DEF VersionsGiven
<1>4. CASE UNCHANGED version
    BY <1>1, <1>2, <1>4 DEF VersionsGiven
<1>5. List \/ UNCHANGED version
    BY DEF GoModNext, vars, Check, Edit, Decide, Vendor, Stage, Compare, Download, Tidy,
           CopyBegins, CopyEnds, MergeList, Add, Write, CommandFails, WorkerDies
<1> QED BY <1>3, <1>4, <1>5

\* Go orders versions as they were made: the version of a module sorts after every tag its commit
\* contains and before every later tag that is greater, for any finite set of tags
\* (get_golang_version, _get_golang_pseudo_version).
THEOREM VersionsAlwaysSortBetweenTags == GoModSpec => []VersionsSortBetweenTags
<1>1. GoModInit => VersionsGiven
    BY DEF GoModInit, VersionsGiven
<1>2. GoModIInv /\ VersionsGiven => VersionsSortBetweenTags
    <2> SUFFICES ASSUME GoModIInv, VersionsGiven, NEW d \in Dirs, version[d] # NoVersion
                 PROVE  Fits(d, version[d])
        BY DEF VersionsSortBetweenTags, Fits
    <2>1. version[d] = GolangVersion(d, repo[d].major) /\ repo[d].major \in Nat /\ GoModTypeOK
        BY RepositoriesAssumption DEF VersionsGiven, GoModIInv, GoModTypeOK
    <2> QED BY <2>1, GolangVersionFits
<1> QED
    BY <1>1, <1>2, GoModInvariant, VersionsGivenNext, PTL DEF GoModSpec

-----------------------------------------------------------------------------
(***************************************************************************)
(* Failures.  Every step that refuses something is traced back to what it  *)
(* refuses: rows to the modules they are of (RowsOK), a vendor directory   *)
(* to the commit or to an earlier step (VisitedOK), a comparison to the    *)
(* flag that asks for it (ComparedOK), a download given up to as many      *)
(* failures (TriesOK).                                                     *)
(***************************************************************************)

\* A module that is asked for twice.
AskedTwice == Len(ask.paths) > 1 /\ Cardinality(Asked) < Len(ask.paths)

LEMMA TwiceIsFewer ==
    ASSUME GoModTypeOK, NEW i \in Indices, NEW j \in Indices, i # j, PathOf(i) = PathOf(j)
    PROVE  AskedTwice
<1>1. ask.paths \in Seq(Dirs) /\ Indices = 1..Len(ask.paths) /\ Len(ask.paths) \in Nat \ {0}
    BY Positions
<1> DEFINE n == Len(ask.paths)
<1>2. n > 1
    BY <1>1
<1>3. ask.paths \in Surjection(1..n, Asked)
    BY <1>1 DEF Surjection, Asked, Indices
<1>4. ask.paths \notin Injection(1..n, Asked)
    BY <1>1 DEF Injection, IsInjective, PathOf
<1>5. IsFiniteSet(1..n) /\ Cardinality(1..n) = n
    BY <1>1, FS_Interval
<1>6. IsFiniteSet(Asked) /\ Cardinality(Asked) <= n /\ Cardinality(Asked) # n
    BY <1>3, <1>4, <1>5, FS_Surjection
<1>7. Cardinality(Asked) \in Nat
    BY <1>6, FS_CardinalityType
<1> QED BY <1>1, <1>2, <1>6, <1>7 DEF AskedTwice

-----------------------------------------------------------------------------
(* What is reported *)

LEMMA DepsAreNamed ==
    ASSUME GoModTypeOK, NEW d \in Dirs
    PROVE  IsFiniteSet(Deps(repo[d])) /\ \A x \in Deps(repo[d]) : x.name \in Seq(STRING)
<1> DEFINE mod == repo[d]
           f == [m \in mod.needs |-> NameAndVersion(m)]
           g == [w \in mod.workspaces |-> [name |-> w, version |-> MainVersion]]
           named == {NameAndVersion(m) : m \in mod.needs}
           others == {[name |-> w, version |-> MainVersion] : w \in mod.workspaces}
<1>1. /\ IsFiniteSet(mod.needs) /\ IsFiniteSet(mod.workspaces)
      /\ \A m \in mod.needs : m.path \in Seq(STRING) /\ m.replace.path \in Seq(STRING)
      /\ \A w \in mod.workspaces : w \in Seq(STRING)
    BY ListingsAssumption DEF GoModTypeOK
<1>2. f \in Surjection(mod.needs, named) /\ g \in Surjection(mod.workspaces, others)
    BY DEF Surjection
<1>3. IsFiniteSet(named) /\ IsFiniteSet(others)
    <2> HIDE DEF named, others, f, g, mod
    <2> QED BY <1>1, <1>2, FS_Surjection
<1>4. IsFiniteSet(Deps(mod))
    <2>1. Deps(mod) = named \cup others
        BY DEF Deps
    <2> HIDE DEF named, others
    <2> QED BY <1>3, <2>1, FS_Union
<1>5. \A m \in mod.needs : NameAndVersion(m).name \in Seq(STRING)
    BY <1>1 DEF NameAndVersion
<1>6. \A x \in Deps(mod) : x.name \in Seq(STRING)
    BY <1>1, <1>5 DEF Deps
<1> QED BY <1>4, <1>6

LEMMA LocalNames ==
    ASSUME GoModTypeOK, NEW d \in Dirs
    PROVE  LET local == {y.name : y \in {x \in Deps(repo[d]) : x.version.kind = "path"}}
           IN  IsFiniteSet(local) /\ local \subseteq Seq(STRING)
<1> DEFINE paths == {x \in Deps(repo[d]) : x.version.kind = "path"}
           local == {y.name : y \in paths}
           f == [y \in paths |-> y.name]
<1>1. IsFiniteSet(paths)
    BY DepsAreNamed, FS_Subset
<1>2. f \in Surjection(paths, local)
    BY DEF Surjection
<1>3. IsFiniteSet(local)
    <2> HIDE DEF paths, local, f
    <2> QED BY <1>1, <1>2, FS_Surjection
<1> QED BY <1>3, DepsAreNamed

\* Packages of the listing.
\* What OrderAssumption says of one listing.
IsListing(pkgs) ==
    /\ pkgs \in Seq(ToSet(pkgs))
    /\ \A i \in DOMAIN pkgs :
           /\ \A j \in 1..(i - 1) : pkgs[j].name # pkgs[i].name
           /\ \A n \in pkgs[i].deps :
                  \E j \in 1..(i - 1) : pkgs[j].name = n /\ pkgs[j].deps \subseteq pkgs[i].deps

LEMMA ListingIsOrdered ==
    ASSUME GoModTypeOK, NEW d \in Dirs
    PROVE  IsListing(repo[d].packages)
BY ListingsAssumption, OrderAssumption DEF GoModTypeOK, IsListing

LEMMA DepsAreListed ==
    ASSUME NEW pkgs, IsListing(pkgs), NEW p \in ToSet(pkgs), NEW n \in p.deps
    PROVE  \E q \in ToSet(pkgs) : q.name = n
<1>1. PICK i \in DOMAIN pkgs : p = pkgs[i]
    BY DEF ToSet
<1>2. DOMAIN pkgs = 1..Len(pkgs) /\ Len(pkgs) \in Nat
    BY DEF IsListing
<1>3. PICK j \in 1..(i - 1) : pkgs[j].name = n
    BY <1>1 DEF IsListing
<1>4. j \in DOMAIN pkgs
    BY <1>2, <1>3
<1> QED BY <1>3, <1>4 DEF ToSet

LEMMA InfoIsListed ==
    ASSUME GoModTypeOK, NEW d \in Dirs, NEW name,
           \E q \in ToSet(repo[d].packages) : q.name = name
    PROVE  Info(repo[d], name) \in ToSet(repo[d].packages) /\ Info(repo[d], name).name = name
<1>1. \E i \in DOMAIN repo[d].packages : repo[d].packages[i].name = name
    BY DEF ToSet
<1> QED BY <1>1 DEF Info, ToSet

LEMMA TopsAreListed ==
    ASSUME NEW mod, NEW name \in TopPackages(mod)
    PROVE  \E q \in ToSet(mod.packages) : q.name = name
BY DEF TopPackages, ToSet

LEMMA ReplacedByAPath ==
    ASSUME NEW m, m.version.kind # "path", NameAndVersion(m).version.kind = "path"
    PROVE  NameAndVersion(m).name = m.path /\ NameAndVersion(m).version = Path(m.replace.path)
<1>1. m.replace.path # <<>>
    BY DEF NameAndVersion
<1>2. m.replace.version.kind # "release"
    BY <1>1 DEF NameAndVersion
<1>3. ~m.replace.absolute
    BY <1>1, <1>2 DEF NameAndVersion, AbsolutePath
<1> QED BY <1>1, <1>2, <1>3 DEF NameAndVersion

LEMMA PartsOfBoth ==
    ASSUME NEW S, NEW a \in Seq(S), NEW b \in Seq(S), NEW x \in ToSet(a \o b)
    PROVE  x \in ToSet(a) \/ x \in ToSet(b)
<1>1. PICK i \in 1..Len(a \o b) : x = (a \o b)[i]
    BY DEF ToSet
<1>2. CASE i <= Len(a)
    <2>1. x = a[i] /\ i \in DOMAIN a
        BY <1>1, <1>2
    <2> QED BY <2>1 DEF ToSet
<1>3. CASE i > Len(a)
    <2>1. x = b[i - Len(a)] /\ (i - Len(a)) \in DOMAIN b
        BY <1>1, <1>3
    <2> QED BY <2>1 DEF ToSet
<1> QED BY <1>1, <1>2, <1>3

LEMMA PartsOfRest ==
    ASSUME NEW S, NEW a \in Seq(S), NEW n \in Nat
    PROVE  /\ SubSeq(a, n + 1, Len(a)) \in Seq(S)
           /\ ToSet(SubSeq(a, n + 1, Len(a))) \subseteq ToSet(a)
<1> DEFINE b == SubSeq(a, n + 1, Len(a))
<1>1. b \in Seq(S) /\ \A i \in DOMAIN b : b[i] = a[n + i] /\ (n + i) \in DOMAIN a
    OBVIOUS
<1>2. ToSet(b) \subseteq ToSet(a)
    <2> HIDE DEF b
    <2> QED BY <1>1 DEF ToSet
<1> QED BY <1>1, <1>2

\* The local modules are the names of those that are replaced by a directory.
LEMMA LocalModules ==
    ASSUME GoModTypeOK, NEW d \in Dirs
    PROVE  {y.name : y \in {x \in Deps(repo[d]) : x.version.kind = "path"}}
               = {m.path : m \in {n \in repo[d].needs : ReplacedByPath(n)}}
<1> DEFINE mod == repo[d]
<1>1. \A m \in mod.needs : m.version.kind # "path"
    BY ListingsAssumption DEF GoModTypeOK
<1>2. \A m \in mod.needs : ReplacedByPath(m) => NameAndVersion(m).name = m.path
    BY <1>1, ReplacedByAPath DEF ReplacedByPath
<1>3. {x \in Deps(mod) : x.version.kind = "path"}
          = {NameAndVersion(m) : m \in {n \in mod.needs : ReplacedByPath(n)}}
    BY DEF Deps, MainVersion, ReplacedByPath
<1> HIDE DEF mod
<1> QED BY <1>2, <1>3 DEF mod

\* Where a dependency of a package gets a path from: the module that it is in is replaced by a
\* directory, and the path goes on with what the name has behind the longest such module.
LEMMA PackageDepModule ==
    ASSUME GoModTypeOK, NEW d \in Dirs, NEW p \in TopPackages(repo[d]),
           NEW n \in Info(repo[d], p).deps,
           PackageDep(repo[d], n).version.kind = "path"
    PROVE  \E q \in ToSet(repo[d].packages), parent \in Seq(STRING) :
               LET m == q.module IN
               /\ q.name = n /\ ~q.standard /\ ~q.main
               /\ m \in repo[d].needs /\ ReplacedByPath(m)
               /\ \E o \in repo[d].needs : /\ ReplacedByPath(o) /\ o.path = parent
                                           /\ contains_package(o.path, n)
               /\ Len(m.path) <= Len(parent)
               /\ PackageDep(repo[d], n).version.parts
                      = m.replace.path \o SubSeq(n, Len(parent) + 1, Len(n))
<1> DEFINE mod == repo[d]
           q == Info(mod, n)
           m == q.module
           local == {e.name : e \in {x \in Deps(mod) : x.version.kind = "path"}}
           parent == match_parent_module(n, local)
<1>1. q \in ToSet(mod.packages) /\ q.name = n
    <2>1. Info(mod, p) \in ToSet(mod.packages)
        BY TopsAreListed, InfoIsListed
    <2>2. \E x \in ToSet(mod.packages) : x.name = n
        BY <2>1, ListingIsOrdered, DepsAreListed
    <2> QED BY <2>2, InfoIsListed
<1>2. PackageDep(mod, n).version = FullVersion(mod, n, PackageVersion(q))
    BY DEF PackageDep
<1>3. PackageVersion(q).kind = "path"
    <2>1. PackageVersion(q).kind # "path" =>
              FullVersion(mod, n, PackageVersion(q)) = PackageVersion(q)
        BY DEF FullVersion
    <2> QED BY <1>2, <2>1
<1>4. ~q.standard /\ ~q.main /\ PackageVersion(q) = NameAndVersion(m).version
    BY <1>3 DEF PackageVersion, NoneVersion, MainVersion
<1>5. m \in mod.needs /\ contains_package(m.path, n) /\ m.version.kind # "path"
      /\ ReplacedByPath(m)
    <2>1. m \in mod.needs /\ contains_package(m.path, n)
        <3> HIDE DEF q
        <3> QED BY <1>1, <1>4, ListingsAssumption DEF GoModTypeOK
    <2>2. m.version.kind # "path"
        BY <2>1, ListingsAssumption DEF GoModTypeOK
    <2> QED BY <1>3, <1>4, <2>1, <2>2 DEF ReplacedByPath
<1>6. NameAndVersion(m).version = Path(m.replace.path)
    BY <1>5, ReplacedByAPath DEF ReplacedByPath
<1>7. local = {x.path : x \in {o \in mod.needs : ReplacedByPath(o)}}
    BY LocalModules
<1>8. m.path \in local
    <2> HIDE DEF local, m
    <2> QED BY <1>5, <1>7
<1>9. /\ parent \in local /\ parent \in Seq(STRING) /\ contains_package(parent, n)
      /\ Len(m.path) <= Len(parent)
    <2>1. HasParent(n, local)
        BY <1>5, <1>8 DEF HasParent
    <2>2. IsFiniteSet(local) /\ local \subseteq Seq(STRING)
        BY LocalNames
    <2> HIDE DEF local, m
    <2> QED BY <1>5, <1>8, <2>1, <2>2, LongestParent
<1>10. PackageDep(mod, n).version.parts
           = m.replace.path \o SubSeq(n, Len(parent) + 1, Len(n))
    <2> DEFINE rest == SubSeq(n, Len(parent) + 1, Len(n))
    <2>1. PackageDep(mod, n).version = FullVersion(mod, n, Path(m.replace.path))
        BY <1>2, <1>4, <1>6
    <2>2. FullVersion(mod, n, Path(m.replace.path)) = Path(m.replace.path \o rest)
        BY DEF FullVersion, path_to_subpackage, Path
    <2>3. Path(m.replace.path \o rest).parts = m.replace.path \o rest
        BY DEF Path
    <2> QED BY <2>1, <2>2, <2>3
<1>11. \E o \in mod.needs : ReplacedByPath(o) /\ o.path = parent /\ contains_package(o.path, n)
    <2> HIDE DEF local, parent
    <2> QED BY <1>7, <1>9
<1> HIDE DEF q, parent, mod
<1> QED BY <1>1, <1>4, <1>5, <1>9, <1>10, <1>11 DEF mod

\* A dependency of a package that lies above the module is in a module that a replacement leads
\* to, above the module too (_set_full_local_dep_relpaths).
LEMMA PackageDepOrigin ==
    ASSUME GoModTypeOK, NEW d \in Dirs, NEW p \in TopPackages(repo[d]),
           NEW n \in Info(repo[d], p).deps,
           PackageDep(repo[d], n).version.kind = "path",
           ".." \in ToSet(PackageDep(repo[d], n).version.parts)
    PROVE  \E y \in Deps(repo[d]) : /\ y.version.kind = "path"
                                    /\ ".." \in ToSet(y.version.parts)
                                    /\ contains_package(y.name, n)
<1> DEFINE path == PackageDep(repo[d], n).version.parts
<1>1. PICK q \in ToSet(repo[d].packages), parent \in Seq(STRING) :
          /\ q.name = n /\ ~q.standard /\ ~q.main
          /\ q.module \in repo[d].needs /\ ReplacedByPath(q.module)
          /\ path = q.module.replace.path \o SubSeq(n, Len(parent) + 1, Len(n))
    BY PackageDepModule
<1> DEFINE m == q.module
           y == NameAndVersion(m)
           rest == SubSeq(n, Len(parent) + 1, Len(n))
<1>2. n \in Seq(STRING) /\ ".." \notin ToSet(n) /\ contains_package(m.path, n)
    BY <1>1, ListingsAssumption DEF GoModTypeOK
<1>3. m.replace.path \in Seq(STRING) /\ m.version.kind # "path"
    BY <1>1, ListingsAssumption DEF GoModTypeOK
<1>4. y \in Deps(repo[d]) /\ y.version.kind = "path"
    BY <1>1 DEF Deps, ReplacedByPath
<1>5. y.name = m.path /\ y.version.parts = m.replace.path
    <2>1. y.name = m.path /\ y.version = Path(m.replace.path)
        BY <1>3, <1>4, ReplacedByAPath
    <2>2. Path(m.replace.path).parts = m.replace.path
        BY DEF Path
    <2> QED BY <2>1, <2>2
<1>6. ".." \in ToSet(m.replace.path)
    <2>1. rest \in Seq(STRING) /\ ToSet(rest) \subseteq ToSet(n)
        BY <1>2, PartsOfRest
    <2>2. ".." \in ToSet(m.replace.path \o rest)
        BY <1>1
    <2> HIDE DEF rest, m
    <2>3. ".." \in ToSet(m.replace.path) \/ ".." \in ToSet(rest)
        BY <1>3, <2>1, <2>2, PartsOfBoth
    <2> QED BY <1>2, <2>1, <2>3
<1> QED BY <1>2, <1>4, <1>5, <1>6

\* Where the package's name leads to no longer local module than its own, the path is that of the
\* package's directory.
LEMMA PackageDepPlace ==
    ASSUME GoModTypeOK, NEW d \in Dirs, NEW p \in TopPackages(repo[d]),
           NEW n \in Info(repo[d], p).deps,
           PackageDep(repo[d], n).version.kind = "path"
    PROVE  \E q \in ToSet(repo[d].packages) :
               /\ q.name = n
               /\ InTheLongest(repo[d], q) =>
                      normpath(d \o PackageDep(repo[d], n).version.parts) = q.dir
<1>1. PICK q \in ToSet(repo[d].packages), parent \in Seq(STRING) :
          /\ q.name = n /\ ~q.standard /\ ~q.main
          /\ q.module \in repo[d].needs /\ ReplacedByPath(q.module)
          /\ \E o \in repo[d].needs : /\ ReplacedByPath(o) /\ o.path = parent
                                      /\ contains_package(o.path, n)
          /\ Len(q.module.path) <= Len(parent)
          /\ PackageDep(repo[d], n).version.parts
                 = q.module.replace.path \o SubSeq(n, Len(parent) + 1, Len(n))
    BY PackageDepModule
<1>2. q.dir = normpath(d \o (q.module.replace.path \o path_to_subpackage(q.module.path, n)))
    BY <1>1, DirectoriesAssumption DEF GoModTypeOK
<1>3. q.module.path \in Seq(STRING)
    BY <1>1, ListingsAssumption DEF GoModTypeOK
<1>4. InTheLongest(repo[d], q) => Len(parent) = Len(q.module.path)
    <2>1. InTheLongest(repo[d], q) => Len(parent) <= Len(q.module.path)
        BY <1>1 DEF InTheLongest
    <2>2. Len(parent) \in Nat /\ Len(q.module.path) \in Nat
        BY <1>3
    <2> QED BY <1>1, <2>1, <2>2
<1> QED BY <1>1, <1>2, <1>4 DEF path_to_subpackage

RowsAt(i) ==
    {ModuleRow(PathOf(i), repo[PathOf(i)])}
        \cup {PackageRow(PathOf(i), repo[PathOf(i)], p) : p \in TopPackages(repo[PathOf(i)])}
Given(d) == version[d] = GolangVersion(d, repo[d].major)
Reported(i) == i < pos \/ (i = pos /\ step \in {"write", "done"})

\* The rows are those of the modules that were passed.
RowsOK ==
    /\ step = "add" => Given(here)
    /\ step # "failed" =>
           /\ \A i \in Indices : Reported(i) =>
                  /\ Given(PathOf(i))
                  /\ RowsAt(i) \subseteq packages
           /\ \A r \in packages : \E i \in Indices : Reported(i) /\ r \in RowsAt(i)

\* A vendor directory that is not as in the commit was made by go mod vendor.
VisitedOK ==
    /\ ~Vendoring => \A d \in Dirs : vendor[d] = repo[d].vendor
    /\ deaths = 0 =>
           \A d \in Dirs : vendor[d] # repo[d].vendor =>
               \E i \in Indices : /\ PathOf(i) = d
                                  /\ i < pos \/ (i = pos /\ step \notin {"check", "edit", "decide",
                                                                         "vendor"})

\* Only gomod-vendor-check compares.
Checked == ask.flag = "check" /\ (repo[here].vendor # "absent" \/ deaths > 0 \/ AskedTwice)
ComparedOK ==
    /\ step \in {"vendor", "stage", "compare"} => Vendoring
    /\ step = "vendor" => mayChange \/ Checked
    /\ step \in {"stage", "compare"} => Checked

TriesOK == tries <= failures

LEMMA VisitedNext ==
    ASSUME GoModTypeOK, VisitedOK, ComparedOK, [GoModNext]_vars
    PROVE  VisitedOK'
<1>0. /\ UNCHANGED inputVars /\ Indices' = Indices /\ (Vendoring <=> Vendoring')
      /\ \A i : PathOf(i)' = PathOf(i)
      /\ pos \in Indices /\ here = PathOf(pos) /\ here \in Dirs /\ Indices \subseteq Nat
    BY ActionsKeepInputs, InputsStay, Positions
<1>1. repo' = repo /\ DOMAIN vendor = Dirs /\ deaths \in Nat
    BY <1>0, BoundsAssumption DEF inputVars, GoModTypeOK
<1> DEFINE Past(i) == i < pos \/ (i = pos /\ step \notin {"check", "edit", "decide", "vendor"})
<1>2. CASE UNCHANGED <<vendor, deaths>> /\ \A i \in Indices : Past(i) => Past(i)'
    BY <1>0, <1>1, <1>2 DEF VisitedOK
<1>3. CASE Vendor
    <2>1. /\ vendor' = [vendor EXCEPT ![here] = "good"] /\ pos' = pos /\ deaths' = deaths
          /\ step = "vendor" /\ step' \in {"tidy", "merge", "list", "stage"}
        BY <1>3 DEF Vendor, Goto, AfterFetch, faultVars, At
    <2>2. Vendoring
        BY <2>1 DEF ComparedOK
    <2>3. \A i \in Indices : Past(i) => Past(i)'
        BY <2>1
    <2>4. \A d \in Dirs : d # here => vendor'[d] = vendor[d]
        BY <1>1, <2>1
    <2>5. Past(pos)'
        BY <2>1
    <2> QED BY <1>0, <1>1, <2>1, <2>2, <2>3, <2>4, <2>5 DEF VisitedOK
<1>4. CASE WorkerDies
    <2>1. deaths' = deaths + 1 /\ vendor' = vendor
        BY <1>4 DEF WorkerDies, treeVars
    <2> QED BY <1>0, <1>1, <2>1 DEF VisitedOK
<1>5. CASE Add
    <2>1. /\ vendor' = vendor /\ deaths' = deaths /\ step = "add" /\ pos \in Nat
          /\ pos' = pos + 1 \/ (pos' = pos /\ step' \in {"failed", "write"})
        BY <1>0, <1>5 DEF Add, Goto, treeVars, faultVars, At
    <2>2. \A i \in Indices : Past(i) => Past(i)'
        BY <1>0, <2>1
    <2> QED BY <1>2, <2>1, <2>2
<1>6. CASE Check \/ Edit \/ Decide \/ Stage \/ Compare \/ Download \/ Tidy \/ MergeList \/ List
           \/ Write \/ CommandFails \/ CopyEnds \/ \E v \in Versions : CopyBegins(v)
    <2>1. UNCHANGED <<vendor, deaths, pos>>
        BY <1>6 DEF Check, Edit, Decide, Stage, Compare, Download, Tidy, MergeList, List, Write,
              CommandFails, CopyEnds, CopyBegins, Goto, treeVars, faultVars
    <2>2. step \notin {"check", "edit", "decide", "vendor"} =>
              step' \notin {"check", "edit", "decide", "vendor"}
        BY <1>6 DEF Check, Edit, Decide, Stage, Compare, Download, Tidy, MergeList, List, Write,
              CommandFails, CopyEnds, CopyBegins, Goto, At, AfterFetch
    <2> QED BY <1>2, <2>1, <2>2
<1>7. CASE UNCHANGED vars
    <2>1. UNCHANGED <<vendor, deaths, pos, step>>
        BY <1>7 DEF vars, treeVars, faultVars
    <2> QED BY <1>2, <2>1
<1> QED BY <1>3, <1>4, <1>5, <1>6, <1>7 DEF GoModNext

LEMMA ComparedNext ==
    ASSUME GoModTypeOK, VisitedOK, ComparedOK, [GoModNext]_vars
    PROVE  ComparedOK'
<1>0. /\ UNCHANGED inputVars /\ Indices' = Indices /\ (Vendoring <=> Vendoring')
      /\ Asked' = Asked /\ \A i : PathOf(i)' = PathOf(i)
      /\ pos \in Indices /\ here = PathOf(pos) /\ here \in Dirs /\ Indices \subseteq Nat
    BY ActionsKeepInputs, InputsStay, Positions
<1>1. repo' = repo /\ ask' = ask /\ deaths \in Nat /\ ask.flag \in Flags /\ (AskedTwice <=> AskedTwice')
    BY <1>0, BoundsAssumption, Positions DEF inputVars, GoModTypeOK, AskedTwice
<1>2. CASE Decide
    <2>1. /\ step = "decide" /\ pos' = pos /\ deaths' = deaths /\ step' \notin {"stage", "compare"}
          /\ step' = "vendor" => Vendoring
          /\ mayChange' = (ask.flag = "vendor" \/ (ask.flag = "check" /\ vendor[here] = "absent"))
        BY <1>2 DEF Decide, Goto, faultVars, At
    <2>2. here' = here
        BY <1>1, <2>1 DEF here
    <2>3. ASSUME Vendoring, ~mayChange' PROVE Checked'
        <3>1. ask.flag = "check" /\ vendor[here] # "absent"
            BY <1>1, <2>1, <2>3 DEF Vendoring, Flags
        <3>2. ASSUME repo[here].vendor = "absent", deaths = 0 PROVE AskedTwice
            <4>1. PICK i \in Indices : PathOf(i) = here /\ i < pos
                BY <1>0, <2>1, <3>1, <3>2 DEF VisitedOK
            <4> QED BY <1>0, <4>1, TwiceIsFewer
        <3> QED BY <1>1, <2>1, <2>2, <3>1, <3>2 DEF Checked
    <2> QED BY <1>0, <2>1, <2>3 DEF ComparedOK
<1>3. CASE Vendor \/ Stage
    <2>1. /\ UNCHANGED <<pos, deaths, mayChange>> /\ step \in {"vendor", "stage"}
          /\ step' = "stage" => ~mayChange \/ step = "stage"
          /\ step' # "vendor" /\ (step' = "compare" => step = "stage")
        BY <1>3 DEF Vendor, Stage, Goto, AfterFetch, faultVars, At
    <2>2. here' = here
        BY <1>1, <2>1 DEF here
    <2>3. Checked' <=> Checked
        BY <1>1, <2>1, <2>2 DEF Checked
    <2> QED BY <1>0, <2>1, <2>3 DEF ComparedOK
<1>4. CASE step' \notin {"vendor", "stage", "compare"}
    BY <1>4 DEF ComparedOK
<1>5. CASE UNCHANGED <<step, pos, deaths, mayChange>>
    <2>1. here' = here
        BY <1>1, <1>5 DEF here
    <2> QED BY <1>0, <1>1, <1>5, <2>1 DEF ComparedOK, Checked
<1>6. CASE Check \/ Edit \/ Compare \/ Download \/ Tidy \/ MergeList \/ List \/ Write \/ Add
           \/ WorkerDies
    <2>1. step' \notin {"vendor", "stage", "compare"}
        BY <1>6 DEF Check, Edit, Compare, Download, Tidy, MergeList, List, Write, Add,
              WorkerDies, Goto, AfterFetch
    <2> QED BY <1>4, <2>1
<1>7. CASE CommandFails \/ CopyEnds \/ (\E v \in Versions : CopyBegins(v)) \/ UNCHANGED vars
    <2>1. step' = "failed" \/ UNCHANGED <<step, pos, deaths, mayChange>>
        BY <1>7 DEF CommandFails, CopyEnds, CopyBegins, vars, faultVars
    <2> QED BY <1>4, <1>5, <2>1
<1> QED BY <1>2, <1>3, <1>6, <1>7 DEF GoModNext

LEMMA TriesNext ==
    ASSUME GoModTypeOK, TriesOK, [GoModNext]_vars
    PROVE  TriesOK'
<1>1. tries \in Nat /\ failures \in Nat
    BY MaxTriesAssumption, BoundsAssumption DEF GoModTypeOK
<1>2. CASE CommandFails
    BY <1>1, <1>2 DEF CommandFails, TriesOK
<1>3. CASE WorkerDies
    BY <1>1, <1>3 DEF WorkerDies, TriesOK
<1>4. CASE (\E v \in Versions : CopyBegins(v)) \/ CopyEnds \/ UNCHANGED vars
    BY <1>4 DEF CopyBegins, CopyEnds, vars, faultVars, TriesOK
<1>5. CASE Check \/ Edit \/ Decide \/ Vendor \/ Stage \/ Compare \/ Download \/ Tidy \/ MergeList
           \/ List \/ Add \/ Write
    <2>1. tries' = 0 /\ failures' = failures
        BY <1>5 DEF Check, Edit, Decide, Vendor, Stage, Compare, Download, Tidy, MergeList, List,
              Add, Write, Goto, faultVars
    <2> QED BY <1>1, <2>1 DEF TriesOK
<1> QED BY <1>2, <1>3, <1>4, <1>5 DEF GoModNext

\* A version that was given stays, and so do the rows that have it.
LEMMA GivenStays ==
    ASSUME GoModTypeOK, VersionsGiven, [GoModNext]_vars
    PROVE  \A i \in Indices : Given(PathOf(i)) =>
               /\ Given(PathOf(i))' /\ RowsAt(i)' = RowsAt(i)
<1> SUFFICES ASSUME NEW i \in Indices, Given(PathOf(i))
             PROVE  /\ Given(PathOf(i))' /\ RowsAt(i)' = RowsAt(i)
    OBVIOUS
<1> DEFINE d == PathOf(i)
<1>0. UNCHANGED <<repo, tags>> /\ d' = d /\ d \in Dirs /\ DOMAIN version = Dirs
    BY ActionsKeepInputs, InputsStay, Positions DEF inputVars, VersionsGiven
<1>1. GolangVersion(d, repo[d].major)' = GolangVersion(d, repo[d].major)
    BY <1>0 DEF GolangVersion
<1>2. version'[d] = version[d]
    <2>1. CASE List
        <3>1. version' = [version EXCEPT ![here] = GolangVersion(here, repo[here].major)]
            BY <2>1 DEF List, this
        <3> QED BY <1>0, <3>1 DEF Given
    <2>2. List \/ UNCHANGED version
        BY DEF GoModNext, vars, Check, Edit, Decide, Vendor, Stage, Compare, Download, Tidy,
               CopyBegins, CopyEnds, MergeList, Add, Write, CommandFails, WorkerDies
    <2> QED BY <2>1, <2>2
<1> HIDE DEF d
<1>3. repo'[d] = repo[d]
    BY <1>0
<1>4. ModuleRow(d, repo[d])' = ModuleRow(d, repo[d])
    BY <1>0, <1>2, <1>3 DEF ModuleRow
<1>5. \A p : PackageRow(d, repo[d], p)' = PackageRow(d, repo[d], p)
    BY <1>0, <1>2, <1>3 DEF PackageRow
<1>6. RowsAt(i)' = RowsAt(i)
    <2>1. TopPackages(repo[d])' = TopPackages(repo[d])
        BY <1>0, <1>3
    <2> QED BY <1>0, <1>4, <1>5, <2>1 DEF RowsAt, d
<1> QED BY <1>0, <1>1, <1>2, <1>4, <1>6 DEF Given, d

LEMMA RowsNext ==
    ASSUME GoModTypeOK, VersionsGiven, RowsOK, [GoModNext]_vars
    PROVE  RowsOK'
<1>0. /\ UNCHANGED inputVars /\ Indices' = Indices /\ \A i : PathOf(i)' = PathOf(i)
      /\ pos \in Indices /\ here = PathOf(pos) /\ here \in Dirs /\ Indices \subseteq Nat
    BY ActionsKeepInputs, InputsStay, Positions
<1>1. repo' = repo /\ tags' = tags /\ ask' = ask /\ DOMAIN version = Dirs
    BY <1>0 DEF inputVars, VersionsGiven
<1>2. \A i \in Indices : Given(PathOf(i)) =>
               /\ Given(PathOf(i))' /\ RowsAt(i)' = RowsAt(i)
    BY GivenStays
<1>3. ASSUME packages' = packages, step # "failed", step' # "failed",
             \A i \in Indices : Reported(i) <=> Reported(i)'
      PROVE  step' # "failed" =>
                 /\ \A i \in Indices : Reported(i)' =>
                        /\ Given(PathOf(i))'
                        /\ RowsAt(i)' \subseteq packages'
                 /\ \A r \in packages' : \E i \in Indices : Reported(i)' /\ r \in RowsAt(i)'
    BY <1>2, <1>3 DEF RowsOK
<1> DEFINE Rows1 == step' # "failed" =>
                 /\ \A i \in Indices : Reported(i)' =>
                        /\ Given(PathOf(i))'
                        /\ RowsAt(i)' \subseteq packages'
                 /\ \A r \in packages' : \E i \in Indices : Reported(i)' /\ r \in RowsAt(i)'
           Add1 == step' = "add" => Given(here)'
<1>4. Rows1 /\ Add1 => RowsOK'
    BY <1>0 DEF RowsOK
<1> HIDE DEF Rows1
<1>5. CASE Check \/ Edit \/ Decide \/ Vendor \/ Stage \/ Compare \/ Download \/ Tidy \/ MergeList
           \/ List \/ Write \/ CommandFails \/ CopyEnds \/ (\E v \in Versions : CopyBegins(v))
    <2>1. /\ UNCHANGED <<packages, pos>>
          /\ step' = "failed" \/ (step \in {"write", "done"} <=> step' \in {"write", "done"})
          /\ step' # "failed" => step # "failed" \/ step' = step
          /\ step = "failed" => step' = "failed"
          /\ step' = "add" => List \/ (step = "add" /\ UNCHANGED version)
        BY <1>5 DEF Check, Edit, Decide, Vendor, Stage, Compare, Download, Tidy, MergeList, List,
              Write, CommandFails, CopyEnds, CopyBegins, Goto, At, AfterFetch, rowVars, Commands
    <2>2. step' # "failed" => \A i \in Indices : Reported(i) <=> Reported(i)'
        BY <2>1 DEF Reported
    <2>3. Rows1
        BY <1>3, <2>1, <2>2 DEF Rows1
    <2>4. here' = here
        BY <1>1, <2>1 DEF here
    <2>5. Add1
        <3>1. CASE List
            <4>1. version'[here] = GolangVersion(here, repo[here].major)
                BY <1>0, <1>1, <3>1 DEF List, this
            <4>2. GolangVersion(here, repo[here].major)' = GolangVersion(here, repo[here].major)
                BY <1>1, <2>4 DEF GolangVersion
            <4> QED BY <2>4, <4>1, <4>2 DEF Given
        <3>2. CASE step = "add"
            BY <1>0, <1>2, <2>4, <3>2 DEF RowsOK
        <3> QED BY <2>1, <3>1, <3>2
    <2> QED BY <1>4, <2>3, <2>5
<1>6. CASE Add
    <2>1. CASE step' = "failed"
        BY <1>4, <2>1 DEF Rows1
    <2>2. CASE step' # "failed"
        <3>1. /\ step = "add" /\ packages' = packages \cup NewRows
              /\ \/ pos' = pos + 1 /\ step' = "edit"
                 \/ pos' = pos /\ step' = "write"
            BY <1>6, <2>2 DEF Add, Goto, At
        <3>2. NewRows = RowsAt(pos) /\ Given(PathOf(pos))
            BY <1>0, <3>1 DEF NewRows, RowsAt, this, RowsOK
        <3>3. \A i \in Indices : Reported(i)' <=> Reported(i) \/ i = pos
            BY <1>0, <3>1 DEF Reported
        <3>4. Rows1
            <4>1. ASSUME NEW i \in Indices, Reported(i)'
                  PROVE  /\ Given(PathOf(i))'
                         /\ RowsAt(i)' \subseteq packages'
                <5>1. Given(PathOf(i)) /\ RowsAt(i) \subseteq packages'
                    BY <3>1, <3>2, <3>3, <4>1 DEF RowsOK
                <5> QED BY <1>2, <5>1
            <4>2. ASSUME NEW r \in packages'
                  PROVE  \E i \in Indices : Reported(i)' /\ r \in RowsAt(i)'
                <5>1. PICK i \in Indices : Reported(i)' /\ r \in RowsAt(i) /\ Given(PathOf(i))
                    BY <1>0, <3>1, <3>2, <3>3 DEF RowsOK
                <5> QED BY <1>2, <5>1
            <4> QED BY <4>1, <4>2 DEF Rows1
        <3> QED BY <1>4, <3>1, <3>4
    <2> QED BY <2>1, <2>2
<1>7. CASE WorkerDies
    <2>1. packages' = {} /\ pos' = 1 /\ step' = "check"
        BY <1>7 DEF WorkerDies
    <2>2. \A i \in Indices : ~Reported(i)'
        BY <1>0, <2>1, Positions DEF Reported
    <2>3. Rows1
        BY <2>1, <2>2 DEF Rows1
    <2> QED BY <1>4, <2>1, <2>3
<1>8. CASE UNCHANGED vars
    <2>1. UNCHANGED <<packages, pos, step>>
        BY <1>8 DEF vars, rowVars
    <2>2. \A i \in Indices : Reported(i) <=> Reported(i)'
        BY <2>1 DEF Reported
    <2>3. Rows1
        BY <1>3, <2>1, <2>2 DEF Rows1
    <2>4. here' = here
        BY <1>1, <2>1 DEF here
    <2>5. Add1
        BY <1>0, <1>2, <2>1, <2>4 DEF RowsOK
    <2> QED BY <1>4, <2>3, <2>5
<1> QED BY <1>5, <1>6, <1>7, <1>8 DEF GoModNext

\* What OnlyBadRequestsFail says of a request that failed.
Explained ==
    \/ \E d \in Asked : ~repo[d].present \/ ~Supported(repo[d])
    \/ Len(ask.paths) > 1 /\ (ask.replaced \/ Cardinality(Asked) < Len(ask.paths))
    \/ Vendoring /\ \E d \in Asked : repo[d].workspacevendor
    \/ ask.flag = "check" /\ \E d \in Asked : VendorChanged(d) /\ repo[d].vendor # "absent"
    \/ ~Vendoring /\ Strict /\ \E d \in Asked : repo[d].vendor # "absent"
    \/ \E d \in Asked : ~LocalPathsAreFine(d, repo[d])
    \/ \E d \in Asked : \E x \in Deps(repo[d]) :
           /\ x.version.kind = "path" /\ ".." \in ToSet(x.version.parts)
           /\ LET target == normpath(d \o x.version.parts)
              IN target \notin Asked \/ repo[target].name # x.name
    \/ \E d, e \in Asked : d # e /\ ListedTwice(d, e)
    \/ failures > 0 /\ (broken = "download" => failures >= MaxTries)
    \/ deaths > 0 /\ ask.flag = "check"

LEMMA ExplainedStays ==
    ASSUME Explained, UNCHANGED <<inputVars, edited, version, failures, broken, deaths>>
    PROVE  Explained'
<1>1. UNCHANGED <<repo, ask, Asked>> /\ (Vendoring <=> Vendoring')
    BY InputsStay DEF inputVars
<1>2. /\ \A d : VendorChanged(d) <=> VendorChanged(d)'
      /\ \A d, e : ListedTwice(d, e) <=> ListedTwice(d, e)'
    BY <1>1 DEF VendorChanged, ListedTwice
<1>3. \A d : Supported(repo[d]) <=> Supported(repo[d])'
    BY <1>1
<1>4. \A d : LocalPathsAreFine(d, repo[d]) <=> LocalPathsAreFine(d, repo[d])'
    BY <1>1
<1>5. \A d : Deps(repo[d])' = Deps(repo[d])
    BY <1>1
<1> QED BY <1>1, <1>2, <1>3, <1>4, <1>5 DEF Explained

\* Two rows of one key come from two modules that list a package twice, or from one that is asked
\* for twice.
LEMMA SameKeyExplained ==
    ASSUME GoModTypeOK, RowsOK, step = "add",
           NEW r \in packages, NEW s \in NewRows, SameKey(r, s)
    PROVE  Explained
<1>1. pos \in Indices /\ Indices \subseteq Nat /\ here = PathOf(pos)
      /\ \A i \in Indices : PathOf(i) \in Asked
    BY Positions
<1>2. PICK i \in Indices : i < pos /\ r \in RowsAt(i)
    BY DEF RowsOK, Reported
<1> DEFINE d == PathOf(i)
           e == PathOf(pos)
<1>3. CASE d = e
    BY <1>1, <1>2, <1>3, TwiceIsFewer DEF AskedTwice, Explained
<1>4. CASE d # e
    <2>1. s \in RowsAt(pos)
        BY <1>1 DEF NewRows, RowsAt, this
    <2>2. \A x \in Indices : \A t \in RowsAt(x) :
              /\ t.version = version[PathOf(x)]
              /\ \/ t.type = "gomod" /\ t.name = repo[PathOf(x)].name
                 \/ t.type = "go-package" /\ t.name \in TopPackages(repo[PathOf(x)])
        BY DEF RowsAt, ModuleRow, PackageRow, Row
    <2>3. ListedTwice(d, e)
        BY <1>1, <1>2, <2>1, <2>2 DEF SameKey, ListedTwice
    <2> QED BY <1>1, <1>4, <2>3 DEF Explained
<1> QED BY <1>3, <1>4

\* A replacement that leads above its module, to a module of its name, has this as its parent.
LEMMA ParentsExplained ==
    ASSUME GoModTypeOK, Ends, RowsOK, step = "write", ~ParentsAreIncluded(packages)
    PROVE  Explained
<1> DEFINE modules == {x.name : x \in {y \in packages : y.type = "gomod"}}
<1>1. /\ pos = Len(ask.paths) /\ \A i \in Indices : i < pos \/ i = pos
      /\ \A i \in Indices : PathOf(i) \in Dirs /\ PathOf(i) \in Asked
      /\ \A d \in Asked : \E i \in Indices : d = PathOf(i)
    BY Positions DEF Ends
<1>2. PICK r \in packages :
          \E x \in r.deps : /\ x.version.kind = "path" /\ ".." \in ToSet(x.version.parts)
                           /\ ~HasParent(x.name, modules)
    BY DEF ParentsAreIncluded
<1>3. PICK x \in r.deps : /\ x.version.kind = "path" /\ ".." \in ToSet(x.version.parts)
                          /\ ~HasParent(x.name, modules)
    BY <1>2
<1>4. PICK i \in Indices : r \in RowsAt(i)
    BY DEF RowsOK
<1> DEFINE d == PathOf(i)
<1>5. \E y \in Deps(repo[d]) : /\ y.version.kind = "path" /\ ".." \in ToSet(y.version.parts)
                               /\ contains_package(y.name, x.name)
    <2>1. CASE r = ModuleRow(d, repo[d])
        <3>1. x \in Deps(repo[d])
            BY <1>3, <2>1 DEF ModuleRow, Row
        <3>2. x.name \in Seq(STRING)
            BY <1>1, <3>1, DepsAreNamed
        <3> QED BY <1>3, <3>1, <3>2, PrefixOfItself
    <2>2. ASSUME NEW p \in TopPackages(repo[d]), r = PackageRow(d, repo[d], p)
          PROVE  \E y \in Deps(repo[d]) :
                     /\ y.version.kind = "path" /\ ".." \in ToSet(y.version.parts)
                     /\ contains_package(y.name, x.name)
        <3>1. r.deps = {PackageDep(repo[d], n) : n \in Info(repo[d], p).deps}
            BY <2>2 DEF PackageRow, Row
        <3>2. PICK n \in Info(repo[d], p).deps : x = PackageDep(repo[d], n)
            BY <1>3, <3>1
        <3>3. x.name = n
            BY <3>2 DEF PackageDep
        <3> QED BY <1>1, <1>3, <3>2, <3>3, PackageDepOrigin
    <2> QED BY <1>4, <2>1, <2>2 DEF RowsAt
<1>6. PICK y \in Deps(repo[d]) : /\ y.version.kind = "path" /\ ".." \in ToSet(y.version.parts)
                                 /\ contains_package(y.name, x.name)
    BY <1>5
<1> DEFINE target == normpath(d \o y.version.parts)
<1>7. ASSUME target \in Asked, repo[target].name = y.name
      PROVE  FALSE
    <2>1. PICK j \in Indices : target = PathOf(j)
        BY <1>1, <1>7
    <2>2. Reported(j)
        BY <1>1 DEF Reported
    <2>3. ModuleRow(target, repo[target]) \in packages
        BY <2>1, <2>2 DEF RowsOK, RowsAt
    <2>4. ModuleRow(target, repo[target]).type = "gomod"
          /\ ModuleRow(target, repo[target]).name = y.name
        BY <1>7 DEF ModuleRow, Row
    <2>5. y.name \in modules
        BY <2>3, <2>4
    <2> QED BY <1>3, <1>6, <2>5 DEF HasParent
<1> QED BY <1>1, <1>6, <1>7 DEF Explained

\* The invariant: what a failure needs to be explained.
FailuresOK == step = "failed" => Explained

LEMMA FailuresNext ==
    ASSUME GoModTypeOK, Ends, VisitedOK, ComparedOK, RowsOK, TriesOK, FailuresOK, [GoModNext]_vars
    PROVE  FailuresOK'
<1> SUFFICES ASSUME step' = "failed" PROVE Explained'
    BY DEF FailuresOK
<1>0. /\ UNCHANGED <<inputVars, repo, ask, Asked>> /\ (Vendoring <=> Vendoring')
      /\ pos \in Indices /\ here = PathOf(pos) /\ here \in Dirs /\ here \in Asked
      /\ this = repo[here]
    BY ActionsKeepInputs, InputsStay, Positions DEF inputVars, this
<1>1. CASE Explained /\ UNCHANGED <<edited, version, failures, broken, deaths>>
    BY <1>0, <1>1, ExplainedStays
<1>2. CASE Check
    <2>1. /\ UNCHANGED <<edited, version, failures, broken, deaths>>
          /\ \/ \E d \in ToSet(ask.paths) : ~repo[d].present
             \/ Len(ask.paths) > 1 /\ ask.replaced
        BY <1>2 DEF Check, Goto, treeVars, faultVars
    <2>2. ToSet(ask.paths) = Asked
        BY DEF ToSet, Asked
    <2>3. Explained
        BY <2>1, <2>2 DEF Explained
    <2> QED BY <1>1, <2>1, <2>3
<1>3. CASE Edit
    <2>1. UNCHANGED <<edited, version, failures, broken, deaths>> /\ ~Supported(this)
        BY <1>3 DEF Edit, Goto, faultVars
    <2>2. Explained
        BY <1>0, <2>1 DEF Explained
    <2> QED BY <1>1, <2>1, <2>2
<1>4. CASE Decide
    <2>1. /\ UNCHANGED <<edited, version, failures, broken, deaths>>
          /\ \/ Vendoring /\ this.workspacevendor
             \/ ~Vendoring /\ Strict /\ vendor[here] # "absent"
        BY <1>4 DEF Decide, Goto, treeVars, faultVars
    <2>2. ~Vendoring => vendor[here] = repo[here].vendor
        BY <1>0 DEF VisitedOK
    <2>3. Explained
        BY <1>0, <2>1, <2>2 DEF Explained
    <2> QED BY <1>1, <2>1, <2>3
<1>5. CASE Compare
    <2>1. /\ UNCHANGED <<edited, version, failures, broken, deaths>>
          /\ VendorChanged(here) /\ step = "compare"
        BY <1>5 DEF Compare, Goto, AfterFetch, treeVars, faultVars, At
    <2>2. Checked
        BY <2>1 DEF ComparedOK
    <2>3. deaths \in Nat
        BY BoundsAssumption DEF GoModTypeOK
    <2>4. Explained
        BY <1>0, <2>1, <2>2, <2>3 DEF Explained, Checked, AskedTwice
    <2> QED BY <1>1, <2>1, <2>4
<1>6. CASE List
    <2>1. UNCHANGED <<failures, broken, deaths>> /\ ~LocalPathsAreFine(here, this)
        BY <1>6 DEF List, Goto, faultVars
    <2>2. here \in Asked' /\ ~LocalPathsAreFine(here, repo'[here])
        BY <1>0, <2>1
    <2> QED BY <2>2 DEF Explained
<1>7. CASE Add
    <2>1. /\ UNCHANGED <<edited, version, failures, broken, deaths>> /\ step = "add"
          /\ \E r \in packages, s \in NewRows : SameKey(r, s)
        BY <1>7 DEF Add, Goto, treeVars, faultVars, At
    <2>2. Explained
        BY <2>1, SameKeyExplained
    <2> QED BY <1>1, <2>1, <2>2
<1>8. CASE Write
    <2>1. /\ UNCHANGED <<edited, version, failures, broken, deaths>> /\ step = "write"
          /\ ~ParentsAreIncluded(packages)
        BY <1>8 DEF Write, Goto, treeVars, faultVars, At
    <2>2. Explained
        BY <2>1, ParentsExplained
    <2> QED BY <1>1, <2>1, <2>2
<1>9. CASE CommandFails
    <2>1. /\ failures' = failures + 1 /\ broken' = step
          /\ step = "download" => tries + 1 >= MaxTries
        BY <1>9, MaxTriesAssumption DEF CommandFails, At, GoModTypeOK
    <2>2. tries \in Nat /\ failures \in Nat /\ tries <= failures /\ MaxTries \in Nat
        BY MaxTriesAssumption, BoundsAssumption DEF GoModTypeOK, TriesOK
    <2>3. failures' > 0 /\ (broken' = "download" => failures' >= MaxTries)
        BY <2>1, <2>2
    <2> QED BY <2>3 DEF Explained
<1>10. CASE CopyEnds \/ (\E v \in Versions : CopyBegins(v)) \/ UNCHANGED vars
    <2>1. UNCHANGED <<step, edited, version, failures, broken, deaths>>
        BY <1>10 DEF CopyEnds, CopyBegins, vars, treeVars, faultVars
    <2> QED BY <1>1, <2>1 DEF FailuresOK
<1>11. CASE Vendor \/ Stage \/ Download \/ Tidy \/ MergeList \/ WorkerDies
    <2>1. step' # "failed"
        BY <1>11 DEF Vendor, Stage, Download, Tidy, MergeList, WorkerDies, Goto, AfterFetch
    <2> QED BY <2>1
<1> QED BY <1>2, <1>3, <1>4, <1>5, <1>6, <1>7, <1>8, <1>9, <1>10, <1>11 DEF GoModNext

\* A request for Go modules fails for a reason that lies in the repository, in the request, in a
\* command, or in a restart that finds the vendor directory of its predecessor, and for no other
\* (fetch_gomod_source).
THEOREM OnlyBadRequestsEverFail == GoModSpec => []OnlyBadRequestsFail
<1> DEFINE FailureIInv == VersionsGiven /\ VisitedOK /\ ComparedOK /\ RowsOK /\ TriesOK /\ FailuresOK
<1>1. GoModInit => FailureIInv
    <2> SUFFICES ASSUME GoModInit PROVE FailureIInv
        OBVIOUS
    <2>1. GoModTypeOK
        BY GoModInitOK DEF GoModIInv
    <2>2. step = "check" /\ pos = 1 /\ packages = {} /\ tries = 0 /\ failures = 0
          /\ \A d \in Dirs : vendor[d] = repo[d].vendor
        BY DEF GoModInit
    <2>3. \A i \in Indices : ~Reported(i)
        BY <2>1, <2>2, Positions DEF Reported
    <2>4. VersionsGiven
        BY DEF GoModInit, VersionsGiven
    <2> QED BY <2>2, <2>3, <2>4
            DEF VisitedOK, ComparedOK, RowsOK, TriesOK, FailuresOK
<1>2. GoModIInv /\ FailureIInv /\ [GoModNext]_vars => FailureIInv'
    BY VersionsGivenNext, VisitedNext, ComparedNext, RowsNext, TriesNext, FailuresNext
       DEF GoModIInv
<1>3. FailureIInv => OnlyBadRequestsFail
    BY DEF FailuresOK, Explained, OnlyBadRequestsFail
<1> HIDE DEF FailureIInv
<1> QED
    BY <1>1, <1>2, <1>3, GoModInvariant, PTL DEF GoModSpec

-----------------------------------------------------------------------------
(***************************************************************************)
(* The packages that are reported.  A listing has each package after its   *)
(* dependencies, and dependencies are transitive.  So the walk from its    *)
(* end has seen all that depends on a package when it comes to it, and     *)
(* has taken all that the packages on its way depend on, also those it     *)
(* skips, because what has them as dependencies has theirs too.            *)
(***************************************************************************)

LEMMA Greatest ==
    ASSUME NEW S \in SUBSET Nat, S # {}, NEW n \in Nat, \A k \in S : k <= n
    PROVE  \E m \in S : \A k \in S : k <= m
<1> DEFINE Above(m) == {k \in S : k > m}
           A == {Above(m) : m \in S}
           R == StrictSubsetOrdering(S)
<1>1. IsFiniteSet(S)
    <2>1. S \subseteq 0..n /\ IsFiniteSet(0..n)
        BY FS_Interval
    <2> QED BY <2>1, FS_Subset
<1>2. IsWellFoundedOn(R, SUBSET S)
    BY <1>1, FS_StrictSubsetOrderingWellFounded, FS_FiniteSubsetsOfFinite
<1>3. A \subseteq SUBSET S /\ A # {}
    OBVIOUS
<1>4. PICK a \in A : \A b \in A : <<b, a>> \notin R
    <2> HIDE DEF A, R
    <2> QED BY <1>2, <1>3, WFMin
<1>5. PICK m \in S : a = Above(m)
    BY <1>4
<1>6. ASSUME NEW k \in S PROVE k <= m
    <2> SUFFICES ASSUME k > m PROVE FALSE
        OBVIOUS
    <2>1. Above(k) \subseteq Above(m) /\ k \in Above(m) /\ k \notin Above(k)
        <3>1. k \in Nat /\ m \in Nat
            OBVIOUS
        <3>2. \A j \in S : j > k => j > m
            BY <3>1
        <3>3. ~(k > k)
            BY <3>1
        <3> QED BY <3>2, <3>3
    <2>2. Above(k) \in A /\ Above(k) \in SUBSET S /\ Above(m) \in SUBSET S
        OBVIOUS
    <2>3. <<Above(k), a>> \in R
        <3> HIDE DEF Above
        <3> QED BY <1>5, <2>1, <2>2 DEF StrictSubsetOrdering
    <2> QED BY <1>4, <2>2, <2>3
<1> QED BY <1>5, <1>6

\* What depends on a package stands behind it, and depends on its dependencies too.
LEMMA DependentsStandBehind ==
    ASSUME NEW pkgs, IsListing(pkgs), NEW i \in DOMAIN pkgs, NEW k \in DOMAIN pkgs,
           pkgs[i].name \in pkgs[k].deps
    PROVE  i < k /\ pkgs[i].deps \subseteq pkgs[k].deps
<1>1. DOMAIN pkgs = 1..Len(pkgs) /\ Len(pkgs) \in Nat
    BY DEF IsListing
<1>2. PICK j \in 1..(k - 1) : pkgs[j].name = pkgs[i].name /\ pkgs[j].deps \subseteq pkgs[k].deps
    BY DEF IsListing
<1>3. j \in DOMAIN pkgs /\ j \in Nat /\ i \in Nat /\ k \in Nat /\ j < k
    BY <1>1, <1>2
<1>4. ~(i < j)
    <2> SUFFICES ASSUME i < j PROVE FALSE
        OBVIOUS
    <2>1. i \in 1..(j - 1)
        BY <1>1, <1>3
    <2> QED BY <1>2, <1>3, <2>1 DEF IsListing
<1>5. ~(j < i)
    <2> SUFFICES ASSUME j < i PROVE FALSE
        OBVIOUS
    <2>1. j \in 1..(i - 1)
        BY <1>1, <1>2, <1>3
    <2> QED BY <1>2, <1>3, <2>1 DEF IsListing
<1>6. i = j
    BY <1>3, <1>4, <1>5
<1> QED BY <1>2, <1>3, <1>6

LEMMA InfoIsThePackage ==
    ASSUME NEW mod, IsListing(mod.packages), NEW p \in ToSet(mod.packages)
    PROVE  Info(mod, p.name) = p
<1> DEFINE pkgs == mod.packages
<1>1. DOMAIN pkgs = 1..Len(pkgs) /\ Len(pkgs) \in Nat
    BY DEF IsListing
<1>2. PICK i \in DOMAIN pkgs : p = pkgs[i]
    BY DEF ToSet
<1>3. PICK j \in DOMAIN pkgs : Info(mod, p.name) = pkgs[j] /\ pkgs[j].name = p.name
    BY <1>2 DEF Info
<1>4. ~(j < i) /\ ~(i < j)
    <2>1. \A a \in DOMAIN pkgs, b \in DOMAIN pkgs : a < b => pkgs[a].name # pkgs[b].name
        BY <1>1 DEF IsListing
    <2> HIDE DEF pkgs
    <2> QED BY <1>2, <1>3, <2>1
<1> QED BY <1>1, <1>2, <1>3, <1>4

\* What main_packages_deps holds after the walk from the end to a place.
NeededBehind(pkgs, i) == UNION {pkgs[j].deps : j \in {k \in DOMAIN pkgs : k >= i /\ pkgs[k].main}}
Walk(pkgs, f) ==
    f = [i \in 1..(Len(pkgs) + 1) |->
            IF i > Len(pkgs) THEN {}
            ELSE f[i + 1] \cup
                     IF pkgs[i].main /\ pkgs[i].name \notin f[i + 1] THEN pkgs[i].deps ELSE {}]

LEMMA NeededGrows ==
    ASSUME NEW pkgs, IsListing(pkgs), NEW i \in DOMAIN pkgs
    PROVE  NeededBehind(pkgs, i)
               = NeededBehind(pkgs, i + 1) \cup
                     IF pkgs[i].main /\ pkgs[i].name \notin NeededBehind(pkgs, i + 1)
                     THEN pkgs[i].deps ELSE {}
<1>1. DOMAIN pkgs = 1..Len(pkgs) /\ Len(pkgs) \in Nat
    BY DEF IsListing
<1>2. \A k \in DOMAIN pkgs : k >= i <=> k >= i + 1 \/ k = i
    BY <1>1
<1>3. NeededBehind(pkgs, i)
          = NeededBehind(pkgs, i + 1) \cup IF pkgs[i].main THEN pkgs[i].deps ELSE {}
    BY <1>2 DEF NeededBehind
<1>4. ASSUME pkgs[i].name \in NeededBehind(pkgs, i + 1)
      PROVE  pkgs[i].deps \subseteq NeededBehind(pkgs, i + 1)
    <2>1. PICK k \in DOMAIN pkgs : k >= i + 1 /\ pkgs[k].main /\ pkgs[i].name \in pkgs[k].deps
        BY <1>4 DEF NeededBehind
    <2>2. pkgs[i].deps \subseteq pkgs[k].deps
        BY <2>1, DependentsStandBehind
    <2> QED BY <2>1, <2>2 DEF NeededBehind
<1> QED BY <1>3, <1>4

LEMMA WalkIsNeeded ==
    ASSUME NEW pkgs, IsListing(pkgs), NEW f, Walk(pkgs, f), NEW i \in 1..(Len(pkgs) + 1)
    PROVE  f[i] = NeededBehind(pkgs, i)
<1> DEFINE n == Len(pkgs)
           Wrong == {k \in 1..(n + 1) : f[k] # NeededBehind(pkgs, k)}
<1>1. n \in Nat /\ DOMAIN pkgs = 1..n
    BY DEF IsListing
<1>2. SUFFICES ASSUME Wrong # {} PROVE FALSE
    OBVIOUS
<1>3. Wrong \in SUBSET Nat /\ n + 1 \in Nat /\ \A k \in Wrong : k <= n + 1
    BY <1>1
<1>4. PICK m \in Wrong : \A k \in Wrong : k <= m
    <2> HIDE DEF Wrong, n
    <2> QED BY <1>2, <1>3, Greatest
<1>5. m \in 1..(n + 1) /\ f[m] # NeededBehind(pkgs, m)
    BY <1>4
<1>6. CASE m = n + 1
    <2>1. f[m] = {}
        BY <1>1, <1>5, <1>6 DEF Walk
    <2>2. NeededBehind(pkgs, m) = {}
        BY <1>1, <1>6 DEF NeededBehind
    <2> QED BY <1>5, <2>1, <2>2
<1>7. CASE m # n + 1
    <2>1. m \in DOMAIN pkgs /\ m + 1 \in 1..(n + 1) /\ ~(m > n) /\ ~(m + 1 <= m)
        BY <1>1, <1>5, <1>7
    <2>2. f[m + 1] = NeededBehind(pkgs, m + 1)
        BY <1>4, <2>1
    <2>3. f[m] = f[m + 1] \cup
                     IF pkgs[m].main /\ pkgs[m].name \notin f[m + 1] THEN pkgs[m].deps ELSE {}
        BY <1>5, <2>1 DEF Walk
    <2> QED BY <1>5, <2>1, <2>2, <2>3, NeededGrows
<1> QED BY <1>6, <1>7

\* The packages that the walk takes.
LEMMA TopPackagesAreRoots ==
    ASSUME NEW mod, IsListing(mod.packages)
    PROVE  TopPackages(mod) = {p.name : p \in Roots(mod)}
<1> DEFINE pkgs == mod.packages
           f == CHOOSE f : Walk(pkgs, f)
           g == [i \in 1..(Len(pkgs) + 1) |-> NeededBehind(pkgs, i)]
<1>1. DOMAIN pkgs = 1..Len(pkgs) /\ Len(pkgs) \in Nat
    BY DEF IsListing
<1>2. TopPackages(mod)
          = {pkgs[i].name : i \in {j \in DOMAIN pkgs : pkgs[j].main /\ pkgs[j].name \notin f[j + 1]}}
    BY DEF TopPackages, Walk
<1>3. Walk(pkgs, g)
    <2> DEFINE Step(i) == IF i > Len(pkgs) THEN {}
                          ELSE g[i + 1] \cup IF pkgs[i].main /\ pkgs[i].name \notin g[i + 1]
                                             THEN pkgs[i].deps ELSE {}
    <2>1. ASSUME NEW i \in 1..(Len(pkgs) + 1) PROVE g[i] = Step(i)
        <3>1. g[i] = NeededBehind(pkgs, i)
            OBVIOUS
        <3>2. CASE i > Len(pkgs)
            <4>1. NeededBehind(pkgs, i) = {}
                BY <1>1, <3>2 DEF NeededBehind
            <4> QED BY <3>1, <3>2, <4>1
        <3>3. CASE ~(i > Len(pkgs))
            <4>1. i \in DOMAIN pkgs /\ i + 1 \in 1..(Len(pkgs) + 1)
                BY <1>1, <3>3
            <4>2. g[i + 1] = NeededBehind(pkgs, i + 1)
                BY <4>1
            <4>3. NeededBehind(pkgs, i)
                      = NeededBehind(pkgs, i + 1) \cup
                            IF pkgs[i].main /\ pkgs[i].name \notin NeededBehind(pkgs, i + 1)
                            THEN pkgs[i].deps ELSE {}
                BY <4>1, NeededGrows
            <4> HIDE DEF g
            <4> QED BY <3>1, <3>3, <4>2, <4>3
        <3> QED BY <3>2, <3>3
    <2>2. g = [i \in 1..(Len(pkgs) + 1) |-> g[i]]
        OBVIOUS
    <2> HIDE DEF g
    <2> QED BY <2>1, <2>2 DEF Walk
<1>4. Walk(pkgs, f)
    <2> HIDE DEF g
    <2> QED BY <1>3
<1>5. ASSUME NEW j \in DOMAIN pkgs
      PROVE  f[j + 1] = NeededBehind(pkgs, j + 1)
    <2>1. j + 1 \in 1..(Len(pkgs) + 1)
        BY <1>1
    <2> HIDE DEF f
    <2> QED BY <1>4, <2>1, WalkIsNeeded
<1> HIDE DEF f, g
<1>6. ASSUME NEW j \in DOMAIN pkgs, pkgs[j].main
      PROVE  pkgs[j].name \notin f[j + 1] <=> pkgs[j] \in Roots(mod)
    <2>1. pkgs[j].name \in f[j + 1] <=>
              \E k \in DOMAIN pkgs : k >= j + 1 /\ pkgs[k].main /\ pkgs[j].name \in pkgs[k].deps
        BY <1>5 DEF NeededBehind
    <2>2. ASSUME NEW k \in DOMAIN pkgs, pkgs[j].name \in pkgs[k].deps
          PROVE  k >= j + 1
        BY <1>1, <2>2, DependentsStandBehind
    <2>3. pkgs[j] \in Roots(mod) <=>
              \A k \in DOMAIN pkgs : pkgs[k].main => pkgs[j].name \notin pkgs[k].deps
        BY <1>6 DEF Roots, OwnPackages, ToSet
    <2> QED BY <2>1, <2>2, <2>3
<1>7. Roots(mod) = {pkgs[i] : i \in {j \in DOMAIN pkgs :
                                        pkgs[j].main /\ pkgs[j].name \notin f[j + 1]}}
    <2>1. \A p \in Roots(mod) : \E j \in DOMAIN pkgs : p = pkgs[j] /\ pkgs[j].main
        BY DEF Roots, OwnPackages, ToSet
    <2> QED BY <1>6, <2>1
<1> QED BY <1>2, <1>7

\* A package that is not taken is a dependency of one that is: the last one that depends on it.
LEMMA RootsHaveTheRest ==
    ASSUME NEW mod, IsListing(mod.packages), NEW p \in OwnPackages(mod), p \notin Roots(mod)
    PROVE  \E q \in Roots(mod) : p.name \in q.deps
<1> DEFINE pkgs == mod.packages
           Users == {k \in DOMAIN pkgs : pkgs[k].main /\ p.name \in pkgs[k].deps}
<1>1. DOMAIN pkgs = 1..Len(pkgs) /\ Len(pkgs) \in Nat
    BY DEF IsListing
<1>2. Users \in SUBSET Nat /\ Users # {} /\ \A k \in Users : k <= Len(pkgs)
    BY <1>1 DEF Roots, OwnPackages, ToSet
<1>3. PICK m \in Users : \A k \in Users : k <= m
    <2> HIDE DEF Users, pkgs
    <2> QED BY <1>1, <1>2, Greatest
<1>4. pkgs[m] \in OwnPackages(mod)
    BY <1>3 DEF OwnPackages, ToSet
<1>5. ASSUME NEW q \in OwnPackages(mod), pkgs[m].name \in q.deps PROVE FALSE
    <2>1. PICK k \in DOMAIN pkgs : q = pkgs[k] /\ pkgs[k].main
        BY DEF OwnPackages, ToSet
    <2>2. m < k /\ pkgs[m].deps \subseteq pkgs[k].deps
        BY <1>3, <1>5, <2>1, DependentsStandBehind
    <2>3. k \in Users
        BY <1>3, <2>1, <2>2
    <2> QED BY <1>1, <1>3, <2>2, <2>3
<1> QED BY <1>3, <1>4, <1>5 DEF Roots

\* What is written is what was added, and nothing before the end.
WrittenOK == written = IF Done THEN packages ELSE {}

LEMMA WrittenNext ==
    ASSUME WrittenOK, [GoModNext]_vars
    PROVE  WrittenOK'
<1>1. CASE Write
    <2>1. /\ step = "write" /\ packages' = packages
          /\ (step' = "done" /\ written' = packages) \/ (step' = "failed" /\ written' = written)
        BY <1>1 DEF Write, Goto, At
    <2> QED BY <2>1 DEF WrittenOK, Done
<1>2. CASE Check \/ Edit \/ Decide \/ Vendor \/ Stage \/ Compare \/ Download \/ Tidy \/ MergeList
           \/ List \/ Add \/ CommandFails \/ WorkerDies
    <2>1. step # "done" /\ step' # "done" /\ written' = written
        BY <1>2 DEF Check, Edit, Decide, Vendor, Stage, Compare, Download, Tidy, MergeList, List, Add,
              CommandFails, WorkerDies, Goto, At, AfterFetch, Commands, Running, rowVars
    <2> QED BY <2>1 DEF WrittenOK, Done
<1>3. CASE CopyEnds \/ (\E v \in Versions : CopyBegins(v)) \/ UNCHANGED vars
    <2>1. UNCHANGED <<step, written, packages>>
        BY <1>3 DEF CopyEnds, CopyBegins, vars, rowVars
    <2> QED BY <2>1 DEF WrittenOK, Done
<1> QED BY <1>1, <1>2, <1>3 DEF GoModNext

\* The rows of the modules, when all of them were passed.
LEMMA ReportedAtTheEnd ==
    ASSUME GoModIInv, RowsOK, WrittenOK
    PROVE  PackagesAreReported
<1> SUFFICES ASSUME Done PROVE PackagesAreReported
    BY DEF PackagesAreReported
<1> DEFINE rows == {r \in written : r.type = "go-package"}
           RowsOf(d) == {PackageRow(d, repo[d], p.name) : p \in Roots(repo[d])}
<1>1. /\ GoModTypeOK /\ step = "done" /\ written = packages
      /\ \A i \in Indices : PathOf(i) \in Dirs /\ PathOf(i) \in Asked /\ Reported(i)
      /\ \A d \in Asked : \E i \in Indices : d = PathOf(i)
    BY Positions DEF GoModIInv, WrittenOK, Done, Ends, Reported
<1>2. \A d \in Asked : d \in Dirs
    BY <1>1
<1>3. ASSUME NEW i \in Indices
      PROVE  RowsAt(i) = {ModuleRow(PathOf(i), repo[PathOf(i)])} \cup RowsOf(PathOf(i))
    <2>1. TopPackages(repo[PathOf(i)]) = {p.name : p \in Roots(repo[PathOf(i)])}
        BY <1>1, ListingIsOrdered, TopPackagesAreRoots
    <2> QED BY <2>1 DEF RowsAt
<1>4. \A d \in Dirs : /\ ModuleRow(d, repo[d]).type = "gomod"
                      /\ \A n : /\ PackageRow(d, repo[d], n).type = "go-package"
                                /\ PackageRow(d, repo[d], n).name = n
                                /\ PackageRow(d, repo[d], n).version = version[d]
    BY DEF ModuleRow, PackageRow, Row
<1>5. \A i \in Indices : RowsAt(i) \subseteq written
    BY <1>1 DEF RowsOK
<1>6. \A r \in written : \E i \in Indices : r \in RowsAt(i)
    BY <1>1 DEF RowsOK
<1>7. ASSUME NEW d \in Asked PROVE RowsOf(d) \subseteq rows
    <2>1. PICK i \in Indices : d = PathOf(i)
        BY <1>1
    <2>2. RowsOf(d) \subseteq written
        BY <1>3, <1>5, <2>1
    <2> QED BY <1>2, <1>4, <2>2
<1>8. ASSUME NEW r \in rows PROVE \E d \in Asked : r \in RowsOf(d)
    <2>1. PICK i \in Indices : r \in RowsAt(i)
        BY <1>6
    <2>2. PathOf(i) \in Asked /\ r # ModuleRow(PathOf(i), repo[PathOf(i)])
        BY <1>1, <1>4
    <2> HIDE DEF RowsOf
    <2> QED BY <1>3, <2>1, <2>2
<1>9. rows = UNION {RowsOf(d) : d \in Asked}
    <2> HIDE DEF rows, RowsOf
    <2> QED BY <1>7, <1>8
<1>10. ASSUME NEW d \in Asked, NEW p \in OwnPackages(repo[d])
       PROVE  \E r \in rows : /\ r.version = version[d]
                              /\ p.name = r.name \/ \E x \in r.deps : x.name = p.name
    <2>1. IsListing(repo[d].packages)
        BY <1>1, <1>2, ListingIsOrdered
    <2>2. PICK q \in Roots(repo[d]) : p = q \/ p.name \in q.deps
        BY <2>1, RootsHaveTheRest
    <2> DEFINE r == PackageRow(d, repo[d], q.name)
    <2>3. r \in rows
        BY <1>7
    <2>4. p.name \in q.deps => PackageDep(repo[d], p.name) \in r.deps
        <3>1. Info(repo[d], q.name) = q
            <4>1. q \in ToSet(repo[d].packages)
                BY DEF Roots, OwnPackages
            <4> QED BY <2>1, <4>1, InfoIsThePackage
        <3>2. r.deps = {PackageDep(repo[d], m) : m \in q.deps}
            BY <3>1 DEF PackageRow, Row
        <3> HIDE DEF r
        <3> QED BY <3>2
    <2>5. PackageDep(repo[d], p.name).name = p.name
        BY DEF PackageDep
    <2>6. r.version = version[d] /\ r.name = q.name
        BY <1>2, <1>4
    <2> HIDE DEF rows, r
    <2> QED BY <2>2, <2>3, <2>4, <2>5, <2>6
<1> QED BY <1>9, <1>10 DEF PackagesAreReported

\* A package of a module that no other module lists is one that by its name belongs to this one.
LEMMA ListedOnlyHere ==
    ASSUME GoModTypeOK, NEW i \in Indices, NEW n \in TopPackages(repo[PathOf(i)]),
           ~ListedElsewhere(n)
    PROVE  Reporter(n) = PathOf(i)
<1>1. PathOf(i) \in Asked /\ PathOf(i) \in Dirs
    BY Positions
<1>2. \E p \in OwnPackages(repo[PathOf(i)]) : p.name = n
    <2>1. n \in {p.name : p \in Roots(repo[PathOf(i)])}
        BY <1>1, ListingIsOrdered, TopPackagesAreRoots
    <2> QED BY <2>1 DEF Roots
<1> QED BY <1>1, <1>2 DEF ListedElsewhere

LEMMA LocalPackagesAtTheEnd ==
    ASSUME GoModIInv, RowsOK, WrittenOK
    PROVE  LocalPackagesAreWhereTheySay
<1> SUFFICES ASSUME NEW r \in written, r.type = "go-package", ~ListedElsewhere(r.name),
                    NEW x \in r.deps, x.version.kind = "path"
             PROVE  \E p \in ToSet(repo[Reporter(r.name)].packages) :
                        /\ p.name = x.name
                        /\ InTheLongest(repo[Reporter(r.name)], p) =>
                               normpath(Reporter(r.name) \o x.version.parts) = p.dir
    BY DEF LocalPackagesAreWhereTheySay
<1>1. GoModTypeOK /\ r \in packages /\ step # "failed"
    BY DEF GoModIInv, WrittenOK, Done
<1>2. PICK i \in Indices : r \in RowsAt(i)
    BY <1>1 DEF RowsOK
<1> DEFINE d == PathOf(i)
<1>3. d \in Dirs
    BY <1>1, Positions
<1>4. PICK n \in TopPackages(repo[d]) : r = PackageRow(d, repo[d], n)
    <2>1. ModuleRow(d, repo[d]).type = "gomod"
        BY DEF ModuleRow, Row
    <2>2. r # ModuleRow(d, repo[d])
        BY <2>1
    <2> QED BY <1>2, <2>2 DEF RowsAt
<1>5. r.name = n /\ r.deps = {PackageDep(repo[d], m) : m \in Info(repo[d], n).deps}
    BY <1>4 DEF PackageRow, Row
<1>6. Reporter(r.name) = d
    BY <1>1, <1>4, <1>5, ListedOnlyHere
<1>7. PICK m \in Info(repo[d], n).deps : x = PackageDep(repo[d], m)
    BY <1>5
<1>8. x.name = m
    BY <1>7 DEF PackageDep
<1> HIDE DEF d
<1> QED BY <1>1, <1>3, <1>4, <1>6, <1>7, <1>8, PackageDepPlace

\* What the two theorems about reported packages rest on.
ReportIInv == VersionsGiven /\ RowsOK /\ WrittenOK

LEMMA ReportInvariant == GoModSpec => [](GoModIInv /\ ReportIInv)
<1>1. GoModInit => ReportIInv
    <2> SUFFICES ASSUME GoModInit PROVE ReportIInv
        OBVIOUS
    <2>1. GoModTypeOK
        BY GoModInitOK DEF GoModIInv
    <2>2. step = "check" /\ pos = 1 /\ packages = {} /\ written = {}
        BY DEF GoModInit
    <2>3. \A i \in Indices : ~Reported(i)
        BY <2>1, <2>2, Positions DEF Reported
    <2>4. VersionsGiven
        BY DEF GoModInit, VersionsGiven
    <2> QED BY <2>2, <2>3, <2>4 DEF ReportIInv, RowsOK, WrittenOK, Done
<1>2. GoModIInv /\ ReportIInv /\ [GoModNext]_vars => ReportIInv'
    BY VersionsGivenNext, RowsNext, WrittenNext DEF GoModIInv, ReportIInv
<1> QED BY <1>1, <1>2, GoModInvariant, PTL DEF GoModSpec

\* resolve_gomod, for any listing of any module: the packages that nothing else in the listing
\* depends on are reported with rows of their own, all others as their dependencies.
THEOREM PackagesAreAlwaysReported == GoModSpec => []PackagesAreReported
<1>1. GoModIInv /\ ReportIInv => PackagesAreReported
    BY ReportedAtTheEnd DEF ReportIInv
<1> QED BY <1>1, ReportInvariant, PTL

\* _set_full_local_dep_relpaths, for any nesting of replaced modules: the path of a package is
\* that of its directory, unless a module without the package has a longer name.
THEOREM LocalPackagesAreAlwaysWhereTheySay == GoModSpec => []LocalPackagesAreWhereTheySay
<1>1. GoModIInv /\ ReportIInv => LocalPackagesAreWhereTheySay
    BY LocalPackagesAtTheEnd DEF ReportIInv
<1> QED BY <1>1, ReportInvariant, PTL

=============================================================================
