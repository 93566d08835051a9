---------------------------- MODULE Scripts_proofs ----------------------------
(***************************************************************************)
(* The scripts that work in a checkout of their own, each for every value  *)
(* of its constants: any manifest and locks, any workflows and releases,   *)
(* any upstream surface, any resolver, any lanes and builds.               *)
(***************************************************************************)
EXTENDS MCScripts, FiniteSetTheorems, TLAPS

-----------------------------------------------------------------------------
(***************************************************************************)
(* RefreshClassifier: a refresh classified as needing no release leaves    *)
(* the host build graph alone.                                             *)
(***************************************************************************)

\* A package whose table is the same in two locks, the second of which keeps
\* every package of the first, resolves its requirements alike in both.
LEMMA SameTableSamePick ==
    ASSUME NEW was \in Locks, NEW now \in Locks,
           DOMAIN was \subseteq DOMAIN now,
           NEW p \in DOMAIN was, LockedTable(was, p) = LockedTable(now, p)
    PROVE  was[p] = now[p]
<1> USE LocksAssumption DEF IsResolved
<1>1. was[p] \in [Requires[p] -> DOMAIN was] /\ now[p] \in [Requires[p] -> DOMAIN now]
  OBVIOUS
<1>2. SUFFICES ASSUME NEW r \in Requires[p] PROVE was[p][r] = now[p][r]
  BY <1>1
<1> DEFINE q1 == was[p][r]
           q2 == now[p][r]
           alike(l, q) == {n \in DOMAIN l : NameOf[n] = NameOf[q]}
<1>3. p \in Packages /\ q1 \in r.fits /\ q2 \in r.fits /\ q1 \in DOMAIN was /\ q2 \in DOMAIN now
  BY <1>1
<1>4. NameOf[q1] = NameOf[q2]
  BY <1>3, GraphAssumption
<1>5. (IF alike(was, q1) = {q1} THEN <<NameOf[q1]>> ELSE <<NameOf[q1], q1>>)
        = (IF alike(now, q2) = {q2} THEN <<NameOf[q2]>> ELSE <<NameOf[q2], q2>>)
  <2>1. LockedTable(was, p)[r] = LockedTable(now, p)[r]
    OBVIOUS
  <2> QED
    BY <2>1 DEF LockedTable
<1>6. CASE alike(now, q2) = {q2}
  <2>1. q1 \in alike(now, q2)
    BY <1>3, <1>4
  <2> QED
    BY <2>1, <1>6
<1>7. CASE alike(now, q2) # {q2}
  <2> HIDE DEF q1, q2, alike
  <2>1. alike(was, q1) # {q1}
    BY <1>5, <1>7
  <2>2. <<NameOf[q1], q1>> = <<NameOf[q2], q2>>
    BY <1>5, <1>7, <2>1
  <2>3. \A m, n, x, y : <<m, x>> = <<n, y>> => x = y
    OBVIOUS
  <2>4. q1 = q2
    BY <2>2, <2>3
  <2> QED
    BY <2>4 DEF q1, q2
<1> QED
  BY <1>6, <1>7

\* If every package reached in the second lock is resolved as in the first,
\* both locks have one build graph.
LEMMA SameBuildGraph ==
    ASSUME NEW was \in Locks, NEW now \in Locks, NEW uses,
           DOMAIN was \subseteq DOMAIN now,
           \A p \in Reached(now, Edges(now, uses)) : p \in DOMAIN was /\ was[p] = now[p]
    PROVE  BuildGraph(was, uses) = BuildGraph(now, uses)
<1> DEFINE eOld == Edges(was, uses)
           eNew == Edges(now, uses)
           rOld == Reached(was, eOld)
           rNew == Reached(now, eNew)
<1>1. /\ Root \in DOMAIN was /\ Root \in DOMAIN now
      /\ \A p \in DOMAIN was : \A r \in Requires[p] : was[p][r] \in DOMAIN was
      /\ \A p \in DOMAIN now : \A r \in Requires[p] : now[p][r] \in DOMAIN now
  BY LocksAssumption DEF IsResolved
<1>2. \A e : e[1] \in rNew /\ e \in eOld => e \in eNew
  BY DEF Edges
<1>3. \A e : e[1] \in rNew /\ e \in eNew => e \in eOld
  BY <1>1 DEF Edges
<1> HIDE DEF eOld, eNew
<1>4. Root \in rNew /\ rNew \subseteq DOMAIN was /\ rNew \subseteq DOMAIN now
  BY <1>1 DEF Reached, eNew
<1>5. eNew \subseteq (DOMAIN now) \X (DOMAIN now) /\ eOld \subseteq (DOMAIN was) \X (DOMAIN was)
  BY DEF Edges, eNew, eOld
<1>6. ClosedUnder(rNew, eNew)
  BY <1>5 DEF ClosedUnder, Reached
<1>7. ClosedUnder(rNew, eOld)
  BY <1>2, <1>6 DEF ClosedUnder
<1>8. rOld \subseteq rNew
  BY <1>4, <1>7 DEF Reached
<1>9. ClosedUnder(rOld, eNew)
  <2> SUFFICES ASSUME NEW e \in eNew, e[1] \in rOld PROVE e[2] \in rOld
    BY DEF ClosedUnder
  <2>1. e \in eOld
    BY <1>3, <1>8
  <2> QED
    BY <2>1, <1>5 DEF Reached, ClosedUnder
<1>10. Root \in rOld /\ rOld \subseteq DOMAIN now
  BY <1>1, <1>4, <1>8 DEF Reached
<1>11. rOld = rNew
  BY <1>8, <1>9, <1>10 DEF Reached
<1> QED
  BY <1>2, <1>3, <1>11 DEF BuildGraph, eOld, eNew

-----------------------------------------------------------------------------
\* A classification without a release is reached only when no package of the
\* host build graph was added, removed or re-resolved.
LEMMA NoReleaseSameGraph ==
    ASSUME ClassifierTypeOK, ~ClassifyWorkspace.releaseNeeded
    PROVE  BuildGraph(lock, HostUse) = BuildGraph(base, HostUse)
<1> DEFINE runtime == {p \in ChangedCargoPackages : ReachesShippedGraph(lock, p)}
<1>1. base \in Locks /\ lock \in Locks
  BY DEF ClassifierTypeOK
<1>2. runtime = {}
  <2> SUFFICES ASSUME runtime # {} PROVE FALSE
    OBVIOUS
  <2> HIDE DEF runtime
  <2>1. ClassifyRefresh(ChangedFiles, pyRuntimeChanged, runtime).releaseNeeded
    BY Zenon DEF ClassifyRefresh
  <2> QED
    BY <2>1 DEF ClassifyWorkspace, runtime
<1>3. \A p \in ChangedCargoLockPackages(base, lock) :
         p \in DOMAIN lock /\ p \notin Reached(lock, Edges(lock, HostUse))
  <2>1. CASE "Cargo.lock" \in ChangedFiles
    BY <1>2, <2>1 DEF ChangedCargoPackages, ReachesShippedGraph
  <2>2. CASE "Cargo.lock" \notin ChangedFiles
    <3>1. CargoLockPackages(base) = CargoLockPackages(lock)
      BY <2>2 DEF ChangedFiles
    <3>2. DOMAIN base = DOMAIN lock
      BY <3>1 DEF CargoLockPackages
    <3> QED
      BY <3>1, <3>2 DEF ChangedCargoLockPackages
  <2> QED
    BY <2>1, <2>2
<1>4. DOMAIN base \subseteq DOMAIN lock
  BY <1>3 DEF ChangedCargoLockPackages
<1>5. \A p \in Reached(lock, Edges(lock, HostUse)) : p \in DOMAIN base /\ base[p] = lock[p]
  <2> SUFFICES ASSUME NEW p \in Reached(lock, Edges(lock, HostUse))
               PROVE  p \in DOMAIN base /\ base[p] = lock[p]
    OBVIOUS
  <2>1. p \in DOMAIN lock
    BY DEF Reached
  <2>2. p \in DOMAIN base /\ CargoLockPackages(base)[p] = CargoLockPackages(lock)[p]
    BY <1>3, <2>1 DEF ChangedCargoLockPackages
  <2>3. LockedTable(base, p) = LockedTable(lock, p)
    BY <2>1, <2>2 DEF CargoLockPackages
  <2> QED
    BY <1>1, <1>4, <2>2, <2>3, SameTableSamePick
<1> QED
  BY <1>1, <1>4, <1>5, SameBuildGraph

\* What the stored classification is about.
ClassifierInv ==
    /\ ClassifierTypeOK
    /\ progress = "classified" => classification = ClassifyWorkspace

LEMMA ClassifierInductive == ClassifierSpec => []ClassifierInv
<1>1. ClassifierInit => ClassifierInv
  <2> SUFFICES ASSUME ClassifierInit PROVE ClassifierInv
    OBVIOUS
  <2>1. progress # "classified"
    BY DEF ClassifierInit
  <2>2. classification \in [releaseNeeded : BOOLEAN, reason : Reasons \cup {"none"}]
    BY DEF ClassifierInit
  <2> QED
    BY <2>1, <2>2 DEF ClassifierInit, ClassifierInv, ClassifierTypeOK
<1>2. ClassifierInv /\ [ClassifierNext]_classifierVars => ClassifierInv'
  <2> SUFFICES ASSUME ClassifierInv, [ClassifierNext]_classifierVars PROVE ClassifierInv'
    OBVIOUS
  <2>1. CASE Refresh
    BY <2>1 DEF ClassifierInv, ClassifierTypeOK, Refresh
  <2>2. CASE Classify
    <3>1. /\ ClassifyWorkspace \in [releaseNeeded : BOOLEAN, reason : Reasons \cup {"none"}]
          /\ ClassifyWorkspace.reason # "none"
      BY Zenon DEF ClassifyWorkspace, ClassifyRefresh, Reasons
    <3>2. ClassifyWorkspace' = ClassifyWorkspace
      BY <2>2 DEF Classify, ClassifyWorkspace, ChangedFiles, ChangedCargoPackages
    <3> QED
      BY <2>2, <3>1, <3>2 DEF ClassifierInv, ClassifierTypeOK, Classify
  <2>3. CASE UNCHANGED classifierVars
    <3>1. ClassifyWorkspace' = ClassifyWorkspace
      BY <2>3 DEF classifierVars, ClassifyWorkspace, ChangedFiles, ChangedCargoPackages
    <3> QED
      BY <2>3, <3>1 DEF ClassifierInv, ClassifierTypeOK, classifierVars
  <2> QED
    BY <2>1, <2>2, <2>3 DEF ClassifierNext
<1> QED
  BY <1>1, <1>2, PTL DEF ClassifierSpec

\* A refresh classified as needing no release leaves the host build graph
\* exactly as it was, whatever the manifests and the two locks are.
THEOREM NoReleaseLeavesHostBuild == ClassifierSpec => []HostBuildGraphUnchanged
<1>1. ClassifierInv => HostBuildGraphUnchanged
  BY NoReleaseSameGraph DEF ClassifierInv, HostBuildGraphUnchanged, NotNeeded
<1> QED
  BY <1>1, ClassifierInductive, PTL

-----------------------------------------------------------------------------
(***************************************************************************)
(* NoticeGraph: when the worklist is empty, what was found and the root    *)
(* are closed under normal edges, and nothing was found that such edges do *)
(* not reach.                                                              *)
(***************************************************************************)

\* The edges the walk follows.
NormalEdges == Edges(lock, NormalUse)

\* The walk has seen only what is reached, and everything next to what it is done with.
WalkInv ==
    /\ pending \subseteq seen \cup {Root}
    /\ seen \subseteq Reached(lock, NormalEdges)
    /\ Root \in seen \cup pending \/ NormalDeps(lock, Root) \subseteq seen
    /\ \A p \in (seen \cup {Root}) \ pending : NormalDeps(lock, p) \subseteq seen

\* The inductive invariant of the notices.
NoticeInv ==
    /\ NoticeTypeOK
    /\ phase = "walking" => WalkInv
    /\ phase # "walking" => pending = {}
    /\ phase = "rendered" => generated = ShippedPackages(lock)
    /\ CheckIsExact

\* The normal dependencies of a locked package are the ends of its edges.
LEMMA DepsAreEdges ==
    ASSUME NEW l \in Locks, NEW p \in DOMAIN l, NEW q
    PROVE  q \in NormalDeps(l, p) <=> <<p, q>> \in Edges(l, NormalUse)
<1>1. \A r \in Requires[p] : l[p][r] \in DOMAIN l
  BY LocksAssumption DEF IsResolved
<1>2. Requires[p] \subseteq Requirement
  BY LocksAssumption, GraphAssumption DEF IsResolved
<1>3. ASSUME NEW r \in Requires[p]
      PROVE  (\E u \in r.uses : u[1] = "normal") <=> r.uses \cap NormalUse # {}
  <2>1. r.uses \subseteq {"normal", "build", "dev"} \X {"host", "foreign"}
    BY <1>2 DEF Requirement
  <2> QED
    BY <2>1 DEF NormalUse
<1> QED
  BY <1>1, <1>3 DEF NormalDeps, Edges

\* A set that is inside what is reached, holds the root's and every member's
\* dependencies, is all that is reached but the root.
LEMMA ClosedIsReached ==
    ASSUME NEW l \in Locks, NEW S, S \subseteq Reached(l, Edges(l, NormalUse)),
           \A p \in S \cup {Root} : NormalDeps(l, p) \subseteq S
    PROVE  S \cup {Root} = Reached(l, Edges(l, NormalUse))
<1> DEFINE edges == Edges(l, NormalUse)
           T == S \cup {Root}
<1>1. Root \in DOMAIN l
  BY LocksAssumption DEF IsResolved
<1>2. T \subseteq DOMAIN l /\ Root \in Reached(l, edges)
  BY <1>1 DEF Reached
<1>3. ClosedUnder(T, edges)
  <2> SUFFICES ASSUME NEW e \in edges, e[1] \in T PROVE e[2] \in T
    BY DEF ClosedUnder
  <2>1. e = <<e[1], e[2]>>
    BY DEF Edges
  <2>2. e[2] \in NormalDeps(l, e[1])
    BY <1>2, <2>1, DepsAreEdges
  <2> QED
    BY <2>2
<1>4. Reached(l, edges) \subseteq T
  BY <1>2, <1>3 DEF Reached
<1> QED
  BY <1>2, <1>4

\* A dependency of a reached package is reached.
LEMMA ReachedIsClosed ==
    ASSUME NEW l \in Locks, NEW p \in Reached(l, Edges(l, NormalUse))
    PROVE  NormalDeps(l, p) \subseteq Reached(l, Edges(l, NormalUse))
<1> SUFFICES ASSUME NEW q \in NormalDeps(l, p)
             PROVE  q \in Reached(l, Edges(l, NormalUse))
  OBVIOUS
<1>1. p \in DOMAIN l
  BY DEF Reached
<1>2. <<p, q>> \in Edges(l, NormalUse)
  BY <1>1, DepsAreEdges
<1>3. q \in DOMAIN l
  BY <1>2 DEF Edges
<1> QED
  BY <1>2, <1>3 DEF Reached, ClosedUnder
-----------------------------------------------------------------------------
LEMMA NoticeInitHolds == NoticeInit => NoticeInv
<1> SUFFICES ASSUME NoticeInit PROVE NoticeInv
  OBVIOUS
<1>1. /\ exit = -1 /\ phase = "idle" /\ notices \subseteq Packages /\ lock \in Locks
      /\ pending = {} /\ seen = {} /\ generated = {} /\ option = "check"
  BY RegistryAssumption DEF NoticeInit
<1> QED
  BY <1>1 DEF NoticeInv, NoticeTypeOK, CheckIsExact

LEMMA NoticeStartHolds == NoticeInv /\ Start => NoticeInv'
<1> SUFFICES ASSUME NoticeInv, Start PROVE NoticeInv'
  OBVIOUS
<1>1. Root \in DOMAIN lock
  BY LocksAssumption DEF NoticeInv, NoticeTypeOK, IsResolved
<1>2. WalkInv'
  BY <1>1 DEF Start, WalkInv
<1>3. NoticeTypeOK'
  BY <1>1 DEF NoticeInv, NoticeTypeOK, Start
<1> QED
  BY <1>2, <1>3 DEF Start, NoticeInv, CheckIsExact

LEMMA NoticeVisitHolds == NoticeInv /\ Visit => NoticeInv'
<1> SUFFICES ASSUME NoticeInv, NEW current \in pending, phase = "walking",
                    seen' = seen \cup (NormalDeps(lock, current) \ seen),
                    pending' = (pending \ {current}) \cup (NormalDeps(lock, current) \ seen),
                    UNCHANGED <<lock, notices, option, phase, generated, exit>>
             PROVE  NoticeInv'
  BY DEF Visit
<1>1. lock \in Locks /\ WalkInv /\ Root \in Reached(lock, NormalEdges)
  BY LocksAssumption DEF NoticeInv, NoticeTypeOK, IsResolved, Reached
<1>2. current \in Reached(lock, NormalEdges)
  BY <1>1 DEF WalkInv
<1>3. NormalDeps(lock, current) \subseteq Reached(lock, NormalEdges)
  BY <1>1, <1>2, ReachedIsClosed DEF NormalEdges
<1>4. Reached(lock, NormalEdges) \subseteq DOMAIN lock /\ DOMAIN lock \subseteq Packages
  BY <1>1, LocksAssumption DEF Reached, IsResolved
<1>5. seen' = seen \cup NormalDeps(lock, current) /\ lock' = lock
  OBVIOUS
<1>6. NoticeTypeOK'
  BY <1>3, <1>4 DEF NoticeInv, NoticeTypeOK
<1>7. NormalEdges' = NormalEdges
  BY DEF NormalEdges
<1>8. pending' \subseteq seen' \cup {Root} /\ seen' \subseteq Reached(lock, NormalEdges)
  BY <1>1, <1>3 DEF WalkInv
<1>9. \A p \in (seen' \cup {Root}) \ pending' : NormalDeps(lock, p) \subseteq seen'
  <2> SUFFICES ASSUME NEW p \in (seen' \cup {Root}) \ pending'
               PROVE  NormalDeps(lock, p) \subseteq seen'
    OBVIOUS
  <2>1. CASE p = current
    BY <2>1, <1>5
  <2>2. CASE p # current
    <3>1. p \in (seen \cup {Root}) \ pending
      BY <2>2
    <3> QED
      BY <3>1, <1>1, <1>5 DEF WalkInv
  <2> QED
    BY <2>1, <2>2
<1>10. Root \in seen' \cup pending' \/ NormalDeps(lock, Root) \subseteq seen'
  BY <1>9
<1>11. WalkInv'
  BY <1>5, <1>7, <1>8, <1>9, <1>10 DEF WalkInv, NormalDeps
<1> QED
  BY <1>6, <1>11 DEF NoticeInv, CheckIsExact, ShippedPackages

LEMMA NoticeRenderHolds == NoticeInv /\ Render => NoticeInv'
<1> SUFFICES ASSUME NoticeInv, Render PROVE NoticeInv'
  OBVIOUS
<1>1. lock \in Locks /\ WalkInv /\ pending = {}
  BY DEF NoticeInv, NoticeTypeOK, Render
<1>2. seen \cup {Root} = Reached(lock, NormalEdges)
  BY <1>1, ClosedIsReached DEF WalkInv, NormalEdges
<1>3. Reached(lock, NormalEdges) \subseteq DOMAIN lock
  BY DEF Reached
<1>4. generated' = ShippedPackages(lock)
  BY <1>2, <1>3, RegistryAssumption DEF Render, ShippedPackages, NormalEdges
<1>5. NoticeTypeOK'
  BY DEF NoticeInv, NoticeTypeOK, Render
<1> QED
  BY <1>4, <1>5 DEF NoticeInv, Render, CheckIsExact, ShippedPackages

LEMMA NoticeFinishHolds == NoticeInv /\ Finish => NoticeInv'
<1> SUFFICES ASSUME NoticeInv, Finish PROVE NoticeInv'
  OBVIOUS
<1>1. generated = ShippedPackages(lock) /\ phase' = "idle" /\ lock' = lock /\ pending' = {}
  BY DEF NoticeInv, Finish
<1>2. generated \subseteq Packages
  BY RegistryAssumption DEF NoticeInv, NoticeTypeOK
<1>3. NoticeTypeOK'
  BY <1>2 DEF NoticeInv, NoticeTypeOK, Finish
<1>4. CheckIsExact'
  BY <1>1 DEF Finish, CheckIsExact, ShippedPackages
<1> QED
  BY <1>1, <1>3, <1>4 DEF NoticeInv

LEMMA NoticeInductive == NoticeSpec => []NoticeInv
<1>1. NoticeInv /\ Relock => NoticeInv'
  BY DEF NoticeInv, NoticeTypeOK, Relock, CheckIsExact
<1>2. NoticeInv /\ UNCHANGED noticeVars => NoticeInv'
  BY DEF NoticeInv, NoticeTypeOK, noticeVars, WalkInv, CheckIsExact, NormalEdges, ShippedPackages, NormalDeps
<1>3. NoticeInv /\ [NoticeNext]_noticeVars => NoticeInv'
  BY <1>1, <1>2, NoticeStartHolds, NoticeVisitHolds, NoticeRenderHolds, NoticeFinishHolds DEF NoticeNext, Script
<1> QED
  BY <1>3, NoticeInitHolds, PTL DEF NoticeSpec

\* The rendered document lists exactly the registry packages that normal
\* dependencies reach, for every manifest and lock.
THEOREM NoticesAreRight == NoticeSpec => []NoticesAreTheShippedPackages
<1>1. NoticeInv => NoticesAreTheShippedPackages
  BY DEF NoticeInv, NoticesAreTheShippedPackages
<1> QED
  BY <1>1, NoticeInductive, PTL

\* The exit status tells whether the notice file is right for the lock.
THEOREM CheckIsRight == NoticeSpec => []CheckIsExact
<1>1. NoticeInv => CheckIsExact
  BY DEF NoticeInv
<1> QED
  BY <1>1, NoticeInductive, PTL

-----------------------------------------------------------------------------
(***************************************************************************)
(* ActionsRefresh: a tree that passes make ci has only pins that a         *)
(* maintainer was shown.                                                   *)
(***************************************************************************)

\* What is fetched are releases.
FetchedValues == \A a \in DOMAIN fetched : fetched[a] \in 1..MaxRelease

\* The files before the next one, or all of them, have what was fetched.
BumpedFiles ==
    /\ DOMAIN workflow = DOMAIN Workflows
    /\ stage = "fetch" => next = 1
    /\ \A i \in DOMAIN workflow :
          \/ stage = "workflows" /\ i < next
          \/ stage \in {"parse", "allowlist", "makefile", "report"}
          => \A a \in Uses[Workflows[i]] : workflow[i][a] = fetched[a]

\* What no failure breaks.
RefreshInv == ActionsTypeOK /\ FetchedValues /\ BumpedFiles

\* Whatever fails, the files that were updated have what was fetched.
LEMMA RefreshInductive == ActionsSpec => []RefreshInv
<1> USE RefreshAssumption DEF Pinned, Stages
<1>1. ActionsInit => RefreshInv
  BY DEF ActionsInit, RefreshInv, ActionsTypeOK, FetchedValues, BumpedFiles
<1>2. RefreshInv /\ [ActionsNext]_actionsVars => RefreshInv'
  <2> SUFFICES ASSUME RefreshInv, [ActionsNext]_actionsVars PROVE RefreshInv'
    OBVIOUS
  <2> USE DEF RefreshInv
  <2>1. ASSUME NEW a \in Pinned, Release(a) PROVE RefreshInv'
    <3>1. ActionsTypeOK'
      BY <2>1 DEF Release, ActionsTypeOK, files, local
    <3>2. (FetchedValues /\ BumpedFiles)'
      BY <2>1 DEF Release, FetchedValues, BumpedFiles, files, local
    <3> QED
      BY <3>1, <3>2
  <2>2. CASE Begin
    <3>1. ActionsTypeOK'
      BY <2>2 DEF Begin, ActionsTypeOK, files
    <3>2. (FetchedValues /\ BumpedFiles)'
      BY <2>2 DEF Begin, FetchedValues, BumpedFiles, files
    <3> QED
      BY <3>1, <3>2
  <2>3. ASSUME NEW a \in Pinned, Fetch(a) PROVE RefreshInv'
    <3>1. ActionsTypeOK'
      BY <2>3 DEF Fetch, ActionsTypeOK, files
    <3>2. latest[a] \in 1..MaxRelease
      BY DEF ActionsTypeOK
    <3>3. FetchedValues'
      BY <2>3, <3>2 DEF Fetch, FetchedValues
    <3>4. stage = "fetch" /\ stage' \in {"fetch", "workflows"} /\ next' = next
      BY <2>3 DEF Fetch
    <3>5. BumpedFiles'
      BY <2>3, <3>4 DEF Fetch, BumpedFiles, files
    <3> QED
      BY <3>1, <3>3, <3>5
  <2>4. CASE UpdateWorkflow
    <3>1. next \in DOMAIN workflow /\ DOMAIN fetched = Pinned
      BY <2>4 DEF UpdateWorkflow, ActionsTypeOK, BumpedFiles
    <3>2. /\ DOMAIN workflow' = DOMAIN workflow
          /\ workflow'[next] = Bumped(next)
          /\ \A i \in DOMAIN workflow \ {next} : workflow'[i] = workflow[i]
      BY <2>4, <3>1 DEF UpdateWorkflow
    <3>3. DOMAIN workflow[next] = Uses[Workflows[next]]
      BY <3>1 DEF ActionsTypeOK
    <3>4. /\ Bumped(next) \in [Uses[Workflows[next]] -> 1..MaxRelease]
          /\ \A a \in Uses[Workflows[next]] : Bumped(next)[a] = fetched[a]
      BY <3>1, <3>3 DEF Bumped, FetchedValues, BumpedFiles
    <3>5. ActionsTypeOK'
      BY <2>4, <3>1, <3>2, <3>4 DEF UpdateWorkflow, ActionsTypeOK
    <3>6. BumpedFiles'
      <4> SUFFICES ASSUME NEW i \in DOMAIN workflow, i < next + 1, NEW a \in Uses[Workflows[i]]
                   PROVE  workflow'[i][a] = fetched[a]
        BY <2>4, <3>2 DEF UpdateWorkflow, BumpedFiles
      <4>1. CASE i = next
        BY <4>1, <3>2, <3>4
      <4>2. CASE i # next
        <5>1. i < next
          BY <4>2, <3>1 DEF BumpedFiles
        <5> QED
          BY <5>1, <4>2, <3>2, <2>4 DEF UpdateWorkflow, BumpedFiles
      <4> QED
        BY <4>1, <4>2
    <3>7. FetchedValues'
      BY <2>4 DEF UpdateWorkflow, FetchedValues
    <3> QED
      BY <3>5, <3>6, <3>7
  <2>5. CASE EndUpdate
    <3>1. ActionsTypeOK'
      BY <2>5 DEF EndUpdate, ActionsTypeOK, files, local
    <3>2. FetchedValues'
      BY <2>5 DEF EndUpdate, FetchedValues, files, local
    <3>3. BumpedFiles'
      <4> SUFFICES ASSUME NEW i \in DOMAIN workflow, NEW a \in Uses[Workflows[i]]
                   PROVE  workflow[i][a] = fetched[a]
        BY <2>5 DEF EndUpdate, BumpedFiles, files, local
      <4>1. i < next /\ stage = "workflows"
        BY <2>5 DEF EndUpdate, ActionsTypeOK, BumpedFiles
      <4> QED
        BY <4>1 DEF BumpedFiles
    <3> QED
      BY <3>1, <3>2, <3>3
  <2>6. CASE ParseAllowlist
    <3>1. ActionsTypeOK'
      BY <2>6 DEF ParseAllowlist, ActionsTypeOK, files
    <3>2. (FetchedValues /\ BumpedFiles)'
      BY <2>6 DEF ParseAllowlist, FetchedValues, BumpedFiles, files
    <3> QED
      BY <3>1, <3>2
  <2>7. CASE SyncReviewedRefs
    <3>1. /\ allowlist' \in [Pinned -> 1..MaxRelease]
          /\ \A a \in Pinned : allowlist'[a] = fetched[a]
      BY <2>7 DEF SyncReviewedRefs, ActionsTypeOK, FetchedValues
    <3>2. ActionsTypeOK'
      BY <2>7, <3>1 DEF SyncReviewedRefs, ActionsTypeOK
    <3>3. (FetchedValues /\ BumpedFiles)'
      BY <2>7, <3>1 DEF SyncReviewedRefs, FetchedValues, BumpedFiles
    <3> QED
      BY <3>2, <3>3
  <2>8. CASE SyncMakefile
    <3>1. ActionsTypeOK'
      BY <2>8 DEF SyncMakefile, ActionsTypeOK, FetchedValues
    <3>2. (FetchedValues /\ BumpedFiles)'
      BY <2>8 DEF SyncMakefile, FetchedValues, BumpedFiles
    <3> QED
      BY <3>1, <3>2
  <2>9. CASE Report
    <3>1. ActionsTypeOK'
      BY <2>9 DEF Report, ActionsTypeOK, files, local
    <3>2. (FetchedValues /\ BumpedFiles)'
      BY <2>9 DEF Report, FetchedValues, BumpedFiles, files, local
    <3> QED
      BY <3>1, <3>2
  <2>10. CASE Fail
    <3>1. ActionsTypeOK'
      BY <2>10 DEF Fail, ActionsTypeOK, files, local
    <3>2. (FetchedValues /\ BumpedFiles)'
      BY <2>10 DEF Fail, FetchedValues, BumpedFiles, files, local
    <3> QED
      BY <3>1, <3>2
  <2>11. CASE UNCHANGED actionsVars
    BY <2>11 DEF actionsVars, ActionsTypeOK, FetchedValues, BumpedFiles, files, local
  <2> QED
    BY <2>1, <2>2, <2>3, <2>4, <2>5, <2>6, <2>7, <2>8, <2>9, <2>10, <2>11 DEF ActionsNext
<1> QED
  BY <1>1, <1>2, PTL DEF ActionsSpec

\* What is in the allowlist, now or before the sync, was listed in a report or is
\* still to be.
AllowlistShown ==
    /\ \A a \in Pinned : <<a, allowlist[a]>> \in shown \cup unreported
    /\ stage = "allowlist" => old = allowlist
    /\ stage \in {"makefile", "report"} => \A a \in Pinned : allowlist[a] = fetched[a]
    /\ stage = "report" => makefile = fetched[Rust]

\* A run that ended as a sync has left a tree that passes.
SyncedTree == synced => stage = "idle" /\ Gate

\* What syncs have shown, and what they have left to be shown.
ShownInv == AllowlistShown /\ SyncedTree

\* Wherever runs fail.
LEMMA ShownInductive == ActionsSpec => []ShownInv
<1> USE RefreshAssumption DEF Pinned, Stages
<1>1. ActionsInit => ShownInv
  BY DEF ActionsInit, ShownInv, AllowlistShown, SyncedTree
<1>2. RefreshInv /\ ShownInv /\ [ActionsNext]_actionsVars => ShownInv'
  <2> SUFFICES ASSUME RefreshInv, ShownInv, [ActionsNext]_actionsVars PROVE ShownInv'
    OBVIOUS
  <2> USE DEF RefreshInv, ShownInv
  <2>1. ASSUME NEW a \in Pinned, Release(a) PROVE ShownInv'
    BY <2>1 DEF Release, AllowlistShown, SyncedTree, Gate, files, local
  <2>2. CASE Begin
    BY <2>2 DEF Begin, AllowlistShown, SyncedTree, files
  <2>3. ASSUME NEW a \in Pinned, Fetch(a) PROVE ShownInv'
    <3>1. stage = "fetch" /\ stage' \in {"fetch", "workflows"}
      BY <2>3 DEF Fetch
    <3> QED
      BY <2>3, <3>1 DEF Fetch, AllowlistShown, SyncedTree, files
  <2>4. CASE UpdateWorkflow
    BY <2>4 DEF UpdateWorkflow, AllowlistShown, SyncedTree
  <2>5. CASE EndUpdate
    BY <2>5 DEF EndUpdate, AllowlistShown, SyncedTree, files, local
  <2>6. CASE ParseAllowlist
    BY <2>6 DEF ParseAllowlist, AllowlistShown, SyncedTree, files
  <2>7. CASE SyncReviewedRefs
    <3>1. \A a \in Pinned : allowlist'[a] = fetched[a]
      BY <2>7 DEF SyncReviewedRefs, ActionsTypeOK, FetchedValues
    <3>2. ASSUME NEW a \in Pinned
          PROVE  <<a, allowlist'[a]>> \in shown' \cup unreported'
      <4>1. CASE old[a] # fetched[a]
        <5>1. <<a, fetched[a]>> \in ReportEntries
          BY <4>1 DEF ReportEntries
        <5> QED
          BY <2>7, <3>1, <5>1 DEF SyncReviewedRefs
      <4>2. CASE old[a] = fetched[a]
        BY <2>7, <3>1, <4>2 DEF SyncReviewedRefs, AllowlistShown
      <4> QED
        BY <4>1, <4>2
    <3> QED
      BY <2>7, <3>1, <3>2 DEF SyncReviewedRefs, AllowlistShown, SyncedTree
  <2>8. CASE SyncMakefile
    BY <2>8 DEF SyncMakefile, AllowlistShown, SyncedTree
  <2>9. CASE Report
    <3>1. AllowlistShown'
      <4>1. shown \cup unreported \subseteq shown' \cup unreported'
        BY <2>9 DEF Report
      <4> QED
        BY <2>9, <4>1 DEF Report, AllowlistShown, files, local
    <3>2. Gate'
      BY <2>9 DEF Report, Gate, ActionsTypeOK, BumpedFiles, AllowlistShown, files, local
    <3> QED
      BY <2>9, <3>1, <3>2 DEF Report, SyncedTree
  <2>10. CASE Fail
    BY <2>10 DEF Fail, AllowlistShown, SyncedTree, Gate, files, local
  <2>11. CASE UNCHANGED actionsVars
    BY <2>11 DEF actionsVars, AllowlistShown, SyncedTree, Gate, files, local
  <2> QED
    BY <2>1, <2>2, <2>3, <2>4, <2>5, <2>6, <2>7, <2>8, <2>9, <2>10, <2>11 DEF ActionsNext
<1> QED
  BY <1>1, <1>2, RefreshInductive, PTL DEF ActionsSpec

\* After a sync that printed its report the tree passes make ci, and a tree that
\* passes it has only versions that a sync wrote to the allowlist, listed in a
\* report or left unreported where it stopped; for any actions, workflows and
\* releases, and runs that fail anywhere (PinsAreReviewed).
THEOREM ReviewedPins == ActionsSpec => []PinsAreReviewed
<1>1. RefreshInv /\ ShownInv => PinsAreReviewed
  BY RefreshAssumption DEF RefreshInv, ShownInv, ActionsTypeOK, AllowlistShown, SyncedTree, BumpedFiles, Gate,
                           PinsAreReviewed
<1> QED
  BY <1>1, RefreshInductive, ShownInductive, PTL

-----------------------------------------------------------------------------
(***************************************************************************)
(* SurfaceScan: a scan blocks exactly the releases that lack something, and *)
(* one that ends leaves complete documents.                                 *)
(***************************************************************************)

\* What the manifest does not know, as pairs of names of the crate.
AllNew == NewOptions \cup NewVariants
NamePairs == ItemNames \X ItemNames

\* The manifest has its fields, and lists no variants of what is no enum.
ManifestInv ==
    /\ manifest = [f \in ManifestFields |-> manifest[f]]
    /\ \A p \in manifest.exposedVariants : p[1] \notin Headings

\* What is kept of a scan.
ScanRecord ==
    [stage : {"none", "writing", "crashed", "error", "done"}, next : 1..3,
     body : {"none", "new", "blocking"},
     report : [version : Versions, new : SUBSET NamePairs, blocking : BOOLEAN]]

\* What is new is a pair of names of the crate.
LEMMA NewNamesTypes == index \in Indexes => AllNew \in SUBSET NamePairs
<1> SUFFICES ASSUME index \in Indexes PROVE AllNew \in SUBSET NamePairs
  OBVIOUS
<1> USE ItemsAssumption DEF ItemNames
<1>1. index \subseteq DOMAIN Items
  OBVIOUS
<1>2. OptionsFields \subseteq ItemNames
  BY <1>1 DEF OptionsFields, PublicFields, Public
<1>3. \A e \in EnumNames : e \in ItemNames /\ VariantsOf(e) \subseteq ItemNames
  BY <1>1 DEF EnumNames, VariantsOf, EnumVariants, Public
<1>4. NewOptions \subseteq NamePairs
  <2>1. OptionsFields # {} => "Options" \in ItemNames
    BY <1>1 DEF OptionsFields, Public
  <2> QED
    BY <1>2, <2>1 DEF NewOptions, NamePairs
<1>5. NewVariants \subseteq NamePairs
  BY <1>3 DEF NewVariants, Pairs, NamePairs
<1> QED
  BY <1>4, <1>5 DEF AllNew

\* Only names of the release are triaged: nothing new comes up, and what blocks
\* stays.
LEMMA TriageKeepsReport ==
    ASSUME ManifestInv, index \in Indexes, Triage
    PROVE  /\ ManifestInv'
           /\ AllNew' \subseteq AllNew
           /\ Blocking' <=> Blocking
<1> DEFINE O == OptionsFields \ KnownOptions
<1>1. index' = index
  BY DEF Triage
<1>2. /\ OptionsFields' = OptionsFields /\ EnumNames' = EnumNames /\ Functions' = Functions
      /\ \A e : Pairs(e)' = Pairs(e)
  BY <1>1 DEF OptionsFields, PublicFields, EnumNames, Functions, Methods, Public, Pairs, VariantsOf, EnumVariants
<1>3. NewVariants \subseteq UNION {Pairs(e) : e \in EnumNames}
  BY DEF NewVariants
<1>4. \A e, p : p \in Pairs(e) => p[1] = e
  BY DEF Pairs
<1>5. \A e \in EnumNames : e \notin Headings
  BY NamesAssumption, ItemsAssumption DEF EnumNames, Public
<1>6. /\ manifest' = [f \in ManifestFields |-> manifest'[f]]
      /\ manifest'.functions = manifest.functions
      /\ \A f \in ManifestFields : manifest[f] \subseteq manifest'[f]
      /\ manifest'.exposedOptions \subseteq manifest.exposedOptions \cup O
      /\ manifest'.exposedVariants \subseteq manifest.exposedVariants \cup NewVariants
  BY DEF Triage, ManifestInv, ManifestFields
<1>7. ManifestInv'
  BY <1>3, <1>4, <1>5, <1>6 DEF ManifestInv
<1>8. KnownOptions \subseteq KnownOptions' /\ KnownVariants \subseteq KnownVariants'
  BY <1>6 DEF KnownOptions, KnownVariants, ManifestFields
<1>9. AllNew' \subseteq AllNew
  BY <1>2, <1>8 DEF AllNew, NewOptions, NewVariants
<1>10. (manifest.exposedOptions \ OptionsFields # {})' <=> manifest.exposedOptions \ OptionsFields # {}
  BY <1>2, <1>6 DEF ManifestFields
<1>11. RemovedExposedVariants' = RemovedExposedVariants
  <2>1. manifest.exposedVariants \subseteq manifest'.exposedVariants
    BY <1>6 DEF ManifestFields
  <2>2. ASSUME NEW e \in EnumNames, NEW p \in manifest'.exposedVariants, p[1] = e, p \notin Pairs(e)
        PROVE  p \in manifest.exposedVariants
    BY <2>2, <1>3, <1>4, <1>6
  <2>3. \A e \in EnumNames :
           Of(e, manifest'.exposedVariants) \ Pairs(e) = Of(e, manifest.exposedVariants) \ Pairs(e)
    BY <2>1, <2>2 DEF Of
  <2> QED
    BY <2>3, <1>2 DEF RemovedExposedVariants, Of
<1>12. Blocking' <=> Blocking
  BY <1>2, <1>6, <1>10, <1>11 DEF Blocking
<1> QED
  BY <1>7, <1>9, <1>12

-----------------------------------------------------------------------------
\* The report stays what the comparison finds.
ReportInv ==
    /\ scan.stage = "writing" => scan.report.new = AllNew
    /\ scan.stage \in {"writing", "done"} => (scan.report.blocking <=> Blocking)

\* The types of the scan, with sections that are sequences.
ScanTypes ==
    /\ version \in Versions /\ index \in Indexes /\ noted \subseteq Versions
    /\ sections \in [Docs -> Seq([version : Versions, new : SUBSET NamePairs])]
    /\ scan \in ScanRecord

\* The sections of a document have versions of their own, up to now, and the one
\* of this version has everything that is new in it.
SectionsInv ==
    \A d \in Docs :
        /\ \A i \in DOMAIN sections[d] : sections[d][i].version <= version
        /\ \A i, j \in DOMAIN sections[d] : sections[d][i].version = sections[d][j].version => i = j
        /\ \A i \in DOMAIN sections[d] : sections[d][i].version = version => AllNew \subseteq sections[d][i].new

\* The document has a section of the version itself, not of one with a longer text.
HasSection(d, v) == \E i \in DOMAIN sections[d] : sections[d][i].version = v

\* A document that is written has a section of the version.
WrittenInv ==
    \A d \in Docs :
        /\ scan.stage = "writing" /\ AllNew # {} /\ d < scan.next => HasSection(d, version)
        /\ scan.stage = "done" /\ AllNew # {} => HasSection(d, version)
        /\ \A v \in noted : HasSection(d, v)

ScanInv == ScanTypes /\ ManifestInv /\ ReportInv /\ SectionsInv /\ WrittenInv

\* The versions and names of the sections.
LEMMA SectionTypes ==
    ASSUME ScanTypes, NEW d \in Docs
    PROVE  /\ sections[d] \in Seq([version : Versions, new : SUBSET NamePairs])
           /\ \A i \in DOMAIN sections[d] :
                 /\ sections[d][i] \in [version : Versions, new : SUBSET NamePairs]
                 /\ sections[d][i].version \in Nat
<1>1. ASSUME NEW T, NEW s \in Seq(T) PROVE \A i \in DOMAIN s : s[i] \in T
  OBVIOUS
<1>2. sections[d] \in Seq([version : Versions, new : SUBSET NamePairs])
  BY DEF ScanTypes
<1>3. \A i \in DOMAIN sections[d] : sections[d][i] \in [version : Versions, new : SUBSET NamePairs]
  BY <1>1, <1>2
<1> QED
  BY <1>2, <1>3, VersionsAssumption DEF Versions

\* A scan that has not begun, and one that ended at once.
LEMMA NoScanTypes == NoScan \in ScanRecord /\ [NoScan EXCEPT !.stage = "error"] \in ScanRecord
<1>1. 1 \in Versions /\ {} \in SUBSET NamePairs
  BY VersionsAssumption DEF Versions
<1> DEFINE Reports == [version : Versions, new : SUBSET NamePairs, blocking : BOOLEAN]
           report  == [version |-> 1, new |-> {}, blocking |-> FALSE]
           error   == [stage |-> "error", next |-> 1, body |-> "none", report |-> report]
<1>2. report \in Reports
  BY <1>1
<1>3. NoScan = [stage |-> "none", next |-> 1, body |-> "none", report |-> report]
  BY DEF NoScan
<1> HIDE DEF report, Reports
<1>4. [NoScan EXCEPT !.stage = "error"] = error
  BY <1>3
<1>5. error \in ScanRecord
  BY <1>2 DEF ScanRecord, Reports
<1>6. NoScan \in ScanRecord
  BY <1>2, <1>3 DEF ScanRecord, Reports
<1> QED
  BY <1>4, <1>5, <1>6

\* With versions that ascend, only the version's own section counts as its own.
LEMMA OwnHeading ==
    ASSUME ScanTypes, SectionsInv, NEW d \in Docs
    PROVE  HasHeading(d, version) <=> HasSection(d, version)
<1>1. ASSUME NEW i \in DOMAIN sections[d] PROVE <<version, sections[d][i].version>> \notin Prefixes
  <2>1. sections[d][i].version <= version /\ sections[d][i].version \in Nat /\ version \in Nat
    <3>1. sections[d][i].version \in Nat
      BY SectionTypes
    <3>2. version \in Nat
      BY VersionsAssumption DEF ScanTypes, Versions
    <3> QED
      BY <3>1, <3>2 DEF SectionsInv
  <2>2. \A v, w : <<v, w>> \in Prefixes => v < w
    BY VersionsAssumption
  <2> QED
    BY <2>1, <2>2
<1> QED
  BY <1>1 DEF HasHeading, HasSection

\* What a write appends, and what it leaves.
LEMMA AppendedSections ==
    ASSUME ScanTypes, SectionsInv, ReportInv, scan.stage = "writing", NEW d \in Docs
    PROVE  /\ Appended(d) \in Seq([version : Versions, new : SUBSET NamePairs])
           /\ DOMAIN sections[d] \subseteq DOMAIN Appended(d)
           /\ \A i \in DOMAIN sections[d] : Appended(d)[i] = sections[d][i]
           /\ \A i \in DOMAIN Appended(d) \ DOMAIN sections[d] :
                 /\ Appended(d)[i] = [version |-> version, new |-> AllNew]
                 /\ ~HasSection(d, version)
                 /\ \A j \in DOMAIN Appended(d) \ DOMAIN sections[d] : i = j
           /\ \E i \in DOMAIN Appended(d) : Appended(d)[i].version = version
<1> DEFINE Section == [version : Versions, new : SUBSET NamePairs]
           own == [version |-> version, new |-> scan.report.new]
<1>1. sections[d] \in Seq(Section) /\ own \in Section /\ own = [version |-> version, new |-> AllNew]
  BY DEF ScanTypes, ScanRecord, ReportInv
<1>2. CASE HasHeading(d, version)
  BY <1>1, <1>2, OwnHeading DEF Appended, HasSection
<1>3. CASE ~HasHeading(d, version)
  <2>1. Appended(d) = Append(sections[d], own) /\ ~HasSection(d, version)
    BY <1>3, OwnHeading DEF Appended
  <2> HIDE DEF Section, own
  <2>2. /\ Appended(d) \in Seq(Section)
        /\ DOMAIN sections[d] = 1..Len(sections[d]) /\ Len(sections[d]) \in Nat
        /\ DOMAIN Appended(d) = 1..(Len(sections[d]) + 1)
        /\ \A i \in 1..Len(sections[d]) : Appended(d)[i] = sections[d][i]
        /\ Appended(d)[Len(sections[d]) + 1] = own
    BY <2>1, <1>1
  <2>3. own.version = version
    BY DEF own
  <2> QED
    BY <2>1, <2>2, <2>3, <1>1 DEF Section
<1> QED
  BY <1>2, <1>3

\* The inductive invariant of the scan.
LEMMA ScanInductive == ScanSpec => []ScanInv
<1>1. ScanInit => ScanInv
  <2> SUFFICES ASSUME ScanInit PROVE ScanInv
    OBVIOUS
  <2>1. ScanTypes
    BY NoScanTypes, VersionsAssumption DEF ScanInit, ScanTypes, Versions
  <2>2. ManifestInv
    BY NamesAssumption DEF ScanInit, ManifestInv
  <2>3. ReportInv /\ SectionsInv /\ WrittenInv
    BY DEF ScanInit, NoScan, ReportInv, SectionsInv, WrittenInv
  <2> QED
    BY <2>1, <2>2, <2>3 DEF ScanInv
<1>2. ScanInv /\ [ScanNext]_scanVars => ScanInv'
  <2> SUFFICES ASSUME ScanInv, [ScanNext]_scanVars PROVE ScanInv'
    OBVIOUS
  <2> USE DEF ScanInv
  <2>0. ASSUME UNCHANGED <<version, index, manifest>>
        PROVE  AllNew' = AllNew /\ (Blocking' <=> Blocking) /\ ManifestInv'
    BY <2>0 DEF AllNew, NewOptions, NewVariants, KnownOptions, KnownVariants, Pairs, VariantsOf, EnumVariants,
                OptionsFields, PublicFields, EnumNames, Functions, Methods, Public, Blocking, RemovedExposedVariants,
                Of, ManifestInv
  <2>1. CASE StartScan
    <3>1. AllNew' = AllNew /\ (Blocking' <=> Blocking) /\ ManifestInv'
      BY <2>0, <2>1 DEF StartScan
    <3>2. AllNew \in SUBSET NamePairs
      BY NewNamesTypes DEF ScanTypes
    <3>3. CASE Required \subseteq Functions
      <4>1. scan' = [stage |-> "writing", next |-> 1, body |-> PrBody(CompareSurface),
                     report |-> [version |-> version, new |-> AllNew, blocking |-> Blocking]]
        BY <2>1, <3>3 DEF StartScan, CompareSurface, AllNew
      <4>2. Blocking \in BOOLEAN /\ PrBody(CompareSurface) \in {"none", "new", "blocking"}
        BY DEF Blocking, PrBody
      <4>3. ScanTypes'
        <5>1. version \in Versions
          BY DEF ScanTypes
        <5> HIDE DEF AllNew, NamePairs
        <5>2. scan' \in ScanRecord
          BY <4>1, <4>2, <3>2, <5>1 DEF ScanRecord
        <5> QED
          BY <2>1, <5>2 DEF StartScan, ScanTypes
      <4>4. ReportInv' /\ WrittenInv'
        BY <2>1, <3>1, <4>1, <4>2 DEF StartScan, ReportInv, WrittenInv, HasSection, Docs
      <4>5. SectionsInv'
        BY <2>1, <3>1 DEF StartScan, SectionsInv
      <4> QED
        BY <3>1, <4>3, <4>4, <4>5
    <3>4. CASE ~(Required \subseteq Functions)
      <4>1. scan' = [NoScan EXCEPT !.stage = "error"]
        BY <2>1, <3>4 DEF StartScan
      <4>2. ScanTypes'
        BY <2>1, <4>1, NoScanTypes DEF StartScan, ScanTypes
      <4>3. ReportInv' /\ SectionsInv' /\ WrittenInv'
        BY <2>1, <3>1, <4>1 DEF StartScan, NoScan, ReportInv, SectionsInv, WrittenInv, HasSection
      <4> QED
        BY <3>1, <4>2, <4>3
    <3> QED
      BY <3>3, <3>4
  <2>2. CASE WriteDoc
    <3>1. PICK d \in Docs : /\ scan.stage = "writing" /\ scan.report.new # {} /\ scan.next = d
                            /\ sections' = [sections EXCEPT ![d] = Appended(d)]
                            /\ scan' = [scan EXCEPT !.next = d + 1]
                            /\ UNCHANGED <<version, index, manifest, noted>>
      BY <2>2 DEF WriteDoc, Writing
    <3>2. AllNew' = AllNew /\ (Blocking' <=> Blocking) /\ ManifestInv'
      BY <2>0, <3>1
    <3>3. /\ sections' \in [Docs -> Seq([version : Versions, new : SUBSET NamePairs])]
          /\ sections'[d] = Appended(d)
          /\ \A e \in Docs \ {d} : sections'[e] = sections[e]
      BY <3>1, AppendedSections DEF ScanTypes
    <3>4. /\ scan' \in ScanRecord
          /\ scan'.stage = "writing" /\ scan'.next = d + 1 /\ scan'.report = scan.report
      BY <3>1 DEF ScanTypes, ScanRecord, Docs
    <3>5. ScanTypes'
      BY <3>1, <3>3, <3>4 DEF ScanTypes
    <3>6. SectionsInv'
      <4> SUFFICES ASSUME NEW e \in Docs PROVE
                     /\ \A i \in DOMAIN sections'[e] : sections'[e][i].version <= version
                     /\ \A i, j \in DOMAIN sections'[e] :
                           sections'[e][i].version = sections'[e][j].version => i = j
                     /\ \A i \in DOMAIN sections'[e] :
                           sections'[e][i].version = version => AllNew \subseteq sections'[e][i].new
        BY <3>1, <3>2 DEF SectionsInv
      <4>1. CASE e # d
        BY <4>1, <3>3 DEF SectionsInv
      <4>2. CASE e = d
        <5>1. \A i \in DOMAIN Appended(d) \ DOMAIN sections[d] :
                 Appended(d)[i].version = version /\ Appended(d)[i].new = AllNew
          BY <3>1, AppendedSections
        <5>2. version \in Nat
          BY VersionsAssumption DEF ScanTypes, Versions
        <5> QED
          BY <4>2, <3>1, <3>3, <5>1, <5>2, AppendedSections DEF SectionsInv, HasSection
      <4> QED
        BY <4>1, <4>2
    <3>7. WrittenInv'
      <4>1. HasSection(d, version)' /\ \A e \in Docs, v \in Versions : HasSection(e, v) => HasSection(e, v)'
        BY <3>1, <3>3, AppendedSections DEF HasSection
      <4>2. \A e \in Docs : e < d + 1 => e = d \/ e < d
        BY DEF Docs
      <4> QED
        BY <4>1, <4>2, <3>1, <3>2, <3>4 DEF WrittenInv, ScanTypes
    <3> QED
      BY <3>1, <3>2, <3>4, <3>5, <3>6, <3>7 DEF ReportInv
  <2>3. CASE WriteChangelog
    <3>1. AllNew' = AllNew /\ (Blocking' <=> Blocking) /\ ManifestInv'
      BY <2>0, <2>3 DEF WriteChangelog
    <3>2. /\ scan' \in ScanRecord
          /\ scan'.stage = "done" /\ scan'.report = scan.report
      BY <2>3 DEF WriteChangelog, ScanTypes, ScanRecord
    <3>3. ScanTypes'
      BY <2>3, <3>2 DEF WriteChangelog, ScanTypes
    <3>4. \A d \in Docs : HasSection(d, version)
      BY <2>3 DEF WriteChangelog, Writing, WrittenInv, ReportInv, Docs
    <3>5. WrittenInv' /\ SectionsInv' /\ ReportInv'
      BY <2>3, <3>1, <3>2, <3>4 DEF WriteChangelog, Writing, WrittenInv, SectionsInv, ReportInv, HasSection
    <3> QED
      BY <3>1, <3>3, <3>5
  <2>4. CASE NothingNew
    <3>1. AllNew' = AllNew /\ (Blocking' <=> Blocking) /\ ManifestInv'
      BY <2>0, <2>4 DEF NothingNew
    <3>2. /\ scan' \in ScanRecord
          /\ scan'.stage = "done" /\ scan'.report = scan.report
      BY <2>4 DEF NothingNew, ScanTypes, ScanRecord
    <3>3. ScanTypes'
      BY <2>4, <3>2 DEF NothingNew, ScanTypes
    <3>4. WrittenInv' /\ SectionsInv' /\ ReportInv'
      BY <2>4, <3>1, <3>2 DEF NothingNew, WrittenInv, SectionsInv, ReportInv, HasSection
    <3> QED
      BY <3>1, <3>3, <3>4
  <2>5. CASE Crash
    <3>1. AllNew' = AllNew /\ (Blocking' <=> Blocking) /\ ManifestInv'
      BY <2>0, <2>5 DEF Crash
    <3>2. scan' \in ScanRecord /\ scan'.stage = "crashed"
      BY <2>5 DEF Crash, ScanTypes, ScanRecord
    <3>3. ScanTypes'
      BY <2>5, <3>2 DEF Crash, ScanTypes
    <3>4. WrittenInv' /\ SectionsInv' /\ ReportInv'
      BY <2>5, <3>1, <3>2 DEF Crash, WrittenInv, SectionsInv, ReportInv, HasSection
    <3> QED
      BY <3>1, <3>3, <3>4
  <2>6. CASE Triage
    <3>1. ManifestInv' /\ AllNew' \subseteq AllNew /\ (Blocking' <=> Blocking)
      BY <2>6, TriageKeepsReport DEF ScanTypes
    <3>2. ScanTypes'
      BY <2>6 DEF Triage, ScanTypes
    <3>3. WrittenInv' /\ SectionsInv' /\ ReportInv'
      BY <2>6, <3>1 DEF Triage, WrittenInv, SectionsInv, ReportInv, HasSection
    <3> QED
      BY <3>1, <3>2, <3>3
  <2>7. CASE NextRelease
    <3>1. version' = version + 1 /\ version' \in Versions /\ version \in Nat
      BY <2>7, VersionsAssumption DEF NextRelease, ScanTypes, Versions
    <3>2. ManifestInv'
      BY <2>7 DEF NextRelease, ManifestInv
    <3>3. ScanTypes'
      BY <2>7, <3>1, NoScanTypes DEF NextRelease, ScanTypes
    <3>4. ReportInv' /\ WrittenInv'
      BY <2>7, <3>1 DEF NextRelease, NoScan, ReportInv, WrittenInv, HasSection
    <3>5. SectionsInv'
      <4>1. \A d \in Docs : \A i \in DOMAIN sections[d] : sections[d][i].version \in Nat
        BY SectionTypes
      <4> QED
        BY <2>7, <3>1, <4>1 DEF NextRelease, SectionsInv
    <3> QED
      BY <3>2, <3>3, <3>4, <3>5
  <2>8. CASE UNCHANGED scanVars
    <3>1. AllNew' = AllNew /\ (Blocking' <=> Blocking) /\ ManifestInv'
      BY <2>0, <2>8 DEF scanVars
    <3>2. ScanTypes'
      BY <2>8 DEF scanVars, ScanTypes
    <3>3. SectionsInv' /\ WrittenInv' /\ ReportInv'
      BY <2>8, <3>1 DEF scanVars, SectionsInv, WrittenInv, ReportInv, HasSection
    <3> QED
      BY <3>1, <3>2, <3>3
  <2> QED
    BY <2>1, <2>2, <2>3, <2>4, <2>5, <2>6, <2>7, <2>8 DEF ScanNext
<1> QED
  BY <1>1, <1>2, PTL DEF ScanSpec

\* When a scan has ended, both documents name everything the manifest does not
\* know, in one section of the version, and the changelog speaks of no version
\* that they lack, for any items, releases and manifests, scans that stop
\* between two files and triage in between (DocumentsAreComplete).
THEOREM ScansCompleteDocuments == ScanSpec => []DocumentsAreComplete
<1>1. ScanInv => DocumentsAreComplete
  <2> SUFFICES ASSUME ScanInv, NEW d \in Docs
               PROVE  /\ \A i, j \in DOMAIN sections[d] :
                            sections[d][i].version = sections[d][j].version => i = j
                      /\ noted \subseteq {sections[d][i].version : i \in DOMAIN sections[d]}
                      /\ scan.stage = "done" =>
                            AllNew \subseteq UNION {sections[d][i].new :
                               i \in {i \in DOMAIN sections[d] : sections[d][i].version = version}}
    BY DEF DocumentsAreComplete, AllNew
  <2> USE DEF ScanInv, SectionsInv, WrittenInv, HasSection
  <2>1. scan.stage = "done" /\ AllNew # {} =>
           \E i \in DOMAIN sections[d] : sections[d][i].version = version /\ AllNew \subseteq sections[d][i].new
    OBVIOUS
  <2> QED
    BY <2>1
<1> QED
  BY <1>1, ScanInductive, PTL

\* What the wrapper uses and a scan can tell from what the index has.
Compared ==
    {x \in Exposed : x[1] \in Headings \cup EnumNames} \ {<<"fn", m>> : m \in Methods}

\* Something blocks exactly if not all of that is exported.
LEMMA BlockingMeansMissing ==
    ASSUME ManifestInv, index \in Indexes
    PROVE  Blocking <=> ~(Compared \subseteq Exported)
<1> DEFINE fns  == {<<"fn", Items[i].name>> : i \in Public("function")}
           opts == {<<"Options", o>> : o \in OptionsFields}
           vars == UNION {{Items[i].name} \X EnumVariants(i) : i \in Public("enum")}
<1>1. Exported = fns \cup opts \cup vars
  BY DEF Exported, EnumVariants
<1>2. \A e \in EnumNames : e \notin Headings
  BY NamesAssumption, ItemsAssumption DEF EnumNames, Public
<1>3. \A x \in vars : x[1] \in EnumNames
  BY DEF EnumNames
<1>4. \A x : \A e \in EnumNames : x[1] = e => (x \in Pairs(e) <=> x \in vars)
  <2>1. \A e \in EnumNames : \A x \in vars : x[1] = e => x \in Pairs(e)
    BY DEF Pairs, VariantsOf
  <2>2. \A e \in EnumNames : \A x \in Pairs(e) : x \in vars
    <3> SUFFICES ASSUME NEW e \in EnumNames, NEW x \in Pairs(e) PROVE x \in vars
      OBVIOUS
    <3>1. PICK i \in Public("enum") : Items[i].name = e /\ x[2] \in EnumVariants(i) /\ x = <<e, x[2]>>
      BY DEF Pairs, VariantsOf
    <3> QED
      BY <3>1
  <2> QED
    BY <2>1, <2>2
<1>5. \A f : f \notin Methods => (<<"fn", f>> \in Exported <=> f \in Functions)
  BY <1>1, <1>2, <1>3 DEF Headings, Functions
<1>6. \A o : <<"Options", o>> \in Exported <=> o \in OptionsFields
  BY <1>1, <1>2, <1>3 DEF Headings
<1>7. \A x : x[1] \in EnumNames => (x \in Exported <=> x \in Pairs(x[1]))
  BY <1>1, <1>2, <1>4 DEF Headings
<1>8. RemovedExposedVariants # {}
        <=> \E p \in manifest.exposedVariants : p[1] \in EnumNames /\ p \notin Pairs(p[1])
  BY DEF RemovedExposedVariants, Of
<1> HIDE DEF vars
<1>9. ASSUME Blocking PROVE ~(Compared \subseteq Exported)
  <2>1. CASE manifest.exposedOptions \ OptionsFields # {}
    <3>1. PICK o \in manifest.exposedOptions : o \notin OptionsFields
      BY <2>1
    <3>2. <<"Options", o>> \in Compared
      BY DEF Compared, Exposed, Headings
    <3> QED
      BY <3>1, <3>2, <1>6
  <2>2. CASE manifest.functions \ Functions # {}
    <3>1. PICK f \in manifest.functions : f \notin Functions /\ f \notin Methods
      BY <2>2 DEF Functions
    <3>2. <<"fn", f>> \in Compared
      BY <3>1 DEF Compared, Exposed, Headings
    <3> QED
      BY <3>1, <3>2, <1>5
  <2>3. CASE RemovedExposedVariants # {}
    <3>1. PICK p \in manifest.exposedVariants : p[1] \in EnumNames /\ p \notin Pairs(p[1])
      BY <2>3, <1>8
    <3>2. p \in Compared
      BY <3>1, <1>2 DEF Compared, Exposed, Headings
    <3> QED
      BY <3>1, <3>2, <1>7
  <2> QED
    BY <1>9, <2>1, <2>2, <2>3 DEF Blocking
<1>10. ASSUME NEW x \in Compared, x \notin Exported PROVE Blocking
  <2>1. CASE \E f \in manifest.functions : x = <<"fn", f>>
    <3>1. PICK f \in manifest.functions : x = <<"fn", f>>
      BY <2>1
    <3>2. f \notin Methods
      BY <3>1 DEF Compared
    <3> QED
      BY <3>1, <3>2, <1>5, <1>10 DEF Blocking
  <2>2. CASE \E o \in manifest.exposedOptions : x = <<"Options", o>>
    BY <2>2, <1>6, <1>10 DEF Blocking
  <2>3. CASE x \in manifest.exposedVariants
    <3>1. x[1] \in EnumNames
      BY <2>3 DEF Compared, ManifestInv
    <3> QED
      BY <2>3, <3>1, <1>7, <1>8, <1>10 DEF Blocking
  <2> QED
    BY <2>1, <2>2, <2>3 DEF Compared, Exposed
<1> QED
  BY <1>9, <1>10

\* A scan blocks a release exactly if an option that the wrapper uses, a variant of
\* an enum that upstream still has or a function with the name of no method is
\* missing from it, for any crate and manifest (BlocksExactlyTheBroken).
THEOREM ScansBlockTheBroken == ScanSpec => []BlocksExactlyTheBroken
<1>1. ScanInv => BlocksExactlyTheBroken
  BY BlockingMeansMissing DEF ScanInv, ScanTypes, ReportInv, BlocksExactlyTheBroken, Compared
<1> QED
  BY <1>1, ScanInductive, PTL

-----------------------------------------------------------------------------
(***************************************************************************)
(* OverrideAudit: the audits end with the overrides that are needed.       *)
(***************************************************************************)

\* Some number of a set is the least.
LEMMA LeastNumber ==
    ASSUME NEW S \in SUBSET Nat, S # {}
    PROVE  \E n \in S : \A m \in S : n <= m
<1> DEFINE Below == {0..n : n \in S}
           Less  == StrictSubsetOrdering(Nat)
<1>1. Below \subseteq FiniteSubsetsOf(Nat) /\ Below # {}
  <2>1. \A n \in S : IsFiniteSet(0..n) /\ 0..n \subseteq Nat
    BY FS_Interval
  <2> QED
    BY <2>1 DEF FiniteSubsetsOf
<1>2. IsWellFoundedOn(Less, FiniteSubsetsOf(Nat))
  BY FS_StrictSubsetOrderingWellFounded
<1>3. PICK b \in Below : \A c \in Below : <<c, b>> \notin Less
  <2> HIDE DEF Below, Less
  <2> QED
    BY <1>1, <1>2, WFMin
<1>4. PICK n \in S : b = 0..n
  OBVIOUS
<1>5. ASSUME NEW m \in S, m < n PROVE FALSE
  <2>1. 0..m \subseteq 0..n /\ n \in 0..n /\ n \notin 0..m
    BY <1>5
  <2>2. <<0..m, 0..n>> \in Less
    BY <2>1 DEF StrictSubsetOrdering
  <2> QED
    BY <2>2, <1>3, <1>4
<1> QED
  BY <1>5

\* Of a set of versions, the highest is among them and above all others.
LEMMA HighestVersion ==
    ASSUME NEW S \in SUBSET Version, S # {}
    PROVE  Max(S) \in S /\ \A v \in S : Max(S) >= v
<1> DEFINE T == {MaxResolved - v : v \in S}
<1>1. MaxResolved \in Nat /\ \A v \in S : v \in Nat /\ v <= MaxResolved
  BY FloorAssumption DEF Version
<1>2. T \in SUBSET Nat /\ T # {}
  <2>1. \A v \in S : MaxResolved - v \in Nat
    BY <1>1
  <2> QED
    BY <2>1
<1>3. PICK n \in T : \A m \in T : n <= m
  <2> HIDE DEF T
  <2> QED
    BY <1>2, LeastNumber
<1>4. PICK x \in S : n = MaxResolved - x
  OBVIOUS
<1>5. \A y \in S : x >= y
  <2> SUFFICES ASSUME NEW y \in S PROVE x >= y
    OBVIOUS
  <2>1. MaxResolved - y \in T
    OBVIOUS
  <2> HIDE DEF T
  <2>2. MaxResolved - x <= MaxResolved - y
    BY <2>1, <1>3, <1>4
  <2>3. x \in Nat /\ y \in Nat /\ MaxResolved \in Nat
    BY <1>1
  <2> QED
    BY <2>2, <2>3
<1>6. Max(S) = CHOOSE v \in S : \A y \in S : v >= y
  BY DEF Max
<1> QED
  BY <1>5, <1>6

\* What is flagged as redundant meets its floor without overrides, unless it is
\* locked at several versions; what is not flagged does not meet it.
LEMMA RedundantOrNeeded ==
    ASSUME NEW p \in Overridden, uv \in Resolvers
    PROVE  /\ MeetsFloor(p, Natural) => Redundant(p)
           /\ Redundant(p) /\ Cardinality(Natural[p]) <= 1 => MeetsFloor(p, Natural)
<1>1. Natural[p] \in SUBSET Version
  BY DEF Natural, Resolvers, UvLocks
<1>2. Natural[p] # {} => Max(Natural[p]) \in Natural[p]
  BY <1>1, HighestVersion
<1>3. IsFiniteSet(Natural[p])
  <2>1. IsFiniteSet(1..MaxResolved)
    BY FS_Interval, FloorAssumption
  <2> QED
    BY <1>1, <2>1, FS_Subset DEF Version
<1>4. ASSUME Cardinality(Natural[p]) <= 1, NEW v \in Natural[p] PROVE v = Max(Natural[p])
  <2>1. Cardinality(Natural[p]) \in Nat /\ Cardinality(Natural[p]) # 0
    BY <1>3, <1>4, FS_CardinalityType, FS_EmptySet
  <2>2. Cardinality(Natural[p]) = 1
    BY <2>1, <1>4
  <2>3. PICK x : Natural[p] = {x}
    BY <2>2, <1>3, FS_Singleton
  <2> QED
    BY <2>3, <1>2, <1>4
<1>5. MeetsFloor(p, Natural) => Redundant(p)
  BY <1>2 DEF MeetsFloor, Redundant, ResolvedVersion
<1>6. Redundant(p) /\ Cardinality(Natural[p]) <= 1 => MeetsFloor(p, Natural)
  <2> SUFFICES ASSUME Redundant(p), Cardinality(Natural[p]) <= 1, NEW v \in Natural[p]
               PROVE  v >= Floor[p]
    BY DEF MeetsFloor
  <2>1. v = Max(Natural[p])
    BY <1>4
  <2> QED
    BY <2>1 DEF Redundant, ResolvedVersion
<1> QED
  BY <1>5, <1>6

\* What has been removed was redundant, and after a removal nothing else is.
OverridesInv ==
    /\ OverrideTypeOK
    /\ \A p \in Overridden \ overrides : Redundant(p)
    /\ overrides = Overridden \/ \A p \in overrides : ~Redundant(p)
    /\ flagged # NoAudit => flagged = EvaluateOverrides

\* The inductive invariant of the audits: what has been removed was redundant, and
\* the first round removes everything that is.
LEMMA OverridesInductive == OverrideSpec => []OverridesInv
<1> USE FloorAssumption DEF OverridesInv
<1>1. OverrideInit => OverridesInv
  BY DEF OverrideInit, OverrideTypeOK
<1>2. OverridesInv /\ [OverrideNext]_overrideVars => OverridesInv'
  <2> SUFFICES ASSUME OverridesInv, [OverrideNext]_overrideVars PROVE OverridesInv'
    OBVIOUS
  <2>1. uv' = uv
    BY DEF OverrideNext, Audit, Remove, overrideVars
  <2>2. Natural' = Natural /\ \A p : Redundant(p)' <=> Redundant(p)
    BY <2>1 DEF Natural, Redundant, ResolvedVersion
  <2>3. Resolvers' = Resolvers
    BY DEF Resolvers, UvLocks, MeetsFloor
  <2>4. CASE Audit
    BY <2>4, <2>1, <2>2, <2>3 DEF Audit, OverrideTypeOK, EvaluateOverrides
  <2>5. CASE Remove
    <3>1. flagged = EvaluateOverrides
      BY <2>5 DEF Remove
    <3> QED
      BY <2>5, <3>1, <2>1, <2>2, <2>3 DEF Remove, OverrideTypeOK, EvaluateOverrides
  <2>6. CASE UNCHANGED overrideVars
    BY <2>6, <2>1, <2>2, <2>3 DEF overrideVars, OverrideTypeOK, EvaluateOverrides
  <2> QED
    BY <2>4, <2>5, <2>6 DEF OverrideNext
<1> QED
  BY <1>1, <1>2, PTL DEF OverrideSpec

\* An audit that flags nothing leaves only overrides that are needed, one round of
\* removals is enough, and a lock without overrides meets every floor unless a
\* package is locked at several versions, for any resolver (AuditsLeaveWhatIsNeeded).
THEOREM NeededOverridesStay == OverrideSpec => []AuditsLeaveWhatIsNeeded
<1>1. OverridesInv => AuditsLeaveWhatIsNeeded
  <2> SUFFICES ASSUME OverridesInv PROVE AuditsLeaveWhatIsNeeded
    OBVIOUS
  <2> USE DEF OverridesInv, OverrideTypeOK
  <2>1. ASSUME flagged = {}, NEW p \in overrides PROVE ~MeetsFloor(p, Natural)
    BY <2>1, RedundantOrNeeded DEF NoAudit, EvaluateOverrides
  <2>2. ASSUME flagged \notin {NoAudit, {}} PROVE overrides = Overridden
    BY <2>2 DEF EvaluateOverrides
  <2>3. ASSUME overrides = {}, \A p \in Overridden : Cardinality(uvLock[p]) <= 1 PROVE Sound(uvLock)
    <3>1. uvLock = Natural /\ \A p \in Overridden : Redundant(p)
      BY <2>3 DEF Natural
    <3> QED
      BY <2>3, <3>1, RedundantOrNeeded DEF Sound
  <2> QED
    BY <2>1, <2>2, <2>3 DEF AuditsLeaveWhatIsNeeded
<1> QED
  BY <1>1, OverridesInductive, PTL

-----------------------------------------------------------------------------
(***************************************************************************)
(* ReleaseFiles: a release that is uploaded has one complete wheel per     *)
(* lane and one complete sdist.                                            *)
(***************************************************************************)
\* A complete wheel of the lane and of no other.
GoodWheel(l, f) ==
    /\ f.kind = "wheel" /\ f.python = {PythonOf[l]} /\ f.abi = {"abi3"}
    /\ PlatformOf[l] \in f.platform /\ Complete(f)
    /\ \A m \in Lanes : PythonOf[m] = PythonOf[l] /\ PlatformOf[m] \in f.platform => m = l

\* A complete sdist below one root.
GoodSDistFile(f) ==
    f.kind = "sdist" /\ \E root \in {m[1] : m \in f.members} : {root} \X ExpectedSDistFiles \subseteq f.members

\* What a job may store.
GoodFile(j, f) == IF j = "sdist" THEN GoodSDistFile(f) ELSE GoodWheel(j, f)

\* The inductive invariant of the files.
FilesInv ==
    /\ rehearsal \in BOOLEAN /\ attempt \in 1..MaxAttempts
    /\ job \in [Jobs -> {"todo", "passed", "failed"}]
    /\ stored = [j \in Jobs |-> stored[j]]
    /\ \A j \in Jobs : \/ stored[j] = {} /\ job[j] # "passed"
                       \/ \E f : /\ stored[j] = {f} /\ GoodFile(j, f)
                                 /\ ~rehearsal => f.version = <<"version", 0>>
    /\ uploaded # {} => uploaded = Files /\ \A j \in Jobs : job[j] = "passed"

\* The wheels of a build, named for a version.
WithVersion(dist, v) == {[w EXCEPT !.version = v] : w \in dist}

\* What passes the two checks of a lane is one good wheel of the version.
LEMMA CheckedWheel ==
    ASSUME NEW l \in Lanes, NEW dist \in Outputs[l], NEW v, NEW pv,
           NEW wheels, wheels = WithVersion(dist, v),
           CheckWheels(l, wheels, pv), CheckArtifacts(wheels)
    PROVE  \E f : wheels = {f} /\ GoodWheel(l, f) /\ f.version = pv
<1>1. PICK f \in wheels : wheels = {f} /\ ~WheelTagErrors(l, f, pv)
  BY DEF CheckWheels
<1>2. PICK w \in dist : f = [w EXCEPT !.version = v]
  BY DEF WithVersion
<1>3. w = [g \in WheelFields |-> w[g]] /\ w.kind = "wheel"
  BY OutputsAssumption
<1>4. f.kind = "wheel" /\ f.members = w.members /\ f.platform = w.platform
  BY <1>2, <1>3 DEF WheelFields
<1>5. /\ f.python = {PythonOf[l]} /\ f.abi = {"abi3"} /\ PlatformOf[l] \in f.platform /\ f.version = pv
  BY <1>1 DEF WheelTagErrors
<1>6. CheckWheel(f)
  BY <1>4 DEF CheckArtifacts
<1>7. \A m \in Lanes : PythonOf[m] = PythonOf[l] /\ PlatformOf[m] \in f.platform => m = l
  BY <1>4, <1>5, OutputsAssumption
<1>8. \A m \in f.members : m[2] \in Native => m = <<m[1], m[2]>>
  BY <1>4, OutputsAssumption
<1>9. /\ Cardinality({m \in f.members : m[2] \in Native}) = 1
      /\ \E n \in Native : <<"_oxipng", n>> \in f.members
  <2> DEFINE extensions == {m \in f.members : m[2] \in Native}
  <2>1. /\ Cardinality({m \in extensions : m[1] = "_oxipng"}) = 1
        /\ \A m \in extensions : m[1] = "_oxipng"
    BY <1>6 DEF CheckWheel, CheckNativeExtensions
  <2>2. {m \in extensions : m[1] = "_oxipng"} = extensions
    BY <2>1
  <2>3. Cardinality(extensions) = 1
    BY <2>1, <2>2
  <2>4. PICK m \in f.members : m[2] \in Native /\ m[1] = "_oxipng"
    <3>1. extensions # {}
      <4>1. Cardinality({}) # 1
        BY FS_EmptySet
      <4> HIDE DEF extensions
      <4> QED
        BY <2>3, <4>1
    <3> QED
      BY <3>1, <2>1
  <2>5. <<"_oxipng", m[2]>> \in f.members
    BY <2>4, <1>8
  <2> QED
    BY <2>3, <2>4, <2>5
<1>10. \E d \in {"ours.dist-info", "other.dist-info"} :
          /\ \A g \in WheelMetadata : <<d, g>> \in f.members
          /\ \A g \in {"LICENSE", "THIRD_PARTY_NOTICES.md"} :
                <<d, g>> \in f.members \/ <<d, "licenses", g>> \in f.members
  <2>1. CheckWheelMetadata(f.members)
    BY <1>6 DEF CheckWheel
  <2>2. FindDistInfo(f.members) \in {"ours.dist-info", "other.dist-info"}
    BY DEF FindDistInfo
  <2> QED
    BY <2>1, <2>2 DEF CheckWheelMetadata, HasDistInfoFile
<1>11. \A g \in ExpectedPackageFiles : g \in f.members
  BY <1>6 DEF CheckWheel
<1> QED
  BY <1>1, <1>4, <1>5, <1>7, <1>9, <1>10, <1>11 DEF GoodWheel, Complete

\* What passes the check of the sdist has everything below one directory.
LEMMA CheckedSDist ==
    ASSUME NEW ms \in SDists, NEW v,
           CheckArtifacts({[kind |-> "sdist", version |-> v, members |-> ms]})
    PROVE  GoodSDistFile([kind |-> "sdist", version |-> v, members |-> ms])
<1> DEFINE f == [kind |-> "sdist", version |-> v, members |-> ms]
           roots == {m[1] : m \in ms}
<1>1. CheckSDist(f)
  BY DEF CheckArtifacts
<1>2. Cardinality(roots) = 1 /\ ExpectedSDistFiles \subseteq {m[2] : m \in ms}
  BY <1>1 DEF CheckSDist
<1>3. IsFiniteSet(roots)
  <2>1. [m \in ms |-> m[1]] \in Surjection(ms, roots)
    BY DEF Surjection
  <2> QED
    BY <2>1, SDistsAssumption, FS_Surjection
<1>4. PICK root : roots = {root}
  BY <1>2, <1>3, FS_Singleton
<1>5. \A m \in ms : m = <<root, m[2]>>
  BY <1>4, SDistsAssumption
<1>6. {root} \X ExpectedSDistFiles \subseteq ms
  BY <1>2, <1>5
<1> QED
  BY <1>4, <1>6 DEF GoodSDistFile

\* The inductive invariant of the files: each artifact has nothing or one good
\* file, and what is uploaded is everything.
LEMMA FilesInductive == FilesSpec => []FilesInv
<1>1. FilesInit => FilesInv
  BY LanesAssumption DEF FilesInit, FilesInv
<1>2. FilesInv /\ [FilesNext]_filesVars => FilesInv'
  <2> SUFFICES ASSUME FilesInv, [FilesNext]_filesVars PROVE FilesInv'
    OBVIOUS
  <2> USE DEF FilesInv
  <2>1. ASSUME NEW j \in Jobs, uploaded = {}, NEW f, GoodFile(j, f), f.version = ProjectVersion,
               JobStores(j, {f})
        PROVE  FilesInv'
    <3>1. ~rehearsal => f.version = <<"version", 0>>
      BY <2>1 DEF ProjectVersion
    <3>2. /\ job' \in [Jobs -> {"todo", "passed", "failed"}]
          /\ stored' = [k \in Jobs |-> stored'[k]] /\ stored'[j] = {f}
          /\ \A k \in Jobs \ {j} : stored'[k] = stored[k] /\ job'[k] = job[k]
      BY <2>1 DEF JobStores
    <3> QED
      BY <2>1, <3>1, <3>2 DEF JobStores
  <2>2. ASSUME NEW j \in Jobs, uploaded = {}, JobFails(j) PROVE FilesInv'
    BY <2>2 DEF JobFails
  <2>3. \A j \in Jobs : job[j] = "todo" => uploaded = {}
    OBVIOUS
  <2>4. ASSUME NEW l \in Lanes, Build(l) PROVE FilesInv'
    <3>1. l \in Jobs /\ l # "sdist" /\ uploaded = {}
      BY <2>3, <2>4, LanesAssumption DEF Jobs, Build
    <3>2. PICK dist \in Outputs[l], stale \in BOOLEAN :
             LET v == IF stale THEN <<"stale", 0>> ELSE ProjectVersion
                 wheels == {[w EXCEPT !.version = v] : w \in dist}
             IN  \/ CheckWheels(l, wheels, ProjectVersion) /\ CheckArtifacts(wheels) /\ JobStores(l, wheels)
                 \/ JobFails(l)
      BY <2>4 DEF Build
    <3> DEFINE v == IF stale THEN <<"stale", 0>> ELSE ProjectVersion
               wheels == {[w EXCEPT !.version = v] : w \in dist}
    <3>3. CASE CheckWheels(l, wheels, ProjectVersion) /\ CheckArtifacts(wheels) /\ JobStores(l, wheels)
      <4>1. PICK f : wheels = {f} /\ GoodWheel(l, f) /\ f.version = ProjectVersion
        <5>1. wheels = WithVersion(dist, v)
          BY DEF WithVersion
        <5> HIDE DEF wheels, v
        <5> QED
          BY <3>3, <5>1, CheckedWheel
      <4>2. JobStores(l, {f})
        BY <3>3, <4>1
      <4> QED
        BY <2>1, <3>1, <4>1, <4>2 DEF GoodFile
    <3>4. CASE JobFails(l)
      BY <2>2, <3>1, <3>4
    <3> QED
      BY <3>2, <3>3, <3>4
  <2>5. CASE BuildSDist
    <3>1. "sdist" \in Jobs /\ uploaded = {}
      BY <2>3, <2>5 DEF Jobs, BuildSDist
    <3>2. PICK ms \in SDists :
             LET file == [kind |-> "sdist", version |-> ProjectVersion, members |-> ms]
             IN  (CheckArtifacts({file}) /\ JobStores("sdist", {file})) \/ JobFails("sdist")
      BY <2>5 DEF BuildSDist
    <3> DEFINE file == [kind |-> "sdist", version |-> ProjectVersion, members |-> ms]
    <3>3. CASE CheckArtifacts({file}) /\ JobStores("sdist", {file})
      <4>1. GoodSDistFile(file) /\ file.version = ProjectVersion
        BY <3>3, CheckedSDist
      <4> HIDE DEF file
      <4> QED
        BY <2>1, <3>1, <3>3, <4>1 DEF GoodFile
    <3>4. CASE JobFails("sdist")
      BY <2>2, <3>1, <3>4
    <3> QED
      BY <3>2, <3>3, <3>4
  <2>6. CASE Publish
    BY <2>6 DEF Publish, CanPublish, Files
  <2>7. CASE RerunFailedJobs
    <3>1. attempt' \in 1..MaxAttempts
      BY <2>7, LanesAssumption DEF RerunFailedJobs
    <3> QED
      BY <2>7, <3>1 DEF RerunFailedJobs
  <2>8. CASE RerunAllJobs
    <3>1. attempt' \in 1..MaxAttempts
      BY <2>8, LanesAssumption DEF RerunAllJobs
    <3> QED
      BY <2>8, <3>1 DEF RerunAllJobs
  <2>9. CASE UNCHANGED filesVars
    BY <2>9 DEF filesVars, Files
  <2> QED
    BY <2>4, <2>5, <2>6, <2>7, <2>8, <2>9 DEF FilesNext
<1> QED
  BY <1>1, <1>2, PTL DEF FilesSpec

\* A release that is uploaded has for every lane the one wheel for its Python and
\* platform and one sdist, all complete and of one version, for any lanes,
\* builds and archives and however often jobs are run again (UploadIsComplete).
THEOREM UploadsAreComplete == FilesSpec => []UploadIsComplete
<1>1. FilesInv => UploadIsComplete
  <2> SUFFICES ASSUME FilesInv, uploaded # {}
               PROVE  /\ Cardinality(uploaded) = Cardinality(Lanes) + 1
                      /\ ~rehearsal => \A f, g \in uploaded : f.version = g.version
                      /\ \A l \in Lanes : \E w \in uploaded : GoodWheel(l, w)
                      /\ \E s \in uploaded : GoodSDistFile(s)
    BY DEF UploadIsComplete, GoodWheel, GoodSDistFile
  <2> USE DEF FilesInv
  <2> DEFINE F == [j \in Jobs |-> CHOOSE f : stored[j] = {f}]
  <2>1. \A j \in Jobs : /\ stored[j] = {F[j]} /\ GoodFile(j, F[j])
                        /\ ~rehearsal => F[j].version = <<"version", 0>>
    OBVIOUS
  <2> HIDE DEF F
  <2>2. uploaded = {F[j] : j \in Jobs}
    BY <2>1 DEF Files
  <2>3. "sdist" \in Jobs /\ \A l \in Lanes : l \in Jobs /\ l # "sdist"
    BY LanesAssumption DEF Jobs
  <2>4. \A j, k \in Jobs : F[j] = F[k] => j = k
    <3>1. \A l \in Lanes : GoodWheel(l, F[l])
      BY <2>1, <2>3 DEF GoodFile
    <3>2. \A l, m \in Lanes : F[l] = F[m] => l = m
      <4> SUFFICES ASSUME NEW l \in Lanes, NEW m \in Lanes, F[l] = F[m] PROVE l = m
        OBVIOUS
      <4>1. /\ F[l].python = {PythonOf[l]} /\ F[l].python = {PythonOf[m]}
            /\ PlatformOf[m] \in F[l].platform
        BY <3>1 DEF GoodWheel
      <4> QED
        BY <3>1, <4>1 DEF GoodWheel
    <3>3. F["sdist"].kind = "sdist" /\ \A l \in Lanes : F[l].kind = "wheel"
      BY <2>1, <2>3, <3>1 DEF GoodFile, GoodSDistFile, GoodWheel
    <3> QED
      BY <3>2, <3>3 DEF Jobs
  <2>5. IsFiniteSet(Jobs) /\ Cardinality(Jobs) = Cardinality(Lanes) + 1
    BY LanesAssumption, FS_AddElement DEF Jobs
  <2>6. Cardinality(uploaded) = Cardinality(Jobs)
    <3>1. F = [j \in Jobs |-> F[j]]
      BY DEF F
    <3>2. F \in [Jobs -> uploaded]
      BY <2>2, <3>1
    <3>3. \A f \in uploaded : \E j \in Jobs : F[j] = f
      BY <2>2
    <3>4. F \in Bijection(Jobs, uploaded)
      BY <3>2, <3>3, <2>4 DEF Bijection, Injection, IsInjective, Surjection
    <3>5. ExistsBijection(Jobs, uploaded)
      BY <3>4 DEF ExistsBijection
    <3> QED
      BY <2>5, <3>5, FS_Bijection
  <2> QED
    BY <2>1, <2>2, <2>3, <2>5, <2>6 DEF GoodFile
<1> QED
  BY <1>1, FilesInductive, PTL

-----------------------------------------------------------------------------
(***************************************************************************)
(* MCScripts: the types of every script, one of which runs at a time.      *)
(***************************************************************************)
\* The report is of a version up to now, and the pull request says nothing of it
\* exactly if it says nothing.
BodyInv ==
    /\ scan.report.version <= version
    /\ scan.body = "none" <=> ~scan.report.blocking /\ scan.report.new = {}

\* The scan keeps it.
LEMMA BodyInductive == ScanSpec => []BodyInv
<1>1. ScanInit => BodyInv
  BY DEF ScanInit, NoScan, BodyInv
<1>2. ScanInv /\ BodyInv /\ [ScanNext]_scanVars => BodyInv'
  <2> SUFFICES ASSUME ScanInv, BodyInv, [ScanNext]_scanVars PROVE BodyInv'
    OBVIOUS
  <2>0. version \in Nat /\ 1 <= version /\ scan.report.version \in Nat
    BY VersionsAssumption DEF ScanInv, ScanTypes, ScanRecord, Versions
  <2>1. CASE StartScan
    <3>1. CASE Required \subseteq Functions
      <4>1. /\ scan'.report.version = version /\ version' = version
            /\ scan'.body = PrBody(CompareSurface) /\ scan'.report = CompareSurface
        BY <2>1, <3>1 DEF StartScan, CompareSurface
      <4>2. CompareSurface.blocking \in BOOLEAN
        BY DEF CompareSurface, Blocking
      <4> HIDE DEF CompareSurface
      <4> QED
        BY <2>0, <4>1, <4>2 DEF BodyInv, PrBody
    <3>2. CASE ~(Required \subseteq Functions)
      BY <2>0, <2>1, <3>2 DEF StartScan, NoScan, BodyInv
    <3> QED
      BY <3>1, <3>2
  <2>2. CASE WriteDoc \/ WriteChangelog \/ NothingNew \/ Crash
    <3>1. scan'.report = scan.report /\ scan'.body = scan.body /\ version' = version
      BY <2>2 DEF WriteDoc, WriteChangelog, NothingNew, Crash, ScanInv, ScanTypes, ScanRecord
    <3> QED
      BY <3>1 DEF BodyInv
  <2>3. CASE Triage \/ UNCHANGED scanVars
    BY <2>3 DEF Triage, scanVars, BodyInv
  <2>4. CASE NextRelease
    BY <2>0, <2>4 DEF NextRelease, NoScan, BodyInv
  <2> QED
    BY <2>1, <2>2, <2>3, <2>4 DEF ScanNext
<1> QED
  BY <1>1, <1>2, ScanInductive, PTL DEF ScanSpec

\* The types of the scan, the files and the overrides, from their invariants.
LEMMA ScanTyped == ScanSpec => []ScanTypeOK
<1>1. ScanInv /\ BodyInv => ScanTypeOK
  <2> SUFFICES ASSUME ScanInv, BodyInv PROVE ScanTypeOK
    OBVIOUS
  <2>1. \A d \in Docs : \A i \in DOMAIN sections[d] :
          sections[d][i].version \in Versions /\ sections[d][i].new \in SUBSET (ItemNames \X ItemNames)
    BY SectionTypes DEF ScanInv, NamePairs
  <2>2. scan \in ScanRecord /\ scan.report.version \in 1..version
    BY VersionsAssumption DEF ScanInv, ScanTypes, BodyInv, ScanRecord, Versions
  <2> QED
    BY <2>1, <2>2 DEF ScanInv, ScanTypes, BodyInv, ScanRecord, ScanTypeOK
<1> QED
  BY <1>1, BodyInductive, ScanInductive, PTL

LEMMA FilesTyped == FilesSpec => []FilesTypeOK
<1>1. FilesInv => FilesTypeOK
  BY DEF FilesInv, FilesTypeOK, GoodFile, GoodWheel, GoodSDistFile
<1> QED
  BY <1>1, FilesInductive, PTL

LEMMA OverridesTyped == OverrideSpec => []OverrideTypeOK
  BY OverridesInductive, PTL DEF OverridesInv

\* Whichever script a behaviour is of, its variables have their types (TypeOK of
\* MCScripts, for every value of its constants).
THEOREM ScriptsTyped == Spec => []TypeOK
<1> USE DEF Scripts
<1>0. Spec => [](script \in Scripts)
  <2>1. Init => script \in Scripts
    BY DEF Init
  <2>2. script \in Scripts /\ [Next]_allVars => (script \in Scripts)'
    BY DEF Next, allVars
  <2> QED
    BY <2>1, <2>2, PTL DEF Spec
<1>1. Spec => [](script = "classifier" => ClassifierTypeOK)
  <2>1. Init => ClassifierInit
    BY DEF Init
  <2>2. script = "classifier" /\ [Next]_allVars => [ClassifierNext]_classifierVars
    BY DEF Next, allVars, classifierOnly, classifierVars
  <2>3. ClassifierInv => ClassifierTypeOK
    BY DEF ClassifierInv
  <2>4. script = "classifier" /\ [Next]_allVars => (script = "classifier")'
    BY DEF Next, allVars
  <2>5. ~(script = "classifier") /\ [Next]_allVars => ~(script = "classifier")'
    BY DEF Next, allVars
  <2> QED
    BY <2>1, <2>2, <2>3, <2>4, <2>5, ClassifierInductive, PTL DEF Spec, ClassifierSpec
<1>2. Spec => [](script = "notices" => NoticeTypeOK)
  <2>1. Init => NoticeInit
    BY DEF Init
  <2>2. script = "notices" /\ [Next]_allVars => [NoticeNext]_noticeVars
    BY DEF Next, allVars, noticeOnly, noticeVars
  <2>3. NoticeInv => NoticeTypeOK
    BY DEF NoticeInv
  <2>4. script = "notices" /\ [Next]_allVars => (script = "notices")'
    BY DEF Next, allVars
  <2>5. ~(script = "notices") /\ [Next]_allVars => ~(script = "notices")'
    BY DEF Next, allVars
  <2> QED
    BY <2>1, <2>2, <2>3, <2>4, <2>5, NoticeInductive, PTL DEF Spec, NoticeSpec
<1>3. Spec => [](script = "actions" => ActionsTypeOK)
  <2>1. Init => ActionsInit
    BY DEF Init
  <2>2. script = "actions" /\ [Next]_allVars => [ActionsNext]_actionsVars
    BY DEF Next, allVars
  <2>3. RefreshInv => ActionsTypeOK
    BY DEF RefreshInv
  <2>4. script = "actions" /\ [Next]_allVars => (script = "actions")'
    BY DEF Next, allVars
  <2>5. ~(script = "actions") /\ [Next]_allVars => ~(script = "actions")'
    BY DEF Next, allVars
  <2> QED
    BY <2>1, <2>2, <2>3, <2>4, <2>5, RefreshInductive, PTL DEF Spec, ActionsSpec
<1>4. Spec => [](script = "scan" => ScanTypeOK)
  <2>1. Init => ScanInit
    BY DEF Init
  <2>2. script = "scan" /\ [Next]_allVars => [ScanNext]_scanVars
    BY DEF Next, allVars
  <2>4. script = "scan" /\ [Next]_allVars => (script = "scan")'
    BY DEF Next, allVars
  <2>5. ~(script = "scan") /\ [Next]_allVars => ~(script = "scan")'
    BY DEF Next, allVars
  <2> QED
    BY <2>1, <2>2, <2>4, <2>5, ScanTyped, PTL DEF Spec, ScanSpec
<1>5. Spec => [](script = "overrides" => OverrideTypeOK)
  <2>1. Init => OverrideInit
    BY DEF Init
  <2>2. script = "overrides" /\ [Next]_allVars => [OverrideNext]_overrideVars
    BY DEF Next, allVars
  <2>4. script = "overrides" /\ [Next]_allVars => (script = "overrides")'
    BY DEF Next, allVars
  <2>5. ~(script = "overrides") /\ [Next]_allVars => ~(script = "overrides")'
    BY DEF Next, allVars
  <2> QED
    BY <2>1, <2>2, <2>4, <2>5, OverridesTyped, PTL DEF Spec, OverrideSpec
<1>6. Spec => [](script = "files" => FilesTypeOK)
  <2>1. Init => FilesInit
    BY DEF Init
  <2>2. script = "files" /\ [Next]_allVars => [FilesNext]_filesVars
    BY DEF Next, allVars
  <2>4. script = "files" /\ [Next]_allVars => (script = "files")'
    BY DEF Next, allVars
  <2>5. ~(script = "files") /\ [Next]_allVars => ~(script = "files")'
    BY DEF Next, allVars
  <2> QED
    BY <2>1, <2>2, <2>4, <2>5, FilesTyped, PTL DEF Spec, FilesSpec
<1> QED
  BY <1>0, <1>1, <1>2, <1>3, <1>4, <1>5, <1>6, PTL DEF TypeOK
=============================================================================
