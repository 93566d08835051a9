-------------------------- MODULE UpstreamBump_proofs --------------------------
(***************************************************************************)
(* How the wrapper follows upstream. Runs of the bump script, for any      *)
(* number of releases, of post releases and of failed runs: what a bump    *)
(* has written by the time of each step. Then the pull request that the    *)
(* workflow makes of a bump, for any releases, faults and commits.         *)
(***************************************************************************)
EXTENDS BumpUpstream, UpstreamBumpPR, FiniteSetTheorems, TLAPS

\* BumpUpstream: the script.


AfterBegin == {"pyproject", "cargo", "cargo_lock", "uv_lock", "note"}

\* What the run has done so far, whether or not earlier runs have failed.
Progress ==
    /\ package = pin
    /\ step \in AfterBegin => bumpTo = target
    /\ step \in AfterBegin \ {"pyproject"} => project = <<target, 0>>
    /\ step \in {"cargo_lock", "uv_lock", "note"} => pin = target
    /\ step \in {"uv_lock", "note"} => cargoLock = target
    /\ step = "note" => uvLock = project
    /\ step = "post_pyproject" => project[2] < MaxPost

\* What no run has left half done, if none has failed.
Unfailed ==
    failures = 0 =>
        /\ step \in {"idle", "resolve", "crate", "post_pyproject"} => FilesAgree
        /\ step = "pyproject" => project[1] = pin /\ target # pin
        /\ step = "post_uv_lock" =>
              /\ project[1] = pin /\ cargoLock = pin /\ bumpTo = pin
              /\ <<pin, 0>> \in notes

BumpInv == TypeOK /\ Progress /\ Unfailed

-----------------------------------------------------------------------------

\* The invariant holds of a tree on which nothing was run.
LEMMA InitBumpInv == Init => BumpInv
  BY BumpUpstreamAssumption
     DEF Init, BumpInv, TypeOK, Progress, Unfailed, FilesAgree, Upstream, Wrapper, AfterBegin

\* Each action, on the types.
LEMMA StepTypeOK == TypeOK /\ Progress /\ [Next]_vars => TypeOK'
  <1> SUFFICES ASSUME TypeOK, Progress, [Next]_vars PROVE TypeOK'
    OBVIOUS
  <1> USE BumpUpstreamAssumption
      DEF TypeOK, Upstream, Wrapper, Steps, world, files, Goto
  <1>1. CASE UpstreamReleases
    BY <1>1 DEF UpstreamReleases
  <1>2. CASE CrateIndexed
    BY <1>2 DEF CrateIndexed
  <1>3. CASE Bump
    BY <1>3 DEF Bump
  <1>4. ASSUME NEW v \in Upstream, BumpTo(v) PROVE TypeOK'
    BY <1>4 DEF BumpTo
  <1>5. CASE WrapperPost
    BY <1>5 DEF WrapperPost
  <1>6. CASE Resolve
    BY <1>6 DEF Resolve
  <1>7. CASE RetryLater
    BY <1>7 DEF RetryLater
  <1>8. CASE AlreadyPins
    BY <1>8 DEF AlreadyPins
  <1>9. CASE BeginFiles
    BY <1>9 DEF BeginFiles
  <1>10. CASE UpdatePyproject
    BY <1>10 DEF UpdatePyproject
  <1>11. CASE UpdateCargo
    BY <1>11 DEF UpdateCargo
  <1>12. CASE UpdateCargoLock
    BY <1>12 DEF UpdateCargoLock
  <1>13. CASE UpdateUvLock
    BY <1>13 DEF UpdateUvLock
  <1>14. CASE AppendNote
    BY <1>14 DEF AppendNote
  <1>15. CASE UpdatePostPyproject
    BY <1>15 DEF UpdatePostPyproject, NextPost, Progress
  <1>16. CASE Fail
    BY <1>16 DEF Fail
  <1>17. CASE UNCHANGED vars
    BY <1>17 DEF vars
  <1> QED
    BY <1>1, <1>2, <1>3, <1>4, <1>5, <1>6, <1>7, <1>8, <1>9, <1>10, <1>11, <1>12,
       <1>13, <1>14, <1>15, <1>16, <1>17 DEF Next, Proceed

\* Each action, on what the run has written.
LEMMA StepProgress == TypeOK /\ Progress /\ [Next]_vars => Progress'
  <1> SUFFICES ASSUME TypeOK, Progress, [Next]_vars PROVE Progress'
    OBVIOUS
  <1> USE DEF TypeOK, Wrapper, Progress, AfterBegin, world, files, Goto
  <1>1. CASE UpstreamReleases
    BY <1>1 DEF UpstreamReleases
  <1>2. CASE CrateIndexed
    BY <1>2 DEF CrateIndexed
  <1>3. CASE Bump
    BY <1>3 DEF Bump
  <1>4. ASSUME NEW v \in Upstream, BumpTo(v) PROVE Progress'
    BY <1>4 DEF BumpTo
  <1>5. CASE WrapperPost
    BY <1>5 DEF WrapperPost
  <1>6. CASE Resolve
    BY <1>6 DEF Resolve
  <1>7. CASE RetryLater
    BY <1>7 DEF RetryLater
  <1>8. CASE AlreadyPins
    BY <1>8 DEF AlreadyPins
  <1>9. CASE BeginFiles
    BY <1>9 DEF BeginFiles
  <1>10. CASE UpdatePyproject
    BY <1>10 DEF UpdatePyproject
  <1>11. CASE UpdateCargo
    BY <1>11 DEF UpdateCargo
  <1>12. CASE UpdateCargoLock
    BY <1>12 DEF UpdateCargoLock
  <1>13. CASE UpdateUvLock
    BY <1>13 DEF UpdateUvLock
  <1>14. CASE AppendNote
    BY <1>14 DEF AppendNote
  <1>15. CASE UpdatePostPyproject
    BY <1>15 DEF UpdatePostPyproject, NextPost
  <1>16. CASE Fail
    BY <1>16 DEF Fail
  <1>17. CASE UNCHANGED vars
    BY <1>17 DEF vars
  <1> QED
    BY <1>1, <1>2, <1>3, <1>4, <1>5, <1>6, <1>7, <1>8, <1>9, <1>10, <1>11, <1>12,
       <1>13, <1>14, <1>15, <1>16, <1>17 DEF Next, Proceed

\* Each action, on what an unfailed run leaves behind.
LEMMA StepUnfailed == BumpInv /\ [Next]_vars => Unfailed'
  <1> SUFFICES ASSUME BumpInv, [Next]_vars PROVE Unfailed'
    OBVIOUS
  <1> USE DEF BumpInv, TypeOK, Wrapper, Progress, Unfailed, FilesAgree, AfterBegin,
          world, files, Goto, Pinned
  <1>1. CASE UpstreamReleases
    BY <1>1 DEF UpstreamReleases
  <1>2. CASE CrateIndexed
    BY <1>2 DEF CrateIndexed
  <1>3. CASE Bump
    BY <1>3 DEF Bump
  <1>4. ASSUME NEW v \in Upstream, BumpTo(v) PROVE Unfailed'
    BY <1>4 DEF BumpTo
  <1>5. CASE WrapperPost
    BY <1>5 DEF WrapperPost
  <1>6. CASE Resolve
    BY <1>6 DEF Resolve
  <1>7. CASE RetryLater
    BY <1>7 DEF RetryLater
  <1>8. CASE AlreadyPins
    BY <1>8 DEF AlreadyPins
  <1>9. CASE BeginFiles
    BY <1>9 DEF BeginFiles
  <1>10. CASE UpdatePyproject
    BY <1>10 DEF UpdatePyproject
  <1>11. CASE UpdateCargo
    BY <1>11 DEF UpdateCargo
  <1>12. CASE UpdateCargoLock
    BY <1>12 DEF UpdateCargoLock
  <1>13. CASE UpdateUvLock
    BY <1>13 DEF UpdateUvLock
  <1>14. CASE AppendNote
    BY <1>14 DEF AppendNote
  <1>15. CASE UpdatePostPyproject
    BY <1>15 DEF UpdatePostPyproject, NextPost
  <1>16. CASE Fail
    BY <1>16 DEF Fail
  <1>17. CASE UNCHANGED vars
    BY <1>17 DEF vars
  <1> QED
    BY <1>1, <1>2, <1>3, <1>4, <1>5, <1>6, <1>7, <1>8, <1>9, <1>10, <1>11, <1>12,
       <1>13, <1>14, <1>15, <1>16, <1>17 DEF Next, Proceed

\* And so in every behaviour.
LEMMA AlwaysBumpInv == Spec => []BumpInv
  <1>1. BumpInv /\ [Next]_vars => BumpInv'
    BY StepTypeOK, StepProgress, StepUnfailed DEF BumpInv
  <1> QED
    BY InitBumpInv, <1>1, PTL DEF Spec
-----------------------------------------------------------------------------

\* The types, and that neither target nor pin runs ahead of upstream.
THEOREM TypeCorrect == Spec => []TypeOK
  BY AlwaysBumpInv, PTL DEF BumpInv

\* However many bumps and post releases are run, if none fails the files of the
\* tree agree whenever no run is under way.
THEOREM UnfailedRunsAlwaysAgree == Spec => []UnfailedRunsAgree
  <1>1. BumpInv => UnfailedRunsAgree
    BY DEF BumpInv, Unfailed, UnfailedRunsAgree
  <1> QED
    BY AlwaysBumpInv, <1>1, PTL

\* However many runs have failed before, a release is announced last.
THEOREM AnnouncedLast == Spec => AnnouncedTreesAgree
  <1>1. BumpInv /\ [Next]_vars => [notes' # notes => FilesAgree']_vars
    <2> SUFFICES ASSUME BumpInv, Next, notes' # notes PROVE FilesAgree'
      OBVIOUS
    <2>1. AppendNote
      BY DEF Next, Proceed, UpstreamReleases, CrateIndexed, Bump, BumpTo, WrapperPost,
             Resolve, RetryLater, AlreadyPins, BeginFiles, UpdatePyproject, UpdateCargo,
             UpdateCargoLock, UpdateUvLock, UpdatePostPyproject, Fail, files
    <2> QED
      BY <2>1 DEF AppendNote, BumpInv, TypeOK, Progress, AfterBegin, FilesAgree
  <1> QED
    BY AlwaysBumpInv, <1>1, PTL DEF Spec, AnnouncedTreesAgree

\* Without failed runs, a post release is only followed by a later one, or by
\* another version.
THEOREM PostReleasesAlwaysStand == Spec => PostReleasesStand
  <1> DEFINE Stand == failures = 0 /\ project'[1] = project[1] => project'[2] >= project[2]
  <1>1. BumpInv /\ [Next]_vars => [Stand]_vars
    <2> SUFFICES ASSUME BumpInv, Next PROVE Stand
      OBVIOUS
    <2>1. CASE UpdatePyproject
      BY <2>1 DEF UpdatePyproject, BumpInv, Unfailed
    <2>2. CASE UpdatePostPyproject
      BY <2>2 DEF UpdatePostPyproject, NextPost, BumpInv, TypeOK, Wrapper
    <2>3. CASE UNCHANGED project
      BY <2>3 DEF BumpInv, TypeOK, Wrapper
    <2> QED
      BY <2>1, <2>2, <2>3
         DEF Next, Proceed, UpstreamReleases, CrateIndexed, Bump, BumpTo, WrapperPost,
             Resolve, RetryLater, AlreadyPins, BeginFiles, UpdateCargo, UpdateCargoLock,
             UpdateUvLock, AppendNote, Fail, files
  <1> QED
    BY AlwaysBumpInv, <1>1, PTL DEF Spec, PostReleasesStand

-----------------------------------------------------------------------------
\* UpstreamBumpPR: the pull request.


\* Nothing is of a release that is still to come, and what a run works on is of
\* a release.
ReleasedInv ==
    /\ main.version <= released /\ pr.tree.version <= released
    /\ \A s \in Slots :
          /\ run[s].work.version <= released
          /\ run[s].stage # "idle" => run[s].work.version \in Versions

\* A run, and the branch that it publishes, change no more of what it checked out
\* than the version, to one that works.
CleanInv ==
    /\ main.version \notin Breaking
    /\ \A s \in Slots :
          run[s].work.commits = run[s].seen.commits /\ run[s].work.version \notin Breaking
    /\ pr.open => pr.tree.commits = pr.seen.commits /\ pr.tree.version \notin Breaking

\* Until a run publishes, its version is not older than what is or may get on main.
WorkInv ==
    \A s \in Slots :
        run[s].stage = "prepared" =>
            /\ main.version <= run[s].work.version
            /\ pr.open => pr.tree.version <= run[s].work.version

\* Nor is a branch older than what it started from.
BumpBranchInv == pr.open => pr.base.version <= pr.tree.version

\* As long as the pull request that a run has published is open and no other run
\* has pushed over its head, the head is the one that the run has pushed, looked at
\* and waited for.
HeadInv ==
    \A s \in Slots :
        run[s].current =>
            /\ pr.open
            /\ pr.by = {s} =>
                  /\ pr.tree = run[s].work
                  /\ run[s].stage = "waiting" => run[s].sha = Head
                  /\ run[s].stage = "waited" => pr.checks["wheels"].result = "passed"

\* The runs that have found no open issue of a version, and are about to create one.
Creating(v) == {s \in Slots : run[s].stage = "looked" /\ ~run[s].found /\ run[s].work.version = v}

\* Open issues and those about to be created are of different runs.
OpenInv == \A v \in Versions : issues[v].open + Cardinality(Creating(v)) <= Cardinality(Slots)

\* A version has had the issue that its run has found, and the one that it has left.
HadInv ==
    \A s \in Slots : \A v \in Versions :
        run[s].work.version = v =>
            /\ run[s].stage = "looked" /\ run[s].found => issues[v].open + issues[v].closed > 0
            /\ run[s].stage \in {"upserted", "waiting", "waited"} =>
                  issues[v].open + issues[v].closed > 0

IssueInv == OpenInv /\ HadInv

\* No two runs of the workflow overlap.
OneAtATime == \A s, t \in Slots : s = t

BumpPRInv == BumpPRTypeOK /\ ReleasedInv /\ CleanInv /\ WorkInv /\ BumpBranchInv

OverlapInv == BumpPRTypeOK /\ ReleasedInv /\ HeadInv /\ IssueInv

-----------------------------------------------------------------------------
LEMMA NothingYet ==
    /\ Unbumped \in Trees /\ NoRun \in BumpRun /\ NoPR \in BumpPullRequest
    /\ ~NoPR.open /\ ~NoPR.auto /\ ~NoRun.current /\ NoRun.stage = "idle"
    /\ NoRun.work = Unbumped /\ NoRun.seen = Unbumped /\ NoPR.tree = Unbumped /\ Unbumped.version = 0
BY VersionsAssumption
   DEF Unbumped, NoRun, NoPR, Unchecked, Trees, BumpRun, BumpPullRequest, CheckState, Workflows

\* What the steps of a run make of its record.
Carried(x, y) == y.work = x.work /\ y.seen = x.seen /\ y.current = x.current

-----------------------------------------------------------------------------
\* The steps of a run, read field by field. Another run keeps its record.
Alone(s) == run' \in [Slots -> BumpRun] /\ \A t \in Slots : t # s => run'[t] = run[t]

\* When the pull request is gone, no run has its number any more.
AllDetached ==
    /\ run' \in [Slots -> BumpRun]
    /\ \A t \in Slots : ~run'[t].current /\ run'[t].work = run[t].work /\ run'[t].seen = run[t].seen

LEMMA RunAssigned ==
    ASSUME BumpPRTypeOK, NEW s \in Slots, NEW new \in BumpRun, run' = [run EXCEPT ![s] = new]
    PROVE  Alone(s) /\ run'[s] = new
BY DEF BumpPRTypeOK, Alone

LEMMA DetachedFields ==
    ASSUME BumpPRTypeOK
    PROVE  /\ Detached \in [Slots -> BumpRun]
           /\ \A t \in Slots :
                 /\ ~Detached[t].current /\ Detached[t].work = run[t].work /\ Detached[t].seen = run[t].seen
                 /\ Detached[t].stage = run[t].stage /\ Detached[t].found = run[t].found
<1> DEFINE d(t) == [run[t] EXCEPT !.current = FALSE]
<1>1. ASSUME NEW t \in Slots
      PROVE  /\ d(t) \in BumpRun /\ ~d(t).current /\ d(t).work = run[t].work /\ d(t).seen = run[t].seen
             /\ d(t).stage = run[t].stage /\ d(t).found = run[t].found
  <2>1. run[t] \in BumpRun
    BY DEF BumpPRTypeOK
  <2>2. QED
    BY <2>1 DEF BumpRun
<1>2. Detached = [t \in Slots |-> d(t)]
  BY DEF Detached
<1> HIDE DEF d
<1>3. QED
  BY <1>1, <1>2

LEMMA PrepareFields ==
    ASSUME NEW s \in Slots, Prepare(s), BumpPRTypeOK
    PROVE  /\ Alone(s) /\ UNCHANGED <<main, released, onCratesIO, pr, issues, faults>>
           /\ run'[s].stage = "prepared" /\ ~run'[s].current
           /\ run'[s].seen = main /\ run'[s].work = [main EXCEPT !.version = released]
           /\ run'[s].work \in Trees /\ run'[s].work.version = released
           /\ run'[s].work.commits = main.commits
           /\ run'[s].work # main /\ released \notin Breaking
<1> DEFINE work == [main EXCEPT !.version = released]
           new  == [NoRun EXCEPT !.stage = "prepared", !.seen = main, !.work = work]
<1>1. /\ run' = [run EXCEPT ![s] = new] /\ Prepared(work)
      /\ UNCHANGED <<main, released, onCratesIO, pr, issues, faults>>
  BY DEF Prepare
<1>2. work \in Trees /\ work.version = released /\ work.commits = main.commits /\ main \in Trees
  BY DEF Trees, BumpPRTypeOK
<1> HIDE DEF work
<1>3. /\ new \in BumpRun /\ new.work = work /\ new.seen = main /\ ~new.current
      /\ new.stage = "prepared"
  BY <1>2, NothingYet DEF BumpRun, NoRun
<1> HIDE DEF new
<1>4. Alone(s) /\ run'[s] = new
  BY <1>1, <1>3, RunAssigned
<1>5. QED
  BY <1>1, <1>2, <1>3, <1>4 DEF Prepared, work

\* A publication pushes, leaves the pull request as it is, or closes it.
Pushed(s) ==
    pr' = [NoPR EXCEPT !.open = TRUE, !.base = main, !.tree = run[s].work, !.by = {s},
                       !.seen = run[s].seen, !.auto = pr.auto]

LEMMA PublishFields ==
    ASSUME NEW s \in Slots, Publish(s), BumpPRTypeOK
    PROVE  /\ UNCHANGED <<main, released, onCratesIO, issues, faults>>
           /\ run[s].stage = "prepared" /\ run'[s].stage = "published"
           /\ \/ /\ Alone(s) /\ run'[s].current
                 /\ run'[s].work = run[s].work /\ run'[s].seen = run[s].seen
                 /\ Pushed(s) \/ (pr' = pr /\ pr.open /\ pr.tree = run[s].work)
              \/ /\ AllDetached /\ pr' = NoPR
                 /\ \A t \in Slots : t # s => run'[t].stage = run[t].stage /\ run'[t].found = run[t].found
<1> DEFINE tree == run[s].work
           pushes == tree # main /\ (pr.open => pr.tree # tree)
           one(x, b, c) == [x EXCEPT !.stage = "published", !.pushed = b, !.current = c]
<1>0. /\ UNCHANGED <<main, released, onCratesIO, issues, faults>>
      /\ run[s].stage = "prepared"
  BY DEF Publish
<1>1. CASE tree = main
  <2>1. pr' = NoPR
    BY <1>1 DEF Publish
  <2>2. run' = [Detached EXCEPT ![s] = one(Detached[s], FALSE, FALSE)]
    BY <1>1 DEF Publish
  <2>3. /\ one(Detached[s], FALSE, FALSE) \in BumpRun /\ ~one(Detached[s], FALSE, FALSE).current
        /\ one(Detached[s], FALSE, FALSE).work = run[s].work
        /\ one(Detached[s], FALSE, FALSE).seen = run[s].seen
        /\ one(Detached[s], FALSE, FALSE).stage = "published"
    BY DetachedFields DEF BumpRun
  <2> HIDE DEF one
  <2>4. AllDetached /\ run'[s].stage = "published"
        /\ \A t \in Slots : t # s => run'[t].stage = run[t].stage /\ run'[t].found = run[t].found
    BY <2>2, <2>3, DetachedFields DEF AllDetached
  <2>5. QED
    BY <1>0, <2>1, <2>4
<1>2. CASE tree # main
  <2>1. pushes \in BOOLEAN /\ run' = [run EXCEPT ![s] = one(run[s], pushes, TRUE)]
    BY <1>2 DEF Publish
  <2>2. Pushed(s) \/ (pr' = pr /\ pr.open /\ pr.tree = run[s].work)
    <3>1. CASE pushes
      BY <3>1 DEF Publish, Pushed
    <3>2. CASE ~pushes
      BY <1>2, <3>2 DEF Publish, BumpPRTypeOK, BumpPullRequest
    <3>3. QED
      BY <3>1, <3>2
  <2> HIDE DEF pushes
  <2>3. /\ one(run[s], pushes, TRUE) \in BumpRun /\ one(run[s], pushes, TRUE).current
        /\ one(run[s], pushes, TRUE).work = run[s].work
        /\ one(run[s], pushes, TRUE).seen = run[s].seen
        /\ one(run[s], pushes, TRUE).stage = "published"
    BY <2>1 DEF BumpRun, BumpPRTypeOK
  <2> HIDE DEF one
  <2>4. /\ Alone(s) /\ run'[s].current /\ run'[s].stage = "published"
        /\ run'[s].work = run[s].work /\ run'[s].seen = run[s].seen
    BY <2>1, <2>3, RunAssigned
  <2>5. QED
    BY <1>0, <2>2, <2>4
<1>3. QED
  BY <1>1, <1>2

\* The steps in between: what they have looked at, they write down.
LEMMA LookFields ==
    ASSUME NEW s \in Slots, LookForIssue(s), BumpPRTypeOK
    PROVE  /\ Alone(s) /\ Carried(run[s], run'[s]) /\ run'[s].stage = "looked"
           /\ run'[s].found = FindSurfaceIssue(run[s].work.version) /\ run[s].stage = "published"
           /\ UNCHANGED <<main, released, onCratesIO, pr, issues, faults>>
<1> DEFINE new == [run[s] EXCEPT !.stage = "looked", !.found = FindSurfaceIssue(run[s].work.version)]
<1>1. FindSurfaceIssue(run[s].work.version) \in BOOLEAN
  BY DEF FindSurfaceIssue
<1>2. /\ new \in BumpRun /\ Carried(run[s], new) /\ new.stage = "looked"
      /\ new.found = FindSurfaceIssue(run[s].work.version)
  BY <1>1 DEF BumpPRTypeOK, BumpRun, Carried
<1>3. run' = [run EXCEPT ![s] = new]
  BY DEF LookForIssue
<1> HIDE DEF new
<1>4. QED
  BY <1>2, <1>3, RunAssigned DEF LookForIssue

LEMMA UpsertFields ==
    ASSUME NEW s \in Slots, UpsertIssue(s), BumpPRTypeOK
    PROVE  /\ Alone(s) /\ issues' = Upserted(s) /\ run[s].stage = "looked"
           /\ \/ run'[s].stage = "upserted" /\ Carried(run[s], run'[s])
              \/ run'[s] = NoRun
           /\ UNCHANGED <<main, released, onCratesIO, pr, faults>>
<1> DEFINE new == IF run[s].pushed THEN [run[s] EXCEPT !.stage = "upserted"] ELSE NoRun
<1>1. /\ new \in BumpRun
      /\ (new.stage = "upserted" /\ Carried(run[s], new)) \/ new = NoRun
  BY NothingYet DEF BumpPRTypeOK, BumpRun, Carried
<1>2. run' = [run EXCEPT ![s] = new]
  BY DEF UpsertIssue
<1> HIDE DEF new
<1>3. QED
  BY <1>1, <1>2, RunAssigned DEF UpsertIssue

LEMMA ReadFields ==
    ASSUME NEW s \in Slots, ReadHead(s), BumpPRTypeOK
    PROVE  /\ Alone(s) /\ Carried(run[s], run'[s]) /\ run'[s].stage = "waiting" /\ run'[s].sha = Head
           /\ run[s].stage = "upserted"
           /\ UNCHANGED <<main, released, onCratesIO, pr, issues, faults>>
<1> DEFINE new == [run[s] EXCEPT !.stage = "waiting", !.sha = Head]
<1>1. Head \in Trees \X Trees
  BY DEF BumpPRTypeOK, Head, BumpPullRequest
<1>2. /\ new \in BumpRun /\ Carried(run[s], new) /\ new.stage = "waiting" /\ new.sha = Head
  BY <1>1 DEF BumpPRTypeOK, BumpRun, Carried
<1>3. run' = [run EXCEPT ![s] = new]
  BY DEF ReadHead
<1> HIDE DEF new
<1>4. QED
  BY <1>2, <1>3, RunAssigned DEF ReadHead

LEMMA WaitFields ==
    ASSUME NEW s \in Slots, WaitPasses(s), BumpPRTypeOK
    PROVE  /\ Alone(s) /\ Carried(run[s], run'[s]) /\ run'[s].stage = "waited"
           /\ run[s].stage = "waiting" /\ "passed" \in Waited(s)
           /\ UNCHANGED <<main, released, onCratesIO, pr, issues, faults>>
<1> DEFINE new == [run[s] EXCEPT !.stage = "waited"]
<1>1. /\ new \in BumpRun /\ Carried(run[s], new) /\ new.stage = "waited"
  BY DEF BumpPRTypeOK, BumpRun, Carried
<1>2. run' = [run EXCEPT ![s] = new]
  BY DEF WaitPasses
<1> HIDE DEF new
<1>3. QED
  BY <1>1, <1>2, RunAssigned DEF WaitPasses

LEMMA EndFields ==
    ASSUME NEW s \in Slots, RunFails(s) \/ EnableAutoMerge(s), BumpPRTypeOK
    PROVE  /\ Alone(s) /\ run'[s] = NoRun
           /\ UNCHANGED <<main, released, onCratesIO, issues, faults>>
           /\ \/ pr' = pr
              \/ /\ EnableAutoMerge(s) /\ run[s].stage = "waited" /\ run[s].current
                 /\ pr' = [pr EXCEPT !.auto = TRUE]
<1>1. run' = [run EXCEPT ![s] = NoRun]
  BY DEF RunFails, WaitFails, StepFails, Fails, EnableAutoMerge
<1>2. Alone(s) /\ run'[s] = NoRun
  BY <1>1, NothingYet, RunAssigned
<1>3. QED
  BY <1>2 DEF RunFails, WaitFails, StepFails, Fails, EnableAutoMerge

\* What a merge does.
LEMMA MergeFields ==
    ASSUME Merge, BumpPRTypeOK
    PROVE  /\ main' \in Trees /\ main'.version = pr.tree.version
           /\ main.version \in {pr.base.version, pr.tree.version}
           /\ main.commits \ main'.commits \subseteq pr.base.commits \ pr.tree.commits
           /\ pr' = NoPR /\ run' = Detached
           /\ UNCHANGED <<released, onCratesIO, issues, faults>>
BY DEF Merge, Mergeable, BumpPRTypeOK, BumpPullRequest, Trees

-----------------------------------------------------------------------------
\* Types, and that nothing is of a release to come, whether or not runs overlap.
LEMMA BumpPRTypeStep ==
    BumpPRTypeOK /\ ReleasedInv /\ [BumpPRNext]_bumpPRVars => BumpPRTypeOK' /\ ReleasedInv'
<1> SUFFICES ASSUME BumpPRTypeOK, ReleasedInv, [BumpPRNext]_bumpPRVars
             PROVE  BumpPRTypeOK' /\ ReleasedInv'
  OBVIOUS
<1>0. /\ main.version \in Nat /\ pr.tree.version \in Nat /\ released \in Nat
      /\ \A s \in Slots : run[s] \in BumpRun /\ run[s].work \in Trees /\ run[s].work.version \in Nat
  BY VersionsAssumption DEF BumpPRTypeOK, Trees, BumpPullRequest, BumpRun
\* A step of a run that leaves the pull request open, or as it was.
<1>1. ASSUME NEW s \in Slots, Alone(s), UNCHANGED <<main, released, onCratesIO, faults>>,
             pr' \in BumpPullRequest, pr'.open \/ pr' = pr,
             pr'.tree.version \in {pr.tree.version, run[s].work.version},
             run'[s].current => pr'.open,
             run'[s].work.version <= released,
             run'[s].stage # "idle" => run'[s].work.version \in Versions,
             issues' \in [Versions -> [open : Nat, closed : 0..MaxClosed]]
      PROVE  BumpPRTypeOK' /\ ReleasedInv'
  BY <1>0, <1>1 DEF BumpPRTypeOK, ReleasedInv, Alone
<1>2. ASSUME NEW s \in Slots, Prepare(s) PROVE BumpPRTypeOK' /\ ReleasedInv'
  <2>1. released \in Versions
    <3>1. CASE released = 0
      <4>1. main.version = 0
        BY <1>0, <3>1 DEF ReleasedInv
      <4>2. [main EXCEPT !.version = released] = main
        BY <3>1, <4>1 DEF BumpPRTypeOK, Trees
      <4>3. QED
        BY <1>2, <4>2, PrepareFields
    <3>2. QED
      BY <3>1, VersionsAssumption DEF Versions, BumpPRTypeOK
  <2>2. QED
    BY <1>0, <1>1, <1>2, <2>1, PrepareFields DEF BumpPRTypeOK, ReleasedInv
<1>3. ASSUME NEW s \in Slots, Publish(s) PROVE BumpPRTypeOK' /\ ReleasedInv'
  <2>1. CASE Pushed(s) /\ Alone(s) /\ run'[s].work = run[s].work
    <3>1. /\ pr' \in BumpPullRequest /\ pr'.open /\ pr'.tree = run[s].work
      BY <1>0, <2>1, NothingYet DEF Pushed, BumpPullRequest, BumpRun, NoPR, BumpPRTypeOK
    <3>2. QED
      BY <1>0, <1>1, <1>3, <2>1, <3>1, PublishFields DEF BumpPRTypeOK, ReleasedInv
  <2>2. CASE pr' = pr /\ pr.open /\ Alone(s) /\ run'[s].work = run[s].work
    BY <1>0, <1>1, <1>3, <2>2, PublishFields DEF BumpPRTypeOK, ReleasedInv
  <2>3. CASE AllDetached /\ pr' = NoPR /\ \A t \in Slots : t # s => run'[t].stage = run[t].stage
    BY <1>0, <1>3, <2>3, PublishFields, NothingYet DEF BumpPRTypeOK, ReleasedInv, AllDetached
  <2>4. QED
    BY <1>3, <2>1, <2>2, <2>3, PublishFields
<1>4. ASSUME NEW s \in Slots, LookForIssue(s) \/ ReadHead(s) \/ WaitPasses(s)
      PROVE  BumpPRTypeOK' /\ ReleasedInv'
  BY <1>0, <1>1, <1>4, LookFields, ReadFields, WaitFields DEF BumpPRTypeOK, ReleasedInv, Carried
<1>5. ASSUME NEW s \in Slots, UpsertIssue(s) PROVE BumpPRTypeOK' /\ ReleasedInv'
  <2>1. issues' \in [Versions -> [open : Nat, closed : 0..MaxClosed]]
    <3>1. issues' = issues \/ issues' = [issues EXCEPT ![run[s].work.version].open = @ + 1]
      BY <1>5, UpsertFields DEF Upserted
    <3>2. QED
      BY <3>1 DEF BumpPRTypeOK
  <2>2. QED
    BY <1>0, <1>1, <1>5, <2>1, UpsertFields, NothingYet DEF BumpPRTypeOK, ReleasedInv, Carried
<1>6. ASSUME NEW s \in Slots, RunFails(s) \/ EnableAutoMerge(s) PROVE BumpPRTypeOK' /\ ReleasedInv'
  <2>1. \/ pr' = pr
        \/ pr' \in BumpPullRequest /\ pr'.tree = pr.tree /\ pr'.open
    BY <1>6, EndFields DEF BumpPRTypeOK, BumpPullRequest
  <2>2. QED
    BY <1>0, <1>1, <1>6, <2>1, EndFields, NothingYet DEF BumpPRTypeOK, ReleasedInv
<1>7. ASSUME NEW w \in Workflows, CheckEnds(w) \/ RetryFailedCheck(w)
      PROVE  BumpPRTypeOK' /\ ReleasedInv'
  <2>1. UNCHANGED <<main, released, onCratesIO, run, issues, faults>> /\ pr.open
    BY <1>7 DEF CheckEnds, RetryFailedCheck
  <2>2. pr' \in BumpPullRequest /\ pr'.tree = pr.tree /\ pr'.open
    <3>1. PICK c : pr' = [pr EXCEPT !.checks[w] = c] /\ c \in CheckState
      BY <1>7 DEF CheckEnds, RetryFailedCheck, BumpPullRequest, CheckState, BumpPRTypeOK
    <3>2. QED
      BY <2>1, <3>1 DEF BumpPullRequest, BumpPRTypeOK
  <2>3. QED
    BY <1>0, <2>1, <2>2 DEF BumpPRTypeOK, ReleasedInv
<1>8. CASE AutoMerge \/ ManualMerge
  <2>1. /\ main' \in Trees /\ main'.version = pr.tree.version /\ pr' = NoPR /\ run' = Detached
        /\ UNCHANGED <<released, onCratesIO, issues, faults>>
    BY <1>8, MergeFields DEF AutoMerge, ManualMerge
  <2>2. QED
    BY <1>0, <2>1, DetachedFields, NothingYet DEF BumpPRTypeOK, ReleasedInv
<1>9. CASE Release \/ Index
  BY <1>0, <1>9, VersionsAssumption DEF Release, Index, BumpPRTypeOK, ReleasedInv
<1>10. ASSUME NEW c \in Commits, Land(c) PROVE BumpPRTypeOK' /\ ReleasedInv'
  BY <1>10 DEF Land, Trees, BumpPRTypeOK, ReleasedInv
<1>11. ASSUME NEW v \in Versions, CloseIssue(v) PROVE BumpPRTypeOK' /\ ReleasedInv'
  BY <1>11, VersionsAssumption DEF CloseIssue, BumpPRTypeOK, ReleasedInv
<1>12. CASE UNCHANGED bumpPRVars
  BY <1>12 DEF bumpPRVars, BumpPRTypeOK, ReleasedInv
<1>13. QED
  BY <1>2, <1>3, <1>4, <1>5, <1>6, <1>7, <1>8, <1>9, <1>10, <1>11, <1>12 DEF BumpPRNext, Step

-----------------------------------------------------------------------------
\* What a run has prepared it pushes as it is, whoever runs besides.
LEMMA CleanStep ==
    ASSUME BumpPRTypeOK, CleanInv, [BumpPRNext]_bumpPRVars
    PROVE  CleanInv'
<1>0. 0 \notin Breaking
  BY VersionsAssumption DEF Versions
<1>1. ASSUME NEW s \in Slots, Prepare(s) PROVE CleanInv'
  BY <1>1, PrepareFields DEF CleanInv, Alone
<1>2. ASSUME NEW s \in Slots, Publish(s) PROVE CleanInv'
  <2>1. CASE Pushed(s) /\ Alone(s) /\ run'[s].work = run[s].work /\ run'[s].seen = run[s].seen
    <3>1. pr'.tree = run[s].work /\ pr'.seen = run[s].seen
      BY <2>1 DEF Pushed, NoPR
    <3>2. QED
      BY <1>2, <2>1, <3>1, PublishFields DEF CleanInv, Alone
  <2>2. CASE pr' = pr /\ Alone(s) /\ run'[s].work = run[s].work /\ run'[s].seen = run[s].seen
    BY <1>2, <2>2, PublishFields DEF CleanInv, Alone
  <2>3. CASE AllDetached /\ pr' = NoPR
    BY <1>2, <2>3, PublishFields, NothingYet DEF CleanInv, AllDetached
  <2>4. QED
    BY <1>2, <2>1, <2>2, <2>3, PublishFields
<1>3. ASSUME NEW s \in Slots, LookForIssue(s) \/ ReadHead(s) \/ WaitPasses(s) \/ UpsertIssue(s)
      PROVE  CleanInv'
  BY <1>0, <1>3, LookFields, ReadFields, WaitFields, UpsertFields, NothingYet DEF CleanInv, Alone, Carried
<1>4. ASSUME NEW s \in Slots, RunFails(s) \/ EnableAutoMerge(s) PROVE CleanInv'
  <2>1. pr'.open = pr.open /\ pr'.tree = pr.tree /\ pr'.seen = pr.seen
    BY <1>4, EndFields DEF BumpPRTypeOK, BumpPullRequest
  <2>2. QED
    BY <1>0, <1>4, <2>1, EndFields, NothingYet DEF CleanInv, Alone
<1>5. ASSUME NEW w \in Workflows, CheckEnds(w) \/ RetryFailedCheck(w) PROVE CleanInv'
  <2>1. pr'.open = pr.open /\ pr'.tree = pr.tree /\ pr'.seen = pr.seen /\ UNCHANGED <<main, run>>
    BY <1>5 DEF CheckEnds, RetryFailedCheck, BumpPRTypeOK, BumpPullRequest
  <2>2. QED
    BY <2>1 DEF CleanInv
<1>6. CASE AutoMerge \/ ManualMerge
  <2>1. pr.open /\ main'.version = pr.tree.version /\ pr' = NoPR /\ run' = Detached
    BY <1>6, MergeFields DEF AutoMerge, ManualMerge
  <2>2. QED
    BY <2>1, DetachedFields, NothingYet DEF CleanInv
<1>7. ASSUME NEW c \in Commits, Land(c) PROVE CleanInv'
  <2>1. main'.version = main.version /\ UNCHANGED <<run, pr>>
    BY <1>7 DEF Land, BumpPRTypeOK, Trees
  <2>2. QED
    BY <2>1 DEF CleanInv
<1>8. CASE UNCHANGED <<main, run, pr>>
  BY <1>8 DEF CleanInv
<1>9. QED
  BY <1>1, <1>2, <1>3, <1>4, <1>5, <1>6, <1>7, <1>8
     DEF BumpPRNext, Step, Release, Index, CloseIssue, bumpPRVars

\* A run that has prepared is newer than all that is on main or may be merged
\* before it publishes, and it is the only one to publish meanwhile.
LEMMA WorkStep ==
    ASSUME OneAtATime, BumpPRTypeOK, ReleasedInv, WorkInv, BumpBranchInv, [BumpPRNext]_bumpPRVars
    PROVE  WorkInv' /\ BumpBranchInv'
<1>0. /\ main.version \in Nat /\ pr.tree.version \in Nat /\ released \in Nat
      /\ \A s \in Slots : run[s].work.version \in Nat
  BY VersionsAssumption DEF BumpPRTypeOK, Trees, BumpPullRequest, BumpRun, Versions
<1>1. ASSUME NEW s \in Slots, Prepare(s) PROVE WorkInv' /\ BumpBranchInv'
  BY <1>0, <1>1, PrepareFields DEF OneAtATime, WorkInv, BumpBranchInv, ReleasedInv, Alone
<1>2. ASSUME NEW s \in Slots, Publish(s) PROVE WorkInv' /\ BumpBranchInv'
  <2>1. CASE Pushed(s) /\ Alone(s) /\ run'[s].work = run[s].work
    <3>1. /\ pr'.base = main /\ pr'.tree = run[s].work /\ pr'.open
      BY <2>1 DEF Pushed, NoPR
    <3>2. QED
      BY <1>2, <2>1, <3>1, PublishFields DEF OneAtATime, WorkInv, BumpBranchInv, Alone
  <2>2. CASE pr' = pr /\ Alone(s) /\ run'[s].work = run[s].work
    BY <1>2, <2>2, PublishFields DEF OneAtATime, WorkInv, BumpBranchInv, Alone
  <2>3. CASE AllDetached /\ pr' = NoPR
    BY <1>2, <2>3, PublishFields, NothingYet DEF OneAtATime, WorkInv, BumpBranchInv, AllDetached
  <2>4. QED
    BY <1>2, <2>1, <2>2, <2>3, PublishFields
<1>3. ASSUME NEW s \in Slots, LookForIssue(s) \/ ReadHead(s) \/ WaitPasses(s) \/ UpsertIssue(s)
      PROVE  WorkInv' /\ BumpBranchInv'
  BY <1>0, <1>3, LookFields, ReadFields, WaitFields, UpsertFields, NothingYet
     DEF OneAtATime, WorkInv, BumpBranchInv, Alone, Carried
<1>4. ASSUME NEW s \in Slots, RunFails(s) \/ EnableAutoMerge(s) PROVE WorkInv' /\ BumpBranchInv'
  <2>1. /\ pr'.open = pr.open /\ pr'.tree = pr.tree /\ pr'.base = pr.base
    BY <1>4, EndFields DEF BumpPRTypeOK, BumpPullRequest
  <2>2. QED
    BY <1>0, <1>4, <2>1, EndFields, NothingYet DEF OneAtATime, WorkInv, BumpBranchInv, Alone
<1>5. ASSUME NEW w \in Workflows, CheckEnds(w) \/ RetryFailedCheck(w) PROVE WorkInv' /\ BumpBranchInv'
  <2>1. /\ pr'.open = pr.open /\ pr'.tree = pr.tree /\ pr'.base = pr.base
        /\ UNCHANGED <<main, run>>
    BY <1>5 DEF CheckEnds, RetryFailedCheck, BumpPRTypeOK, BumpPullRequest
  <2>2. QED
    BY <2>1 DEF WorkInv, BumpBranchInv
<1>6. CASE AutoMerge \/ ManualMerge
  <2>1. /\ pr.open /\ main'.version = pr.tree.version /\ pr' = NoPR /\ run' = Detached
    BY <1>6, MergeFields DEF AutoMerge, ManualMerge
  <2>2. QED
    BY <1>0, <2>1, DetachedFields, NothingYet DEF WorkInv, BumpBranchInv
<1>7. ASSUME NEW c \in Commits, Land(c) PROVE WorkInv' /\ BumpBranchInv'
  <2>1. main'.version = main.version /\ UNCHANGED <<run, pr>>
    BY <1>7 DEF Land, BumpPRTypeOK, Trees
  <2>2. QED
    BY <2>1 DEF WorkInv, BumpBranchInv
<1>8. CASE UNCHANGED <<main, run, pr>>
  BY <1>8 DEF WorkInv, BumpBranchInv
<1>9. QED
  BY <1>1, <1>2, <1>3, <1>4, <1>5, <1>6, <1>7, <1>8
     DEF BumpPRNext, Step, Release, Index, CloseIssue, bumpPRVars

\* What a run has read of its head still holds when it turns auto-merge on, unless
\* another run has pushed: whoever pushes is the one that the head is of.
LEMMA HeadStep ==
    ASSUME BumpPRTypeOK, HeadInv, [BumpPRNext]_bumpPRVars
    PROVE  HeadInv'
<1>1. ASSUME NEW s \in Slots, Prepare(s) PROVE HeadInv'
  BY <1>1, PrepareFields DEF HeadInv, Alone, Head
<1>2. ASSUME NEW s \in Slots, Publish(s) PROVE HeadInv'
  <2>1. CASE Pushed(s) /\ Alone(s) /\ run'[s].work = run[s].work
    <3>1. pr'.open /\ pr'.tree = run[s].work /\ pr'.by = {s}
      BY <2>1 DEF Pushed, NoPR
    <3>2. \A t \in Slots : {t} = {s} => t = s
      OBVIOUS
    <3>3. QED
      BY <1>2, <2>1, <3>1, <3>2, PublishFields DEF HeadInv
  <2>2. CASE Alone(s) /\ pr' = pr /\ pr.open /\ pr.tree = run[s].work /\ run'[s].work = run[s].work
    BY <1>2, <2>2, PublishFields DEF HeadInv, Alone, Head
  <2>3. CASE AllDetached
    BY <2>3 DEF HeadInv, AllDetached
  <2>4. QED
    BY <1>2, <2>1, <2>2, <2>3, PublishFields
<1>3. ASSUME NEW s \in Slots, LookForIssue(s) \/ UpsertIssue(s) PROVE HeadInv'
  BY <1>3, LookFields, UpsertFields, NothingYet DEF HeadInv, Alone, Carried, Head
<1>4. ASSUME NEW s \in Slots, ReadHead(s) PROVE HeadInv'
  BY <1>4, ReadFields DEF HeadInv, Alone, Carried, Head
<1>5. ASSUME NEW s \in Slots, WaitPasses(s) PROVE HeadInv'
  <2>1. run[s].current /\ pr.by = {s} => pr.checks["wheels"].result = "passed"
    BY <1>5, WaitFields DEF HeadInv, Waited
  <2>2. QED
    BY <1>5, <2>1, WaitFields DEF HeadInv, Alone, Carried, Head
<1>6. ASSUME NEW s \in Slots, RunFails(s) \/ EnableAutoMerge(s) PROVE HeadInv'
  <2>1. /\ pr'.open = pr.open /\ pr'.tree = pr.tree /\ pr'.base = pr.base /\ pr'.by = pr.by
        /\ pr'.checks = pr.checks
    BY <1>6, EndFields DEF BumpPRTypeOK, BumpPullRequest
  <2>2. QED
    BY <1>6, <2>1, EndFields, NothingYet DEF HeadInv, Alone, Head
<1>7. ASSUME NEW w \in Workflows, CheckEnds(w) \/ RetryFailedCheck(w) PROVE HeadInv'
  <2>1. /\ pr'.open = pr.open /\ pr'.tree = pr.tree /\ pr'.base = pr.base /\ pr'.by = pr.by /\ run' = run
        /\ pr.checks["wheels"].result = "passed" => pr'.checks["wheels"].result = "passed"
    <3>1. PICK c : pr' = [pr EXCEPT !.checks[w] = c]
      BY <1>7 DEF CheckEnds, RetryFailedCheck, BumpPRTypeOK, BumpPullRequest, CheckState
    <3>2. pr.checks[w].result # "passed" /\ run' = run
      BY <1>7 DEF CheckEnds, RetryFailedCheck
    <3>3. QED
      BY <3>1, <3>2 DEF BumpPRTypeOK, BumpPullRequest, Workflows
  <2>2. Head' = Head
    BY <2>1 DEF Head
  <2>3. QED
    BY <2>1, <2>2 DEF HeadInv
<1>8. CASE AutoMerge \/ ManualMerge
  BY <1>8, MergeFields, DetachedFields DEF AutoMerge, ManualMerge, HeadInv
<1>9. CASE UNCHANGED <<run, pr>>
  BY <1>9 DEF HeadInv, Head
<1>10. QED
  BY <1>1, <1>2, <1>3, <1>4, <1>5, <1>6, <1>7, <1>8, <1>9
     DEF BumpPRNext, Step, Release, Index, Land, CloseIssue, bumpPRVars

\* A step leaves the issues alone, creates one, or closes one.
LEMMA IssueMoves ==
    ASSUME BumpPRTypeOK, ReleasedInv, [BumpPRNext]_bumpPRVars
    PROVE  \/ issues' = issues
           \/ \E s \in Slots : \E v \in {run[s].work.version} :
                 /\ UpsertIssue(s) /\ ~run[s].found /\ v \in Versions
                 /\ issues'[v].open = issues[v].open + 1 /\ issues'[v].closed = issues[v].closed
                 /\ \A u \in Versions : u # v => issues'[u] = issues[u]
           \/ \E v \in Versions :
                 /\ CloseIssue(v) /\ run' = run
                 /\ issues'[v].open = issues[v].open - 1 /\ issues'[v].closed = issues[v].closed + 1
                 /\ \A u \in Versions : u # v => issues'[u] = issues[u]
<1>1. ASSUME NEW s \in Slots, UpsertIssue(s), ~run[s].found
      PROVE  \E v \in {run[s].work.version} :
                 /\ v \in Versions
                 /\ issues'[v].open = issues[v].open + 1 /\ issues'[v].closed = issues[v].closed
                 /\ \A u \in Versions : u # v => issues'[u] = issues[u]
  <2>1. run[s].work.version \in Versions /\ issues' = Upserted(s)
    BY <1>1, UpsertFields DEF ReleasedInv
  <2>2. QED
    BY <1>1, <2>1 DEF Upserted, BumpPRTypeOK
<1>2. ASSUME NEW s \in Slots, UpsertIssue(s), run[s].found PROVE issues' = issues
  BY <1>2 DEF UpsertIssue, Upserted
<1>3. ASSUME NEW v \in Versions, CloseIssue(v)
      PROVE  /\ run' = run
             /\ issues'[v].open = issues[v].open - 1 /\ issues'[v].closed = issues[v].closed + 1
             /\ \A u \in Versions : u # v => issues'[u] = issues[u]
  BY <1>3 DEF CloseIssue, BumpPRTypeOK
<1>4. CASE AutoMerge \/ ManualMerge
  BY <1>4 DEF AutoMerge, ManualMerge, Merge
<1>5. QED
  BY <1>1, <1>2, <1>3, <1>4
     DEF BumpPRNext, Step, RunFails, WaitFails, StepFails, Fails, Prepare, Publish, LookForIssue,
         ReadHead, WaitPasses, EnableAutoMerge, CheckEnds, RetryFailedCheck, Release, Index, Land, bumpPRVars

\* Issues are closed, never forgotten.
LEMMA IssuesAreKept ==
    ASSUME BumpPRTypeOK, ReleasedInv, [BumpPRNext]_bumpPRVars, NEW v \in Versions,
           issues[v].open + issues[v].closed > 0
    PROVE  issues'[v].open + issues'[v].closed > 0
<1>1. issues[v].open \in Nat /\ issues[v].closed \in Nat
  BY VersionsAssumption DEF BumpPRTypeOK
<1>2. QED
  BY <1>1, IssueMoves

\* What a run has found, or has left, its version has had ever since.
LEMMA HadStep ==
    ASSUME BumpPRTypeOK, ReleasedInv, HadInv, [BumpPRNext]_bumpPRVars
    PROVE  HadInv'
<1>0. \A v \in Versions : issues[v].open \in Nat /\ issues[v].closed \in Nat
  BY VersionsAssumption DEF BumpPRTypeOK
<1>1. ASSUME NEW s \in Slots, Prepare(s) \/ RunFails(s) \/ EnableAutoMerge(s) PROVE HadInv'
  <2>1. issues' = issues /\ run'[s].stage \in {"idle", "prepared"} /\ Alone(s)
    BY <1>1, PrepareFields, EndFields, NothingYet
  <2>2. QED
    BY <2>1 DEF HadInv, Alone
<1>2. ASSUME NEW s \in Slots, Publish(s) PROVE HadInv'
  BY <1>2, PublishFields DEF HadInv, Alone, AllDetached
<1>3. ASSUME NEW s \in Slots, LookForIssue(s) PROVE HadInv'
  <2>1. /\ issues' = issues /\ run'[s].stage = "looked" /\ run'[s].work = run[s].work /\ Alone(s)
        /\ run[s].work.version \in Versions
    BY <1>3, LookFields DEF Carried, ReleasedInv
  <2>2. run'[s].found = (issues[run[s].work.version].open > 0)
    BY <1>3, LookFields DEF FindSurfaceIssue
  <2>3. run'[s].found => issues[run[s].work.version].open > 0
    BY <2>2, Zenon
  <2>4. QED
    BY <1>0, <2>1, <2>3 DEF HadInv, Alone
<1>4. ASSUME NEW s \in Slots, UpsertIssue(s) PROVE HadInv'
  <2>1. /\ Alone(s) /\ run[s].stage = "looked" /\ run[s].work.version \in Versions
        /\ issues' = Upserted(s)
        /\ (run'[s].stage = "upserted" /\ run'[s].work = run[s].work) \/ run'[s] = NoRun
    BY <1>4, UpsertFields DEF ReleasedInv, Carried
  <2>2. issues'[run[s].work.version].open + issues'[run[s].work.version].closed > 0
    <3>1. CASE run[s].found
      BY <2>1, <3>1 DEF HadInv, Upserted
    <3>2. CASE ~run[s].found
      BY <1>0, <2>1, <3>2 DEF Upserted, BumpPRTypeOK
    <3>3. QED
      BY <3>1, <3>2
  <2>3. QED
    BY <2>1, <2>2, IssuesAreKept, NothingYet DEF HadInv, Alone
<1>5. ASSUME NEW s \in Slots, ReadHead(s) \/ WaitPasses(s) PROVE HadInv'
  BY <1>5, ReadFields, WaitFields DEF HadInv, Alone, Carried
<1>6. ASSUME NEW v \in Versions, CloseIssue(v) PROVE HadInv'
  BY <1>6, IssuesAreKept DEF HadInv, CloseIssue
<1>7. CASE AutoMerge \/ ManualMerge
  BY <1>7, MergeFields, DetachedFields DEF AutoMerge, ManualMerge, HadInv
<1>8. CASE UNCHANGED <<run, issues>>
  BY <1>8 DEF HadInv
<1>9. QED
  BY <1>1, <1>2, <1>3, <1>4, <1>5, <1>6, <1>7, <1>8
     DEF BumpPRNext, Step, Release, Index, Land, CheckEnds, RetryFailedCheck, bumpPRVars

\* An issue is created by a run that found none open, and each run creates one.
LEMMA OpenStep ==
    ASSUME BumpPRTypeOK, ReleasedInv, OpenInv, [BumpPRNext]_bumpPRVars
    PROVE  OpenInv'
<1>0. /\ \A v \in Versions : issues[v].open \in Nat /\ issues'[v].open \in Nat
      /\ Cardinality(Slots) \in Nat
      /\ \A v \in Versions : Creating(v) \subseteq Slots /\ Creating(v)' \subseteq Slots
      /\ \A T \in SUBSET Slots : IsFiniteSet(T) /\ Cardinality(T) \in Nat
                                 /\ Cardinality(T) <= Cardinality(Slots)
  <2>1. \A v \in Versions : issues[v].open \in Nat /\ issues'[v].open \in Nat
    BY BumpPRTypeStep DEF BumpPRTypeOK
  <2>2. \A v \in Versions : Creating(v) \subseteq Slots /\ Creating(v)' \subseteq Slots
    BY DEF Creating
  <2>3. QED
    BY <2>1, <2>2, VersionsAssumption, FS_Subset, FS_CardinalityType
\* A step after which no more is open or about to be created.
<1>1. ASSUME \A v \in Versions : Creating(v)' \subseteq Creating(v) /\ issues'[v].open <= issues[v].open
      PROVE  OpenInv'
  <2>1. \A v \in Versions : Cardinality(Creating(v)') <= Cardinality(Creating(v))
    BY <1>0, <1>1, FS_Subset
  <2>2. QED
    BY <1>0, <1>1, <2>1 DEF OpenInv
<1>2. ASSUME NEW s \in Slots, Prepare(s) \/ RunFails(s) \/ EnableAutoMerge(s) \/ ReadHead(s) \/ WaitPasses(s)
      PROVE  OpenInv'
  <2>1. issues' = issues /\ run'[s].stage # "looked" /\ Alone(s)
    BY <1>2, PrepareFields, EndFields, ReadFields, WaitFields, NothingYet
  <2>2. QED
    BY <1>0, <1>1, <2>1 DEF Creating, Alone
<1>3. ASSUME NEW s \in Slots, Publish(s) PROVE OpenInv'
  <2>1. /\ issues' = issues /\ run'[s].stage = "published"
        /\ \A t \in Slots : t # s => /\ run'[t].stage = run[t].stage /\ run'[t].found = run[t].found
                                     /\ run'[t].work = run[t].work
    BY <1>3, PublishFields DEF Alone, AllDetached
  <2>2. QED
    BY <1>0, <1>1, <2>1 DEF Creating
<1>4. ASSUME NEW s \in Slots, LookForIssue(s) PROVE OpenInv'
  <2>1. /\ issues' = issues /\ Alone(s) /\ run'[s].stage = "looked"
        /\ run'[s].work = run[s].work /\ run[s].work.version \in Versions
    BY <1>4, LookFields DEF Carried, ReleasedInv
  <2>2. ~run'[s].found => issues[run[s].work.version].open = 0
    <3>1. run'[s].found = (issues[run[s].work.version].open > 0)
      BY <1>4, LookFields DEF FindSurfaceIssue
    <3>2. ~run'[s].found => ~(issues[run[s].work.version].open > 0)
      BY <3>1, Zenon
    <3>3. QED
      BY <1>0, <2>1, <3>2
  <2>3. ASSUME NEW v \in Versions
        PROVE  issues'[v].open + Cardinality(Creating(v)') <= Cardinality(Slots)
    <3>1. CASE v = run[s].work.version /\ ~run'[s].found
      BY <1>0, <2>1, <2>2, <3>1
    <3>2. CASE ~(v = run[s].work.version /\ ~run'[s].found)
      <4>1. Creating(v)' \subseteq Creating(v)
        BY <2>1, <3>2 DEF Creating, Alone
      <4>2. Cardinality(Creating(v)') <= Cardinality(Creating(v))
        BY <1>0, <4>1, FS_Subset
      <4>3. QED
        BY <1>0, <2>1, <4>2 DEF OpenInv
    <3>3. QED
      BY <3>1, <3>2
  <2>4. QED
    BY <2>3 DEF OpenInv
<1>5. ASSUME NEW s \in Slots, UpsertIssue(s) PROVE OpenInv'
  <2>1. Alone(s) /\ run[s].stage = "looked" /\ run'[s].stage # "looked"
    BY <1>5, UpsertFields, NothingYet
  <2>2. \A v \in Versions : Creating(v)' \subseteq Creating(v) \ {s}
    BY <2>1 DEF Creating, Alone
  <2>3. CASE run[s].found
    <3>1. issues' = issues
      BY <1>5, <2>3 DEF UpsertIssue, Upserted
    <3>2. QED
      BY <1>0, <1>1, <2>2, <3>1
  <2>4. CASE ~run[s].found
    <3> DEFINE w == run[s].work.version
    <3>1. /\ w \in Versions /\ issues'[w].open = issues[w].open + 1
          /\ \A u \in Versions : u # w => issues'[u] = issues[u]
      <4>1. w \in Versions /\ issues' = [issues EXCEPT ![w].open = @ + 1]
        BY <1>5, <2>1, <2>4 DEF UpsertIssue, Upserted, ReleasedInv
      <4> HIDE DEF w
      <4>2. QED
        BY <4>1 DEF BumpPRTypeOK
    <3>2. s \in Creating(w)
      BY <2>1, <2>4 DEF Creating
    <3> HIDE DEF w
    <3>3. ASSUME NEW v \in Versions
          PROVE  issues'[v].open + Cardinality(Creating(v)') <= Cardinality(Slots)
      <4>1. /\ IsFiniteSet(Creating(v)) /\ IsFiniteSet(Creating(v) \ {s})
            /\ Cardinality(Creating(v) \ {s}) =
                  IF s \in Creating(v) THEN Cardinality(Creating(v)) - 1 ELSE Cardinality(Creating(v))
        BY <1>0, FS_RemoveElement
      <4>2. Cardinality(Creating(v)') <= Cardinality(Creating(v) \ {s})
        BY <2>2, <4>1, FS_Subset
      <4>3. Cardinality(Creating(v)) \in Nat /\ Cardinality(Creating(v)') \in Nat
        BY <1>0
      <4>4. issues[v].open + Cardinality(Creating(v)) <= Cardinality(Slots)
        BY DEF OpenInv
      <4>5. CASE v = w
        BY <1>0, <3>1, <3>2, <4>1, <4>2, <4>3, <4>4, <4>5
      <4>6. CASE v # w
        BY <1>0, <3>1, <4>1, <4>2, <4>3, <4>4, <4>6
      <4>7. QED
        BY <4>5, <4>6
    <3>4. QED
      BY <3>3 DEF OpenInv
  <2>5. QED
    BY <2>3, <2>4
<1>6. ASSUME NEW v \in Versions, CloseIssue(v) PROVE OpenInv'
  <2>1. /\ run' = run /\ issues'[v].open = issues[v].open - 1
        /\ \A u \in Versions : u # v => issues'[u] = issues[u]
    BY <1>6 DEF CloseIssue, BumpPRTypeOK
  <2>2. \A u \in Versions : issues'[u].open <= issues[u].open
    BY <1>0, <2>1
  <2>3. QED
    BY <1>1, <2>1, <2>2 DEF Creating
<1>7. CASE AutoMerge \/ ManualMerge
  <2>1. run' = Detached /\ issues' = issues
    BY <1>7, MergeFields DEF AutoMerge, ManualMerge
  <2>2. QED
    BY <1>0, <1>1, <2>1, DetachedFields DEF Creating
<1>8. CASE UNCHANGED <<run, issues>>
  BY <1>8 DEF OpenInv, Creating
<1>9. QED
  BY <1>2, <1>3, <1>4, <1>5, <1>6, <1>7, <1>8
     DEF BumpPRNext, Step, Release, Index, Land, CheckEnds, RetryFailedCheck, bumpPRVars

-----------------------------------------------------------------------------
LEMMA BumpPRInitially == BumpPRInit => BumpPRInv /\ OverlapInv
<1> SUFFICES ASSUME BumpPRInit PROVE BumpPRInv /\ OverlapInv
  OBVIOUS
<1>1. BumpPRTypeOK
  BY NothingYet, VersionsAssumption DEF BumpPRInit, BumpPRTypeOK
<1>2. 0 \notin Breaking
  BY VersionsAssumption DEF Versions
<1>3. OpenInv
  <2>1. \A v \in Versions : issues[v].open = 0 /\ Creating(v) = {}
    BY NothingYet DEF BumpPRInit, Creating
  <2>2. Cardinality({}) = 0 /\ Cardinality(Slots) \in Nat
    BY FS_EmptySet, FS_CardinalityType, VersionsAssumption
  <2>3. QED
    BY <2>1, <2>2 DEF OpenInv
<1>4. QED
  BY <1>1, <1>2, <1>3, NothingYet
     DEF BumpPRInit, BumpPRInv, OverlapInv, ReleasedInv, CleanInv, WorkInv, BumpBranchInv, HeadInv,
         IssueInv, HadInv

\* BumpPRTypeOK, whether or not runs overlap.
THEOREM BumpPRTyping == BumpPRSpec => []BumpPRTypeOK
<1>1. BumpPRInit => BumpPRTypeOK /\ ReleasedInv
  BY BumpPRInitially DEF BumpPRInv
<1>2. QED
  BY <1>1, BumpPRTypeStep, PTL DEF BumpPRSpec

LEMMA BumpPRInductive == OneAtATime /\ BumpPRSpec => []BumpPRInv
<1> SUFFICES ASSUME OneAtATime PROVE BumpPRSpec => []BumpPRInv
  OBVIOUS
<1>1. BumpPRInv /\ [BumpPRNext]_bumpPRVars => BumpPRInv'
  BY BumpPRTypeStep, CleanStep, WorkStep DEF BumpPRInv
<1>2. QED
  BY <1>1, BumpPRInitially, PTL DEF BumpPRSpec

LEMMA OverlapInductive == BumpPRSpec => []OverlapInv
<1>1. OverlapInv /\ [BumpPRNext]_bumpPRVars => OverlapInv'
  BY BumpPRTypeStep, HeadStep, HadStep, OpenStep DEF OverlapInv, IssueInv
<1>2. QED
  BY <1>1, BumpPRInitially, PTL DEF BumpPRSpec

\* What a merge takes away landed between the two checkouts of the run that
\* pushed, and no broken release gets on main, however many runs overlap.
LEMMA MergeLoses ==
    ASSUME BumpPRTypeOK, CleanInv, [BumpPRNext]_bumpPRVars
    PROVE  /\ main'.version \notin Breaking
           /\ main.commits \ main'.commits \subseteq pr.base.commits \ pr.seen.commits
<1>0. main \in Trees
  BY DEF BumpPRTypeOK
<1>1. CASE AutoMerge \/ ManualMerge
  BY <1>0, <1>1, MergeFields DEF AutoMerge, ManualMerge, CleanInv
<1>2. ASSUME NEW c \in Commits, Land(c)
      PROVE  main'.version = main.version /\ main.commits \subseteq main'.commits
  BY <1>0, <1>2 DEF Land, Trees
<1>3. CASE main' = main \/ \E c \in Commits : Land(c)
  BY <1>0, <1>2, <1>3 DEF CleanInv
<1>4. QED
  BY <1>1, <1>3 DEF BumpPRNext, Step, RunFails, WaitFails, StepFails, Fails, Prepare, Publish,
     LookForIssue, UpsertIssue, ReadHead, WaitPasses, EnableAutoMerge, CheckEnds, RetryFailedCheck,
     Release, Index, CloseIssue, bumpPRVars

\* What is left of MainOnlyGains when runs overlap: a release that breaks the
\* wrapper never gets on main, and a merge takes away only what landed between
\* the two checkouts of the run that pushed (upstream-bump.yml has no concurrency
\* group). Only the order of the versions is lost.
THEOREM OverlapsLoseOnlyUnseen ==
    BumpPRSpec =>
        [][/\ main'.version \notin Breaking
           /\ main.commits \ main'.commits \subseteq pr.base.commits \ pr.seen.commits]_bumpPRVars
<1>1. BumpPRInit => BumpPRTypeOK /\ ReleasedInv /\ CleanInv
  BY BumpPRInitially DEF BumpPRInv
<1>2. QED
  BY <1>1, BumpPRTypeStep, CleanStep, MergeLoses, PTL DEF BumpPRSpec

\* MainOnlyGains: runs that do not overlap never take main back to an older
\* oxipng or to one that breaks the wrapper, and what a merge takes away of the
\* files of a bump landed between the checkout of the run that pushed the branch
\* and its publication; for any releases, faults and commits of people.
THEOREM BumpsOnlyGain == OneAtATime /\ BumpPRSpec => MainOnlyGains
<1> SUFFICES ASSUME OneAtATime PROVE BumpPRSpec => MainOnlyGains
  OBVIOUS
<1>1. BumpPRInv /\ [BumpPRNext]_bumpPRVars =>
        [/\ main'.version >= main.version
         /\ main'.version \notin Breaking
         /\ main.commits \ main'.commits \subseteq pr.base.commits \ pr.seen.commits]_bumpPRVars
  <2> SUFFICES ASSUME BumpPRInv, [BumpPRNext]_bumpPRVars
               PROVE  /\ main'.version >= main.version
                      /\ main'.version \notin Breaking
                      /\ main.commits \ main'.commits \subseteq pr.base.commits \ pr.seen.commits
    OBVIOUS
  <2>0. main \in Trees /\ main.version \in Nat /\ pr.tree.version \in Nat /\ BumpPRTypeOK
    BY VersionsAssumption DEF BumpPRInv, BumpPRTypeOK, BumpPullRequest, Trees
  <2>1. ASSUME AutoMerge \/ ManualMerge PROVE main'.version >= main.version
    BY <2>0, <2>1, MergeFields DEF AutoMerge, ManualMerge, BumpPRInv, BumpBranchInv
  <2>2. ASSUME main' = main \/ \E c \in Commits : Land(c) PROVE main'.version >= main.version
    BY <2>0, <2>2 DEF Land, Trees
  <2>3. main'.version >= main.version
    BY <2>1, <2>2 DEF BumpPRNext, Step, RunFails, WaitFails, StepFails, Fails, Prepare, Publish,
       LookForIssue, UpsertIssue, ReadHead, WaitPasses, EnableAutoMerge, CheckEnds, RetryFailedCheck,
       Release, Index, CloseIssue, bumpPRVars
  <2>4. QED
    BY <2>3, MergeLoses DEF BumpPRInv
<1>2. QED
  BY <1>1, BumpPRInductive, PTL DEF BumpPRSpec, MainOnlyGains

\* EnabledForAGoodHead: the run that turns auto-merge on has left its version with
\* a triage issue, of which no more are open than runs may overlap; and if no other
\* run has pushed since, the head is the one whose wheels it has waited for. For any
\* number of overlapping runs, whatever fails, is retried, merged or closed meanwhile.
THEOREM AutoMergeForGoodHeads == BumpPRSpec => EnabledForAGoodHead
<1> DEFINE Good ==
              \E s \in Slots : \E v \in {run[s].work.version} :
                 /\ run'[s] # run[s] /\ run[s].stage = "waited"
                 /\ issues[v].open + issues[v].closed > 0 /\ issues[v].open <= Cardinality(Slots)
                 /\ pr.by = {s} => pr.tree.version = v /\ pr.checks["wheels"].result = "passed"
<1>1. OverlapInv /\ [BumpPRNext]_bumpPRVars => [~pr.auto /\ pr'.auto => Good]_bumpPRVars
  <2> SUFFICES ASSUME OverlapInv, [BumpPRNext]_bumpPRVars, ~pr.auto, pr'.auto
               PROVE  Good
    OBVIOUS
  <2>0. BumpPRTypeOK /\ pr \in BumpPullRequest
    BY DEF OverlapInv, BumpPRTypeOK
  <2>1. ASSUME NEW s \in Slots, Publish(s) PROVE pr'.auto => pr.auto
    BY <2>1, <2>0, PublishFields, NothingYet DEF Pushed, NoPR
  <2>2. ASSUME NEW w \in Workflows, CheckEnds(w) \/ RetryFailedCheck(w) PROVE pr'.auto = pr.auto
    BY <2>0, <2>2 DEF CheckEnds, RetryFailedCheck, BumpPullRequest
  <2>3. ~(AutoMerge \/ ManualMerge)
    BY NothingYet DEF AutoMerge, ManualMerge, Merge
  <2>4. PICK s \in Slots : EnableAutoMerge(s)
    BY <2>1, <2>2, <2>3 DEF BumpPRNext, Step, RunFails, WaitFails, StepFails, Fails, Prepare,
       LookForIssue, UpsertIssue, ReadHead, WaitPasses, Release, Index, Land, CloseIssue, bumpPRVars
  <2>5. run[s].stage = "waited" /\ run[s].current /\ run'[s] # run[s]
    BY <2>0, <2>4, EndFields, NothingYet DEF EnableAutoMerge
  <2>6. /\ run[s].work.version \in Versions
        /\ pr.by = {s} => pr.tree = run[s].work /\ pr.checks["wheels"].result = "passed"
    BY <2>5 DEF OverlapInv, HeadInv, ReleasedInv
  <2>7. /\ issues[run[s].work.version].open + issues[run[s].work.version].closed > 0
        /\ issues[run[s].work.version].open <= Cardinality(Slots)
    <3>1. /\ issues[run[s].work.version].open \in Nat
          /\ Creating(run[s].work.version) \subseteq Slots
      BY <2>0, <2>6 DEF BumpPRTypeOK, Creating
    <3>2. Cardinality(Creating(run[s].work.version)) \in Nat /\ Cardinality(Slots) \in Nat
      BY <3>1, FS_Subset, FS_CardinalityType, VersionsAssumption
    <3>3. QED
      BY <2>5, <2>6, <3>1, <3>2 DEF OverlapInv, IssueInv, HadInv, OpenInv
  <2>8. QED
    BY <2>5, <2>6, <2>7
<1>2. QED
  BY <1>1, OverlapInductive, PTL DEF BumpPRSpec, EnabledForAGoodHead
=============================================================================
