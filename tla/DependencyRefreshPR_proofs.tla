---------------------- MODULE DependencyRefreshPR_proofs ----------------------
(***************************************************************************)
(* What the pull request of automation/dependency-refresh keeps, for any   *)
(* number of overlapping runs, any updates, commits and files, and however *)
(* pushes, checks, sign-offs and merges interleave.                        *)
(***************************************************************************)
EXTENDS DependencyRefreshPR, FiniteSetTheorems, TLAPS

\* The types, without the bound on the number of pull requests.
TypeInv == Typed(Nat)

\* A prepare job only adds to what it checked out.
RunsOnlyAdd == \A r \in Runs : run[r].base \subseteq run[r].work

\* The branch starts from a tree that main still has all of; what it takes away
\* from it the run that published it had not seen, in files which it replaced.
BranchInv ==
    pr.open =>
        /\ pr.base \subseteq main
        /\ \A c \in pr.base \ pr.tree : c \notin pr.seen /\ PathOf[c] \in pr.files

\* Checks passed on a main that only commits of people have changed since.
ReviewInv ==
    pr.open /\ pr.checks = "passed" =>
        /\ PinsReviewed(Rebased(pr.checkedOn, pr.base, pr.tree))
        /\ pr.checkedOn \subseteq main /\ main \ pr.checkedOn \subseteq Commits

\* A clone takes nothing away that the branch it fetched did not, keeps all that
\* this one had, and started from a main which only the merge of that pull
\* request can have taken anything away from.
CloneInv ==
    clone.busy =>
        /\ clone.base \ clone.tree \subseteq clone.fetched[1] \ clone.fetched[2]
        /\ clone.fetched[2] \subseteq clone.tree
        /\ clone.fetched[3] <= pr.number
        /\ pr.open /\ pr.number = clone.fetched[3] => clone.base \subseteq main

IInv == TypeInv /\ RunsOnlyAdd /\ BranchInv /\ ReviewInv /\ CloneInv

-----------------------------------------------------------------------------
\* Pins and sign-offs are no commits of people.
LEMMA ReviewIsNotLanded == Pins \cap Commits = {} /\ SignOffs \cap Commits = {}
BY ChangesAssumption

\* Rebasing: what a branch takes away from a main that has all of its base, and
\* what of the branch the result has.
LEMMA RebaseKeeps ==
    ASSUME NEW target, NEW from, NEW tree
    PROVE  /\ target \ Rebased(target, from, tree) \subseteq from \ tree
           /\ from \subseteq target => tree \subseteq Rebased(target, from, tree)
BY DEF Rebased

\* The same pins and sign-offs give every line and every entry the same SHA.
LEMMA SameReview ==
    ASSUME NEW t1, NEW t2, Pins \cap t1 = Pins \cap t2, SignOffs \cap t1 = SignOffs \cap t2
    PROVE  \A l \in LinesIn(t1) \cap LinesIn(t2) : l \in Unreviewed(t1) <=> l \in Unreviewed(t2)
<1>1. \A l : Pinned(t1, l) = Pinned(t2, l)
  BY DEF Pinned
<1>2. \A a : Reviewed(t1, a) = Reviewed(t2, a)
  BY DEF Reviewed
<1>3. QED
  BY <1>1, <1>2 DEF Unreviewed

\* A line that one tree has and another lacks comes from a commit between them.
LEMMA NewLine ==
    ASSUME NEW t1, NEW t2, NEW l \in LinesIn(t2) \ LinesIn(t1)
    PROVE  \E c \in Commits \cap (t2 \ t1) : l \in LinesOf[c]
BY DEF LinesIn

\* A commit brings its lines to every tree that it is in, and to no other.
LEMMA LineOfCommit ==
    ASSUME NEW c \in Commits, NEW l \in Lines \cap LinesOf[c], NEW tree
    PROVE  l \in LinesIn(tree) <=> c \in tree
BY ChangesAssumption DEF LinesIn

\* What a publication takes away from main was not in the checkout of its run,
\* and is in a file that the run changed.
LEMMA OverlayTakesOnlyUnseen ==
    ASSUME NEW base, NEW work, base \subseteq work, NEW target,
           NEW c \in target \ Overlay(target, work, ChangedPaths(base, work))
    PROVE  c \notin base /\ PathOf[c] \in ChangedPaths(base, work)
BY DEF Overlay

\* The paths of what two trees differ in are paths of changes.
LEMMA ChangedPathsType ==
    ASSUME NEW t1 \in Tree, NEW t2 \in Tree
    PROVE  ChangedPaths(t1, t2) \subseteq {PathOf[c] : c \in Changes}
BY DEF ChangedPaths, Differing, Tree

LEMMA OverlayType ==
    ASSUME NEW t1 \in Tree, NEW t2 \in Tree, NEW paths
    PROVE  Overlay(t1, t2, paths) \in Tree
BY DEF Overlay, Tree

LEMMA RebasedType ==
    ASSUME NEW t1 \in Tree, NEW t2 \in Tree, NEW t3 \in Tree
    PROVE  Rebased(t1, t2, t3) \in Tree
BY DEF Rebased, Tree

-----------------------------------------------------------------------------
\* What the publish job writes down is of the type of a run.
LEMMA RunTypeKept ==
    ASSUME NEW N, NEW x \in RunType(N), NEW n \in N,
           NEW op \in {"none", "created", "updated", "closed"}
    PROVE  /\ [x EXCEPT !.stage = "done"] \in RunType(N)
           /\ [x EXCEPT !.op = op, !.stage = "published", !.number = n] \in RunType(N)
BY DEF RunType

\* The types hold for any set of numbers with zero in it, as long as a new pull
\* request gets one of them.
LEMMA TypedInit ==
    ASSUME NEW N, 0 \in N, Init
    PROVE  Typed(N)
BY DEF Init, Typed, RunType, NoPR, NoRun, NoClone, Tree

LEMMA TypedStep ==
    ASSUME NEW N, 0 \in N, Typed(N), [Next]_vars,
           \A r \in Runs : Publish(r) => pr'.number \in N
    PROVE  Typed(N)'
<1> USE DEF Typed
<1>1. ASSUME NEW r \in Runs, Prepare(r) PROVE Typed(N)'
  <2> DEFINE work == main \cup ReleasedFor(main)
  <2>1. work \in Tree
    BY DEF ReleasedFor, Tree, Changes
  <2>2. UNCHANGED <<main, released, pr, clone>>
    BY <1>1 DEF Prepare
  <2>3. PICK ci \in BOOLEAN :
          run' = [run EXCEPT ![r] =
                [NoRun EXCEPT !.stage = IF work = main THEN "done" ELSE "prepared",
                              !.base = main, !.work = work, !.ci = ci,
                              !.release = (work \ main) \cap Shipped # {}]]
    BY <1>1 DEF Prepare
  <2> DEFINE new == [NoRun EXCEPT
                !.stage = IF work = main THEN "done" ELSE "prepared",
                !.base = main, !.work = work, !.ci = ci,
                !.release = (work \ main) \cap Shipped # {}]
  <2>4. new \in RunType(N)
    BY <2>1 DEF NoRun, Tree, RunType
  <2>5. run' = [run EXCEPT ![r] = new]
    BY <2>3
  <2> HIDE DEF new
  <2>6. run' \in [Runs -> RunType(N)]
    BY <2>4, <2>5
  <2>7. QED
    BY <2>2, <2>6
<1>2. ASSUME NEW r \in Runs, PrepareFails(r) PROVE Typed(N)'
  BY <1>2, RunTypeKept DEF PrepareFails
<1>3. ASSUME NEW r \in Runs, Publish(r) PROVE Typed(N)'
  <2> DEFINE tree == PublishedTree(r)
             files == ChangedPaths(run[r].base, run[r].work)
             pushed == [pr EXCEPT !.base = main, !.tree = tree, !.seen = run[r].base,
                                  !.files = files, !.checks = "pending", !.checkedOn = {}, !.cleared = Clears(r)]
  <2>0. main \in Tree /\ {} \in Tree
    BY DEF Tree
  <2>1. tree \in Tree /\ files \in SUBSET {PathOf[c] : c \in Changes} /\ Clears(r) \in BOOLEAN
    BY OverlayType, ChangedPathsType DEF PublishedTree, Clears, RunType
  <2>2. pr'.number \in N /\ run[r].base \in Tree
    BY <1>3 DEF RunType
  <2>3. \/ ~pr.open /\ pr' = [pushed EXCEPT !.open = TRUE, !.number = pr.number + 1]
        \/ pr.open /\ pr' = pushed
        \/ pr' = [NoPR EXCEPT !.number = pr.number]
        \/ pr' = pr
    BY <1>3 DEF Publish
  <2> HIDE DEF tree, files
  <2>4. /\ pr' \in [open : BOOLEAN, number : N, base : Tree, tree : Tree, seen : Tree,
                     files : SUBSET {PathOf[c] : c \in Changes}, auto : BOOLEAN,
                     checks : {"pending", "passed", "failed"}, checkedOn : Tree, cleared : BOOLEAN]
        /\ ~pr'.open => pr' = [NoPR EXCEPT !.number = pr'.number]
    <3>1. CASE ~pr.open /\ pr' = [pushed EXCEPT !.open = TRUE, !.number = pr.number + 1]
      BY <3>1, <2>0, <2>1, <2>2
    <3>2. CASE pr.open /\ pr' = pushed
      BY <3>2, <2>0, <2>1, <2>2
    <3>3. CASE pr' = [NoPR EXCEPT !.number = pr.number]
      BY <3>3 DEF NoPR, Tree
    <3>4. CASE pr' = pr
      BY <3>4
    <3>5. QED
      BY <2>3, <3>1, <3>2, <3>3, <3>4
  <2>5. \E op \in {"none", "created", "updated", "closed"} :
           run' = [run EXCEPT ![r].op = op, ![r].stage = "published", ![r].number = pr'.number]
    BY <1>3 DEF Publish
  <2>6. run' \in [Runs -> RunType(N)]
    <3>1. PICK op \in {"none", "created", "updated", "closed"} :
           run' = [run EXCEPT ![r].op = op, ![r].stage = "published", ![r].number = pr'.number]
      BY <2>5
    <3> DEFINE new == [run[r] EXCEPT !.op = op, !.stage = "published", !.number = pr'.number]
    <3>2. new \in RunType(N)
      BY <2>2, RunTypeKept
    <3>3. run' = [run EXCEPT ![r] = new]
      BY <3>1
    <3> HIDE DEF new
    <3>4. QED
      BY <3>2, <3>3
  <2>7. UNCHANGED <<main, released, clone>>
    BY <1>3 DEF Publish
  <2>8. QED
    BY <2>4, <2>6, <2>7
<1>4. ASSUME NEW r \in Runs, EnableAutoMerge(r) PROVE Typed(N)'
  <2>1. [run[r] EXCEPT !.stage = "done"] \in RunType(N)
    BY RunTypeKept
  <2>2. run' = [run EXCEPT ![r] = [run[r] EXCEPT !.stage = "done"]]
    BY <1>4 DEF EnableAutoMerge
  <2>3. run' \in [Runs -> RunType(N)]
    BY <2>1, <2>2
  <2>4. \/ pr' = pr
        \/ pr.open /\ pr' = [pr EXCEPT !.auto = TRUE]
    BY <1>4 DEF EnableAutoMerge
  <2>5. UNCHANGED <<main, released, clone>>
    BY <1>4 DEF EnableAutoMerge
  <2>6. QED
    BY <2>3, <2>4, <2>5
<1>5. CASE ChecksEnd \/ ChecksRerun
  <2>1. \E result \in {"pending", "passed", "failed"}, on \in Tree :
           pr.open /\ pr' \in {[pr EXCEPT !.checks = result],
                               [pr EXCEPT !.checks = result, !.checkedOn = on]}
    <3>1. main \in Tree /\ {} \in Tree
      BY DEF Tree
    <3>2. QED
      BY <1>5, <3>1 DEF ChecksEnd, ChecksRerun
  <2>2. UNCHANGED <<main, released, run, clone>>
    BY <1>5 DEF ChecksEnd, ChecksRerun
  <2>3. QED
    BY <2>1, <2>2
<1>6. CASE AutoMerge \/ ManualMerge
  <2>1. Rebased(main, pr.base, pr.tree) \in Tree
    BY RebasedType
  <2>2. QED
    BY <1>6, <2>1 DEF AutoMerge, ManualMerge, Merge, NoPR, Tree
<1>7. CASE AcceptRefresh
  <2> DEFINE rebased == Rebased(main, pr.base, pr.tree)
             tree == rebased \cup (Pins \cap ReleasedFor(rebased))
                        \cup {x \in SignOffs : \E p \in Pins \cap released : SameRelease(p, x)}
  <2>1. rebased \in Tree
    BY RebasedType
  <2>2. tree \in Tree
    BY <2>1, ChangesAssumption DEF Tree, Changes
  <2>3. clone' = [fetched |-> BranchHead, base |-> main, tree |-> tree, busy |-> TRUE]
    BY <1>7 DEF AcceptRefresh
  <2>4. BranchHead \in Tree \X Tree \X N
    BY DEF BranchHead
  <2>5. UNCHANGED <<main, released, run, pr>>
    BY <1>7 DEF AcceptRefresh
  <2> HIDE DEF tree
  <2>6. QED
    BY <2>2, <2>3, <2>4, <2>5
<1>8. CASE AcceptPush
  <2>1. UNCHANGED <<main, released, run>> /\ clone' = NoClone
    BY <1>8 DEF AcceptPush
  <2>2. NoClone \in [fetched : Tree \X Tree \X N, base : Tree, tree : Tree, busy : BOOLEAN]
    BY DEF NoClone, Tree
  <2>3. \/ pr' = pr
        \/ pr.open /\ pr' = [pr EXCEPT !.base = clone.base, !.tree = clone.tree,
                                     !.checks = "pending", !.checkedOn = {}]
    BY <1>8 DEF AcceptPush
  <2>4. {} \in Tree
    BY DEF Tree
  <2>5. QED
    BY <2>1, <2>2, <2>3, <2>4
<1>9. ASSUME NEW u \in Updates, Release(u) PROVE Typed(N)'
  BY <1>9, ChangesAssumption DEF Release
<1>10. ASSUME NEW c \in Commits, Land(c) PROVE Typed(N)'
  BY <1>10 DEF Land, Tree, Changes
<1>11. CASE UNCHANGED vars
  BY <1>11 DEF vars
<1>12. QED
  BY <1>1, <1>2, <1>3, <1>4, <1>5, <1>6, <1>7, <1>8, <1>9, <1>10, <1>11 DEF Next

-----------------------------------------------------------------------------
\* Nothing but the merge of the pull request takes anything away from main.
LEMMA MainOnlyGrows ==
    ASSUME [Next]_vars, ~(AutoMerge \/ ManualMerge)
    PROVE  main \subseteq main'
BY DEF Next, Prepare, PrepareFails, Publish, EnableAutoMerge, ChecksEnd, ChecksRerun,
       AcceptRefresh, AcceptPush, Release, Land, vars

\* What a publication may do to the pull request.
LEMMA PublishOutcomes ==
    ASSUME NEW r \in Runs, Publish(r)
    PROVE  LET pushed == [pr EXCEPT !.base = main, !.tree = PublishedTree(r), !.seen = run[r].base,
                               !.files = ChangedPaths(run[r].base, run[r].work),
                               !.checks = "pending", !.checkedOn = {}, !.cleared = Clears(r)]
           IN  \/ ~pr.open /\ pr' = [pushed EXCEPT !.open = TRUE, !.number = pr.number + 1]
               \/ pr.open /\ pr' = pushed
               \/ pr' = [NoPR EXCEPT !.number = pr.number]
               \/ pr' = pr
BY DEF Publish

\* A publication numbers the pull request anew only when it opens one.
LEMMA PublishNumbers ==
    ASSUME NEW N, Typed(N), NEW r \in Runs, Publish(r)
    PROVE  pr'.number \in {pr.number, pr.number + 1}
<1>1. pr \in [open : BOOLEAN, number : N, base : Tree, tree : Tree, seen : Tree,
              files : SUBSET {PathOf[c] : c \in Changes}, auto : BOOLEAN,
              checks : {"pending", "passed", "failed"}, checkedOn : Tree, cleared : BOOLEAN]
  BY DEF Typed
<1>2. QED
  BY <1>1, PublishOutcomes DEF NoPR

-----------------------------------------------------------------------------
\* Every run keeps what it checked out.
LEMMA RunsOnlyAddStep == TypeInv /\ RunsOnlyAdd /\ [Next]_vars => RunsOnlyAdd'
<1> SUFFICES ASSUME TypeInv, RunsOnlyAdd, [Next]_vars PROVE RunsOnlyAdd'
  OBVIOUS
<1> USE DEF RunsOnlyAdd
<1>0. run = [r \in Runs |-> run[r]] /\ \A r \in Runs : run[r] \in RunType(Nat)
  BY DEF TypeInv, Typed
<1>1. ASSUME NEW r \in Runs, Prepare(r) PROVE RunsOnlyAdd'
  BY <1>0, <1>1 DEF Prepare, NoRun
<1>2. ASSUME NEW r \in Runs, PrepareFails(r) \/ EnableAutoMerge(r) PROVE RunsOnlyAdd'
  BY <1>0, <1>2 DEF PrepareFails, EnableAutoMerge, RunType
<1>3. ASSUME NEW r \in Runs, Publish(r) PROVE RunsOnlyAdd'
  <2>1. PICK op : run' = [run EXCEPT ![r].op = op, ![r].stage = "published", ![r].number = pr'.number]
    BY <1>3 DEF Publish
  <2>2. QED
    BY <1>0, <2>1 DEF RunType
<1>4. CASE run' = run
  BY <1>4
<1>5. QED
  BY <1>1, <1>2, <1>3, <1>4 DEF Next, ChecksEnd, ChecksRerun, AutoMerge, ManualMerge, Merge,
     AcceptRefresh, AcceptPush, Release, Land, vars

\* A publication lays the refreshed files over main, a sign-off is pushed only on
\* the branch that it was made from: neither takes away more than the run did.
LEMMA BranchInvStep ==
    TypeInv /\ RunsOnlyAdd /\ BranchInv /\ CloneInv /\ [Next]_vars => BranchInv'
<1> SUFFICES ASSUME TypeInv, RunsOnlyAdd, BranchInv, CloneInv, [Next]_vars PROVE BranchInv'
  OBVIOUS
<1> USE DEF BranchInv
<1>0. pr \in [open : BOOLEAN, number : Nat, base : Tree, tree : Tree, seen : Tree,
              files : SUBSET {PathOf[c] : c \in Changes}, auto : BOOLEAN,
              checks : {"pending", "passed", "failed"}, checkedOn : Tree, cleared : BOOLEAN]
  BY DEF TypeInv, Typed
<1>1. ASSUME NEW r \in Runs, Publish(r) PROVE BranchInv'
  <2> DEFINE tree == PublishedTree(r)
             files == ChangedPaths(run[r].base, run[r].work)
             pushed == [pr EXCEPT !.base = main, !.tree = tree, !.seen = run[r].base,
                                  !.files = files, !.checks = "pending", !.checkedOn = {}, !.cleared = Clears(r)]
  <2>1. \A c \in main \ tree : c \notin run[r].base /\ PathOf[c] \in files
    BY OverlayTakesOnlyUnseen DEF PublishedTree, RunsOnlyAdd
  <2>2. main' = main
    BY <1>1 DEF Publish
  <2> HIDE DEF tree, files
  <2>3. CASE ~pr.open /\ pr' = [pushed EXCEPT !.open = TRUE, !.number = pr.number + 1]
    BY <1>0, <2>1, <2>2, <2>3
  <2>4. CASE pr.open /\ pr' = pushed
    BY <1>0, <2>1, <2>2, <2>4
  <2>5. CASE pr' = [NoPR EXCEPT !.number = pr.number]
    BY <2>5 DEF NoPR
  <2>6. CASE pr' = pr
    BY <2>2, <2>6
  <2>7. QED
    BY <1>1, <2>3, <2>4, <2>5, <2>6, PublishOutcomes DEF tree, files
<1>2. CASE ChecksEnd \/ ChecksRerun
  BY <1>0, <1>2 DEF ChecksEnd, ChecksRerun
<1>3. CASE AutoMerge \/ ManualMerge
  BY <1>3 DEF AutoMerge, ManualMerge, Merge, NoPR
<1>4. CASE AcceptPush
  <2>1. CASE pr' = pr
    BY <1>4, <2>1 DEF AcceptPush
  <2>2. CASE /\ pr.open /\ Lease
             /\ pr' = [pr EXCEPT !.base = clone.base, !.tree = clone.tree, !.checks = "pending", !.checkedOn = {}]
    <3>1. clone.fetched = <<pr.base, pr.tree, pr.number>>
      BY <2>2 DEF Lease, BranchHead
    <3>2. clone.base \ clone.tree \subseteq pr.base \ pr.tree /\ clone.base \subseteq main
      BY <1>4, <2>2, <3>1 DEF CloneInv, AcceptPush
    <3>3. main' = main
      BY <1>4 DEF AcceptPush
    <3>4. QED
      BY <1>0, <2>2, <3>2, <3>3
  <2>3. QED
    BY <1>4, <2>1, <2>2 DEF AcceptPush
<1>5. ASSUME NEW r \in Runs, EnableAutoMerge(r) PROVE BranchInv'
  BY <1>0, <1>5 DEF EnableAutoMerge
<1>6. CASE pr' = pr /\ main \subseteq main'
  BY <1>6
<1>7. QED
  BY <1>1, <1>2, <1>3, <1>4, <1>5, <1>6 DEF Next, Prepare, PrepareFails, AcceptRefresh, Release,
     Land, vars

\* Until the pull request ends, main changes by commits of people alone.
LEMMA ReviewInvStep == TypeInv /\ ReviewInv /\ [Next]_vars => ReviewInv'
<1> SUFFICES ASSUME TypeInv, ReviewInv, [Next]_vars PROVE ReviewInv'
  OBVIOUS
<1> USE DEF ReviewInv
<1>0. pr \in [open : BOOLEAN, number : Nat, base : Tree, tree : Tree, seen : Tree,
              files : SUBSET {PathOf[c] : c \in Changes}, auto : BOOLEAN,
              checks : {"pending", "passed", "failed"}, checkedOn : Tree, cleared : BOOLEAN]
  BY DEF TypeInv, Typed
<1>1. ASSUME NEW r \in Runs, Publish(r) PROVE ReviewInv'
  <2>1. main' = main
    BY <1>1 DEF Publish
  <2>2. \/ pr'.checks = "pending" \/ ~pr'.open
        \/ pr' = pr
    BY <1>0, <1>1, PublishOutcomes DEF NoPR
  <2>3. QED
    BY <2>1, <2>2
<1>2. CASE ChecksEnd
  <2>1. main' = main
    BY <1>2 DEF ChecksEnd
  <2>2. PICK result \in {"passed", "failed"} :
           /\ result = "passed" => PinsReviewed(Rebased(main, pr.base, pr.tree))
           /\ pr' = [pr EXCEPT !.checks = result,
                               !.checkedOn = IF result = "passed" THEN main ELSE {}]
    BY <1>2 DEF ChecksEnd
  <2>3. QED
    BY <1>0, <2>1, <2>2
<1>3. CASE ChecksRerun
  BY <1>0, <1>3 DEF ChecksRerun
<1>4. CASE AutoMerge \/ ManualMerge
  BY <1>4 DEF AutoMerge, ManualMerge, Merge, NoPR
<1>5. CASE AcceptPush
  BY <1>0, <1>5 DEF AcceptPush
<1>6. ASSUME NEW r \in Runs, EnableAutoMerge(r) PROVE ReviewInv'
  BY <1>0, <1>6 DEF EnableAutoMerge
<1>7. ASSUME NEW c \in Commits, Land(c) PROVE ReviewInv'
  BY <1>7 DEF Land
<1>8. CASE pr' = pr /\ main' = main
  BY <1>8
<1>9. QED
  BY <1>1, <1>2, <1>3, <1>4, <1>5, <1>6, <1>7, <1>8 DEF Next, Prepare, PrepareFails, AcceptRefresh,
     Release, vars

\* While a clone works, the pull request that it fetched may be pushed over,
\* closed or merged; a later one has another number.
LEMMA CloneInvStep == TypeInv /\ BranchInv /\ CloneInv /\ [Next]_vars => CloneInv'
<1> SUFFICES ASSUME TypeInv, BranchInv, CloneInv, [Next]_vars PROVE CloneInv'
  OBVIOUS
<1> USE DEF CloneInv
<1>0. /\ pr \in [open : BOOLEAN, number : Nat, base : Tree, tree : Tree, seen : Tree,
                 files : SUBSET {PathOf[c] : c \in Changes}, auto : BOOLEAN,
                 checks : {"pending", "passed", "failed"}, checkedOn : Tree, cleared : BOOLEAN]
      /\ clone \in [fetched : Tree \X Tree \X Nat, base : Tree, tree : Tree, busy : BOOLEAN]
  BY DEF TypeInv, Typed
<1>1. CASE AcceptRefresh
  <2> DEFINE rebased == Rebased(main, pr.base, pr.tree)
             tree   == rebased \cup (Pins \cap ReleasedFor(rebased))
                          \cup {x \in SignOffs : \E p \in Pins \cap released : SameRelease(p, x)}
  <2>1. pr.open /\ UNCHANGED <<main, pr>>
    BY <1>1 DEF AcceptRefresh
  <2>2. clone' = [fetched |-> <<pr.base, pr.tree, pr.number>>, base |-> main, tree |-> tree,
                  busy |-> TRUE]
    BY <1>1 DEF AcceptRefresh, BranchHead
  <2>3. main \ tree \subseteq pr.base \ pr.tree /\ pr.tree \subseteq tree
    BY <2>1, RebaseKeeps DEF BranchInv
  <2> HIDE DEF tree
  <2>4. QED
    BY <1>0, <2>1, <2>2, <2>3
<1>2. CASE AcceptPush
  BY <1>2 DEF AcceptPush, NoClone
<1>3. CASE AutoMerge \/ ManualMerge
  BY <1>0, <1>3 DEF AutoMerge, ManualMerge, Merge, NoPR
<1>4. ASSUME NEW r \in Runs, Publish(r) PROVE CloneInv'
  <2>1. UNCHANGED <<main, clone>>
    BY <1>4 DEF Publish
  <2>2. \/ ~pr.open /\ pr'.number = pr.number + 1
        \/ pr'.number = pr.number /\ (pr'.open => pr.open)
    BY <1>0, <1>4, PublishOutcomes DEF NoPR
  <2>3. QED
    BY <1>0, <2>1, <2>2
<1>5. CASE /\ clone' = clone /\ main \subseteq main'
           /\ pr'.open = pr.open /\ pr'.number = pr.number
  BY <1>5
<1>6. ASSUME NEW r \in Runs, EnableAutoMerge(r) PROVE CloneInv'
  BY <1>0, <1>5, <1>6 DEF EnableAutoMerge
<1>7. CASE ChecksEnd \/ ChecksRerun
  BY <1>0, <1>5, <1>7 DEF ChecksEnd, ChecksRerun
<1>8. QED
  BY <1>1, <1>2, <1>3, <1>4, <1>5, <1>6, <1>7 DEF Next, Prepare, PrepareFails, Release, Land, vars

-----------------------------------------------------------------------------
LEMMA InductiveInvariant == Spec => []IInv
<1>1. Init => IInv
  <2> SUFFICES ASSUME Init PROVE IInv
    OBVIOUS
  <2>1. TypeInv
    BY TypedInit DEF TypeInv
  <2>2. QED
    BY <2>1 DEF Init, IInv, RunsOnlyAdd, BranchInv, ReviewInv, CloneInv, NoRun, NoPR,
       NoClone
<1>2. IInv /\ [Next]_vars => IInv'
  <2> SUFFICES ASSUME IInv, [Next]_vars PROVE IInv'
    OBVIOUS
  <2>1. ASSUME NEW r \in Runs, Publish(r) PROVE pr'.number \in Nat
    <3>1. pr.number \in Nat
      BY DEF IInv, TypeInv, Typed
    <3>2. QED
      BY <2>1, <3>1, PublishNumbers DEF IInv, TypeInv
  <2>2. TypeInv'
    BY <2>1, TypedStep DEF IInv, TypeInv
  <2>3. QED
    BY <2>2, RunsOnlyAddStep, BranchInvStep, ReviewInvStep, CloneInvStep DEF IInv
<1>3. QED
  BY <1>1, <1>2, PTL DEF Spec

\* A head that passed its checks on an earlier main makes no line unreviewed but
\* one that has landed since.
LEMMA CheckedMerge ==
    ASSUME IInv, pr.open, pr.checks = "passed",
           NEW l \in Unreviewed(Rebased(main, pr.base, pr.tree))
    PROVE  l \in LinesIn(main) \ LinesIn(pr.checkedOn)
<1> DEFINE checked == Rebased(pr.checkedOn, pr.base, pr.tree)
           merged  == Rebased(main, pr.base, pr.tree)
<1>1. PinsReviewed(checked) /\ pr.checkedOn \subseteq main /\ main \ pr.checkedOn \subseteq Commits
  BY DEF IInv, ReviewInv
<1>2. merged \ checked \subseteq main \ pr.checkedOn /\ checked \subseteq merged
  BY <1>1 DEF Rebased
<1>3. Pins \cap merged = Pins \cap checked /\ SignOffs \cap merged = SignOffs \cap checked
  BY <1>1, <1>2, ReviewIsNotLanded
<1>4. l \in LinesIn(merged) \ LinesIn(checked)
  <2> HIDE DEF checked, merged
  <2>1. l \in LinesIn(merged) /\ l \notin Unreviewed(checked)
    BY <1>1 DEF Unreviewed, PinsReviewed, merged
  <2>2. QED
    BY <1>3, <2>1, SameReview DEF merged
<1>5. PICK c \in Commits \cap (merged \ checked) : l \in LinesOf[c]
  BY <1>4, NewLine
<1>6. c \in main \ pr.checkedOn /\ l \in Lines
  BY <1>2, <1>4, <1>5 DEF LinesIn
<1>7. QED
  BY <1>5, <1>6, LineOfCommit

\* MergesBringReviewedPins: however refreshes, sign-offs, commits and merges
\* interleave, a merge leaves an action SHA that the allowlist lacks only in a
\* line that landed after its checks, and nothing else un-reviews a line of main.
THEOREM MergesOnlyBringReviewed == Spec => MergesBringReviewedPins
<1> DEFINE Kept == \A l \in Unreviewed(main') \ Unreviewed(main) :
                      IF pr.open /\ ~pr'.open
                      THEN l \in LinesIn(main) \ LinesIn(pr.checkedOn)
                      ELSE l \notin LinesIn(main)
<1>1. IInv /\ [Next]_vars => [Kept]_vars
  <2> SUFFICES ASSUME IInv, [Next]_vars PROVE Kept
    OBVIOUS
  <2>1. CASE AutoMerge \/ ManualMerge
    <3>1. pr.open /\ pr.checks = "passed" /\ main' = Rebased(main, pr.base, pr.tree) /\ ~pr'.open
      BY <2>1 DEF AutoMerge, ManualMerge, Merge, NoPR
    <3>2. QED
      BY <3>1, CheckedMerge
  <2>2. ASSUME NEW c \in Commits, Land(c) PROVE Kept
    <3>1. main' = main \cup {c} /\ pr' = pr
      BY <2>2 DEF Land
    <3>2. Pins \cap main = Pins \cap main' /\ SignOffs \cap main = SignOffs \cap main'
      BY <3>1, ReviewIsNotLanded
    <3>3. Unreviewed(main') \subseteq LinesIn(main')
      BY DEF Unreviewed
    <3>4. \A l \in LinesIn(main) \cap LinesIn(main') :
             l \in Unreviewed(main) <=> l \in Unreviewed(main')
      BY <3>2, SameReview
    <3>5. QED
      BY <3>1, <3>3, <3>4
  <2>3. CASE main' = main
    BY <2>3
  <2>4. QED
    BY <2>1, <2>2, <2>3 DEF Next, Prepare, PrepareFails, Publish, EnableAutoMerge, ChecksEnd,
       ChecksRerun, AcceptRefresh, AcceptPush, Release, vars
<1>2. QED
  BY <1>1, InductiveInvariant, PTL DEF Spec, MergesBringReviewedPins

\* OnlyUnseenChangesAreReverted: what a merge takes from main landed after the
\* checkout of the run that published the branch and before its publication, in
\* a file that the run changed; nothing else takes anything from main.
THEOREM MergesRevertOnlyUnseen == Spec => OnlyUnseenChangesAreReverted
<1>1. IInv /\ [Next]_vars => [\A c \in main \ main' : c \in pr.base \ pr.seen /\ PathOf[c] \in pr.files]_vars
  <2> SUFFICES ASSUME IInv, [Next]_vars, NEW c \in main \ main'
               PROVE  c \in pr.base \ pr.seen /\ PathOf[c] \in pr.files
    OBVIOUS
  <2>1. pr.open /\ main' = Rebased(main, pr.base, pr.tree)
    BY MainOnlyGrows DEF AutoMerge, ManualMerge, Merge
  <2>2. c \in pr.base \ pr.tree
    BY <2>1, RebaseKeeps
  <2>3. QED
    BY <2>1, <2>2 DEF IInv, BranchInv
<1>2. QED
  BY <1>1, InductiveInvariant, PTL DEF Spec, OnlyUnseenChangesAreReverted

\* SignOffKeepsTheRefresh: when a sign-off leaves its clone, the branch of the
\* pull request still has every update that it had, whatever was published or
\* merged since the clone fetched it.
THEOREM SignOffsKeepUpdates == Spec => SignOffKeepsTheRefresh
<1>1. IInv /\ [Next]_vars => [clone.busy /\ ~clone'.busy => pr.tree \cap Updates \subseteq pr'.tree]_vars
  <2> SUFFICES ASSUME IInv, [Next]_vars, clone.busy, ~clone'.busy
               PROVE  pr.tree \subseteq pr'.tree
    OBVIOUS
  <2>1. AcceptPush
    BY DEF Next, Prepare, PrepareFails, Publish, EnableAutoMerge, ChecksEnd, ChecksRerun, AutoMerge,
       ManualMerge, Merge, AcceptRefresh, Release, Land, vars
  <2>2. CASE pr' = pr
    BY <2>2
  <2>3. CASE Lease /\ pr' = [pr EXCEPT !.base = clone.base, !.tree = clone.tree, !.checks = "pending", !.checkedOn = {}]
    <3>1. pr.tree \subseteq clone.tree
      BY <2>3 DEF Lease, BranchHead, IInv, CloneInv
    <3>2. pr'.tree = clone.tree
      BY <2>3 DEF IInv, TypeInv, Typed
    <3>3. QED
      BY <3>1, <3>2
  <2>4. QED
    BY <2>1, <2>2, <2>3 DEF AcceptPush
<1>2. QED
  BY <1>1, InductiveInvariant, PTL DEF Spec, SignOffKeepsTheRefresh

-----------------------------------------------------------------------------
\* The runs that have published.
Publishers == {r \in Runs : run[r].stage \in {"published", "done"}}

NumberInv == Typed(0..Cardinality(Runs)) /\ pr.number <= Cardinality(Publishers)

\* TypeOK: the types, and with finitely many runs a pull request is numbered
\* anew at most once by each of them.
THEOREM Typing == ASSUME IsFiniteSet(Runs) PROVE Spec => []TypeOK
<1> DEFINE N == 0..Cardinality(Runs)
<1>0. Cardinality(Runs) \in Nat
  BY FS_CardinalityType
<1>1. Init => NumberInv
  <2> SUFFICES ASSUME Init PROVE NumberInv
    OBVIOUS
  <2>1. Publishers = {}
    BY DEF Init, Publishers, NoRun
  <2>2. QED
    BY <1>0, <2>1, TypedInit, FS_EmptySet DEF NumberInv, Init, NoPR
<1>2. NumberInv /\ [Next]_vars => NumberInv'
  <2> SUFFICES ASSUME NumberInv, [Next]_vars PROVE NumberInv'
    OBVIOUS
  <2>1. /\ IsFiniteSet(Publishers) /\ IsFiniteSet(Publishers')
        /\ Cardinality(Publishers) \in Nat /\ Cardinality(Publishers') \in Nat
        /\ Cardinality(Publishers') <= Cardinality(Runs)
    BY FS_Subset, FS_CardinalityType DEF Publishers
  <2>2. pr \in [open : BOOLEAN, number : N, base : Tree, tree : Tree, seen : Tree,
                files : SUBSET {PathOf[c] : c \in Changes}, auto : BOOLEAN,
                checks : {"pending", "passed", "failed"}, checkedOn : Tree, cleared : BOOLEAN]
    BY DEF NumberInv, Typed
  <2>3. \A r \in Runs : run[r] \in RunType(N) /\ run \in [Runs -> RunType(N)]
    BY DEF NumberInv, Typed
  <2>4. ASSUME NEW r \in Runs, Publish(r)
        PROVE  pr'.number \in N /\ pr'.number <= Cardinality(Publishers')
    <3>1. pr'.number \in {pr.number, pr.number + 1}
      BY <2>4, PublishNumbers DEF NumberInv
    <3>2. Publishers' = Publishers \cup {r} /\ r \notin Publishers
      <4>1. run[r].stage = "prepared"
        BY <2>4 DEF Publish
      <4>2. \A s \in Runs : run'[s].stage = IF s = r THEN "published" ELSE run[s].stage
        BY <2>3, <2>4 DEF Publish, RunType
      <4>3. QED
        BY <4>1, <4>2 DEF Publishers
    <3>3. Cardinality(Publishers') = Cardinality(Publishers) + 1
      BY <2>1, <3>2, FS_AddElement
    <3>4. QED
      BY <1>0, <2>1, <2>2, <3>1, <3>3 DEF NumberInv
  <2>5. Typed(N)'
    BY <1>0, <2>4, TypedStep DEF NumberInv
  <2>6. CASE \E r \in Runs : Publish(r)
    BY <2>4, <2>5, <2>6 DEF NumberInv
  <2>7. CASE ~\E r \in Runs : Publish(r)
    <3>1. pr'.number = pr.number
      BY <2>2, <2>7 DEF Next, Prepare, PrepareFails, EnableAutoMerge, ChecksEnd, ChecksRerun, AutoMerge,
         ManualMerge, Merge, AcceptRefresh, AcceptPush, Release, Land, vars, NoPR
    <3>2. \A r \in Runs : r \in Publishers => r \in Publishers'
      <4>1. ASSUME NEW s \in Runs, Prepare(s) \/ PrepareFails(s) \/ EnableAutoMerge(s)
            PROVE  \A r \in Runs : r \in Publishers => r \in Publishers'
        BY <2>3, <4>1 DEF Publishers, Prepare, PrepareFails, EnableAutoMerge, RunType
      <4>2. CASE run' = run
        BY <4>2 DEF Publishers
      <4>3. QED
        BY <2>7, <4>1, <4>2 DEF Next, ChecksEnd, ChecksRerun, AutoMerge, ManualMerge, Merge,
           AcceptRefresh, AcceptPush, Release, Land, vars
    <3>3. Cardinality(Publishers) <= Cardinality(Publishers')
      BY <2>1, <3>2, FS_Subset DEF Publishers
    <3>4. QED
      BY <1>0, <2>1, <2>2, <2>5, <3>1, <3>3 DEF NumberInv
  <2>8. QED
    BY <2>6, <2>7
<1>3. NumberInv => TypeOK
  BY DEF NumberInv, TypeOK
<1>4. QED
  BY <1>1, <1>2, <1>3, PTL DEF Spec
=============================================================================
