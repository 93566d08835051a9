------------------------- MODULE DependencyRefreshPR -------------------------
(***************************************************************************)
(* .github/workflows/dependency-health.yml and make accept-refresh-pr: a   *)
(* prepare job refreshes and checks a checkout of main, a publish job lays *)
(* the refreshed files over main as it is by then and opens or updates one *)
(* pull request, GitHub merges it by itself when auto-merge is on and the  *)
(* required checks have passed.                                            *)
(*                                                                         *)
(* A tree is the set of changes it holds. A file is the changes of one     *)
(* path, so replacing a file can take changes away.                        *)
(*                                                                         *)
(* The SHAs of an action are numbered in the order of its releases, 0 is   *)
(* the reviewed one at the start. A `uses:` line and an allowlist entry    *)
(* hold one SHA each: the newest that a change in the tree gives it.       *)
(***************************************************************************)
EXTENDS FiniteSets, FiniteSetsExt, Naturals

CONSTANTS
    Runs,      \* workflow runs, scheduled or dispatched; they may overlap
    Updates,   \* what upstreams may release: new tools, crates, action pins
    Commits,   \* what people may land on main
    PathOf,    \* the file each change is in
    Shipped,   \* the updates that reach published artifacts
    Pins,      \* the updates that give a `uses:` line a new SHA
    SignOffs,  \* the changes that give the allowlist entry of an action a new SHA
    Lines,     \* the `uses:` lines
    LineOf,    \* the line of each pin
    LinesOf,   \* the lines that each commit of people adds, with SHA 0
    ActionOf,  \* the action of each line and of each sign-off
    ShaOf      \* the SHA of each pin and of each sign-off

Changes == Updates \cup Commits \cup SignOffs

ASSUME ChangesAssumption ==
    /\ Shipped \cup Pins \subseteq Updates
    /\ IsFiniteSet(Pins) /\ IsFiniteSet(SignOffs)
    /\ LineOf \in [Pins -> Lines] /\ ShaOf \in [Pins \cup SignOffs -> Nat \ {0}]
    /\ LinesOf \in [Commits -> SUBSET Lines]
    /\ \A c, d \in Commits : c # d => LinesOf[c] \cap LinesOf[d] = {}
    /\ SignOffs \cap (Updates \cup Commits) = {} /\ Updates \cap Commits = {}

VARIABLES
    main,      \* the tree of main
    released,  \* the updates upstreams have released
    run,       \* per workflow run: stage, trees and job outputs
    pr,        \* the pull request of automation/dependency-refresh
    clone      \* a maintainer's clone between fetch and push

vars == <<main, released, run, pr, clone>>

-----------------------------------------------------------------------------
Differing(t1, t2) == (t1 \ t2) \cup (t2 \ t1)

ChangedPaths(t1, t2) == {PathOf[c] : c \in Differing(t1, t2)}

\* A tree with some of its files replaced by those of another tree.
Overlay(tree, files, paths) ==
    {c \in tree : PathOf[c] \notin paths} \cup {c \in files : PathOf[c] \in paths}

\* A branch of one tree that started from another, rebased onto a target.
Rebased(target, from, tree) == (target \cup (tree \ from)) \ (from \ tree)

\* The `uses:` lines of a tree: those that no commit of people has to add.
LinesIn(tree) == Lines \ UNION {LinesOf[c] : c \in Commits \ tree}

\* The SHA that a line uses, and the one that the allowlist has for an action.
Pinned(tree, l) == Max({0} \cup {ShaOf[p] : p \in {q \in Pins \cap tree : LineOf[q] = l}})
Reviewed(tree, a) == Max({0} \cup {ShaOf[s] : s \in {q \in SignOffs \cap tree : ActionOf[q] = a}})

\* assert_action_ref_is_reviewed fails for these lines.
Unreviewed(tree) == {l \in LinesIn(tree) : Pinned(tree, l) # Reviewed(tree, ActionOf[l])}

\* The reviewed-action-ref gate of make ci and of the required checks.
PinsReviewed(tree) == Unreviewed(tree) = {}

\* A pin is of the release of its action that a sign-off reviews, or another pin.
SameRelease(p, x) ==
    /\ ShaOf[p] = ShaOf[x]
    /\ ActionOf[LineOf[p]] = ActionOf[IF x \in Pins THEN LineOf[x] ELSE x]

\* The released updates that a refresh finds something in a tree to apply to.
ReleasedFor(tree) == {u \in released : u \in Pins => LineOf[u] \in LinesIn(tree)}

\* The commit at the head of the branch.
BranchHead == <<pr.base, pr.tree, pr.number>>

NoPR == [open |-> FALSE, number |-> 0, base |-> {}, tree |-> {}, seen |-> {}, files |-> {},
         auto |-> FALSE, checks |-> "pending", checkedOn |-> {}, cleared |-> FALSE]

NoRun == [stage |-> "idle", base |-> {}, work |-> {}, ci |-> FALSE, release |-> FALSE,
          op |-> "none", number |-> 0]

NoClone == [fetched |-> <<{}, {}, 0>>, base |-> {}, tree |-> {}, busy |-> FALSE]

Init ==
    /\ main = {} /\ released = {}
    /\ run = [r \in Runs |-> NoRun]
    /\ pr = NoPR /\ clone = NoClone

-----------------------------------------------------------------------------
\* The prepare job: refresh everything released, run CI without aborting on a
\* red result, classify against the commit that was checked out.
Prepare(r) ==
    LET work == main \cup ReleasedFor(main) IN
    /\ run[r].stage = "idle"
    /\ \E ci \in BOOLEAN :
          /\ ci => PinsReviewed(work)
          /\ run' = [run EXCEPT ![r] =
                [NoRun EXCEPT !.stage = IF work = main THEN "done" ELSE "prepared",
                              !.base = main, !.work = work, !.ci = ci,
                              !.release = (work \ main) \cap Shipped # {}]]
    /\ UNCHANGED <<main, released, pr, clone>>

\* An audit step fails and the job with it: nothing is published.
PrepareFails(r) ==
    /\ run[r].stage = "idle"
    /\ run' = [run EXCEPT ![r].stage = "done"]
    /\ UNCHANGED <<main, released, pr, clone>>

\* What a run promises when it enables auto-merge.
Clears(r) == run[r].ci /\ ~run[r].release

\* Variant: the artifact is published on the commit it was prepared from.
PublishedTree_PrepareBase(r) == run[r].work

\* The changed paths of the prepare job, laid over a new checkout of main.
PublishedTree(r) == Overlay(main, run[r].work, ChangedPaths(run[r].base, run[r].work))

\* The publish job up to create-pull-request, which opens a pull request,
\* resets its branch if the branch's tree differs, or closes it when nothing
\* is left to change. A push leaves auto-merge as it is.
Publish(r) ==
    LET tree == PublishedTree(r)
        op   == CASE tree = main            -> IF pr.open THEN "closed" ELSE "none"
                  [] tree # main /\ ~pr.open -> "created"
                  [] OTHER                  -> IF pr.tree = tree THEN "none" ELSE "updated"
        pushed == [pr EXCEPT !.base = main, !.tree = tree, !.seen = run[r].base,
                             !.files = ChangedPaths(run[r].base, run[r].work),
                             !.checks = "pending", !.checkedOn = {}, !.cleared = Clears(r)]
    IN  /\ run[r].stage = "prepared"
        /\ pr' = CASE op = "created" -> [pushed EXCEPT !.open = TRUE, !.number = pr.number + 1]
                   [] op = "updated" -> pushed
                   [] op = "closed"  -> [NoPR EXCEPT !.number = pr.number]
                   [] op = "none"    -> pr
        /\ run' = [run EXCEPT ![r].op = op, ![r].stage = "published", ![r].number = pr'.number]
        /\ UNCHANGED <<main, released, clone>>

\* The condition of the last step, on the outputs of this run's own jobs.
MayEnable(r) == Clears(r) /\ run[r].op \in {"created", "updated"}

\* The last step, gh pr merge --auto on the number of the pull request: it
\* looks at neither the head nor who pushed it.
EnableAutoMerge(r) ==
    /\ run[r].stage = "published"
    /\ run' = [run EXCEPT ![r].stage = "done"]
    /\ pr' = IF MayEnable(r) /\ pr.open /\ pr.number = run[r].number
             THEN [pr EXCEPT !.auto = TRUE] ELSE pr
    /\ UNCHANGED <<main, released, clone>>

-----------------------------------------------------------------------------
\* The required checks of the pull request's head end, on its merge with main as
\* it is now; they are not run again when commits land after.
ChecksEnd ==
    /\ pr.open /\ pr.checks = "pending"
    /\ \E result \in {"passed", "failed"} :
          /\ result = "passed" => PinsReviewed(Rebased(main, pr.base, pr.tree))
          /\ pr' = [pr EXCEPT !.checks = result,
                               !.checkedOn = IF result = "passed" THEN main ELSE {}]
    /\ UNCHANGED <<main, released, run, clone>>

\* Failed checks are run again, by hand or by retry-failed-checks.
ChecksRerun ==
    /\ pr.open /\ pr.checks = "failed"
    /\ pr' = [pr EXCEPT !.checks = "pending"]
    /\ UNCHANGED <<main, released, run, clone>>

\* Variant: what the last pull request was is kept.
Merge_KeepsState ==
    /\ main' = Rebased(main, pr.base, pr.tree)
    /\ pr' = [pr EXCEPT !.open = FALSE]
    /\ UNCHANGED <<released, run, clone>>

\* A rebase merge, which deletes the branch.
Merge ==
    /\ main' = Rebased(main, pr.base, pr.tree)
    /\ pr' = [NoPR EXCEPT !.number = pr.number]
    /\ UNCHANGED <<released, run, clone>>

\* Variant: auto-merge does not wait for the required checks.
AutoMerge_Unchecked == pr.open /\ pr.auto /\ Merge

AutoMerge == pr.open /\ pr.auto /\ pr.checks = "passed" /\ Merge

\* A maintainer reviews the pull request and merges it.
ManualMerge == pr.open /\ pr.checks = "passed" /\ Merge

-----------------------------------------------------------------------------
\* make accept-refresh-pr up to make ci: fetch, rebase on main, bump the
\* workflows to the latest releases, sync the allowlist with them.
AcceptRefresh ==
    LET rebased == Rebased(main, pr.base, pr.tree)
        tree    == rebased \cup (Pins \cap ReleasedFor(rebased))
                           \cup {s \in SignOffs : \E p \in Pins \cap released : SameRelease(p, s)}
    IN  /\ pr.open /\ ~clone.busy
        /\ clone' = [fetched |-> BranchHead, base |-> main, tree |-> tree, busy |-> TRUE]
        /\ UNCHANGED <<main, released, run, pr>>

\* Variant: the push is forced whatever the branch holds by now.
Lease_Forced == TRUE

\* --force-with-lease: the branch is still what was fetched.
Lease == BranchHead = clone.fetched

\* Its git push. A refused push leaves the branch alone.
AcceptPush ==
    /\ clone.busy
    /\ clone' = NoClone
    /\ pr' = IF pr.open /\ Lease
             THEN [pr EXCEPT !.base = clone.base, !.tree = clone.tree, !.checks = "pending",
                                !.checkedOn = {}]
             ELSE pr
    /\ UNCHANGED <<main, released, run>>

\* The world: an upstream releases, for every line of an action at once.
Release(u) ==
    /\ u \notin released
    /\ released' = released \cup {u} \cup {p \in Pins : u \in Pins /\ SameRelease(p, u)}
    /\ UNCHANGED <<main, run, pr, clone>>

\* People land a commit whose own checks passed, on the main that it started from.
Land(c) ==
    /\ c \notin main
    /\ main' = main \cup {c}
    /\ UNCHANGED <<released, run, pr, clone>>

Next ==
    \/ \E r \in Runs : Prepare(r) \/ PrepareFails(r) \/ Publish(r) \/ EnableAutoMerge(r)
    \/ ChecksEnd \/ ChecksRerun \/ AutoMerge \/ ManualMerge
    \/ AcceptRefresh \/ AcceptPush
    \/ \E u \in Updates : Release(u)
    \/ \E c \in Commits : Land(c)

Spec == Init /\ [][Next]_vars

-----------------------------------------------------------------------------
Tree == SUBSET Changes

\* The types of the runs and of the variables, given the numbers a pull request may have.
RunType(numbers) ==
    [stage : {"idle", "prepared", "published", "done"}, base : Tree, work : Tree,
     ci : BOOLEAN, release : BOOLEAN, number : numbers,
     op : {"none", "created", "updated", "closed"}]

Typed(numbers) ==
    /\ main \in Tree /\ released \subseteq Updates
    /\ run \in [Runs -> RunType(numbers)]
    /\ pr \in [open : BOOLEAN, number : numbers, base : Tree, tree : Tree, seen : Tree,
               files : SUBSET {PathOf[c] : c \in Changes}, auto : BOOLEAN, checks : {"pending", "passed", "failed"}, checkedOn : Tree, cleared : BOOLEAN]
    /\ ~pr.open => pr = [NoPR EXCEPT !.number = pr.number]
    /\ clone \in [fetched : Tree \X Tree \X numbers, base : Tree, tree : Tree, busy : BOOLEAN]

\* A pull request is numbered anew at most once per run.
TypeOK == Typed(0..Cardinality(Runs))

\* However runs, pushes, sign-offs and merges interleave, a merge of the refresh
\* leaves main with no SHA that its allowlist lacks but in a line that landed,
\* with the formerly reviewed SHA, after the checks that let it through; and
\* nothing else makes a line that main has unreviewed.
MergesBringReviewedPins ==
    [][\A l \in Unreviewed(main') \ Unreviewed(main) :
          IF pr.open /\ ~pr'.open
          THEN l \in LinesIn(main) \ LinesIn(pr.checkedOn)
          ELSE l \notin LinesIn(main)]_vars

\* A merge takes away only what landed, in the files the refresh changed,
\* between the two checkouts of the run that published the branch: what landed
\* before is in the refreshed files, what lands in other files or after the
\* publication is merged, not replaced.
OnlyUnseenChangesAreReverted ==
    [][\A c \in main \ main' : c \in pr.base \ pr.seen /\ PathOf[c] \in pr.files]_vars

\* A maintainer's sign-off never drops an update from the branch it lands on,
\* even if a run publishes while make ci is running in the clone.
SignOffKeepsTheRefresh ==
    [][clone.busy /\ ~clone'.busy => pr.tree \cap Updates \subseteq pr'.tree]_vars

\* docs/process/dependency-health.md: release-needed pull requests open but do
\* not auto-merge, and a ci-failed one never does. GitHub merges a pull request
\* by itself when auto-merge is on and its checks have passed.
AutoMergesOnlyCleared == pr.open /\ pr.auto /\ pr.checks = "passed" => pr.cleared
=============================================================================
