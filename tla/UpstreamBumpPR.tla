---------------------------- MODULE UpstreamBumpPR ----------------------------
(***************************************************************************)
(* .github/workflows/upstream-bump.yml, its triage issues (bump_upstream)  *)
(* and retry-failed-checks.yml: a prepare job bumps and checks a checkout  *)
(* of main; a publish job pushes the bumped files on main as it is by      *)
(* then, files an issue, waits for the wheels of the head and turns        *)
(* auto-merge on. GitHub then merges once ci has passed: wheels are not a  *)
(* required check.                                                         *)
(*                                                                         *)
(* A tree is the oxipng it pins and the commits of people in the files     *)
(* that a bump publishes whole. A commit elsewhere is never in its way.    *)
(***************************************************************************)
EXTENDS Naturals, FiniteSets

CONSTANTS
    Slots,       \* how many runs of the workflow may overlap
    MaxRelease,  \* bound: releases of upstream
    Breaking,    \* the releases that break the wrapper
    Commits,     \* what people land in Cargo.toml, uv.lock, CHANGELOG.md...
    MaxClosed,   \* bound: issues of one version that people close
    FaultModels  \* what may go wrong: sets of "flaky" checks, "slow" wheels, "gh" calls

Versions == 1..MaxRelease

ASSUME VersionsAssumption ==
    /\ IsFiniteSet(Slots) /\ MaxRelease \in Nat /\ MaxClosed \in Nat
    /\ Breaking \subseteq Versions /\ FaultModels \subseteq SUBSET {"flaky", "slow", "gh"}

VARIABLES
    main,        \* the tree of main
    released,    \* the latest release of upstream
    onCratesIO,  \* the latest release that crates.io has
    run,         \* per slot: the stage of the run in it
    pr,          \* the pull request of automation/bump-oxipng
    issues,      \* per version: its triage issues, open and closed
    faults       \* the fault model, chosen once

bumpPRVars == <<main, released, onCratesIO, run, pr, issues, faults>>

-----------------------------------------------------------------------------
Workflows == {"ci", "wheels"}

Unchecked == [w \in Workflows |-> [result |-> "pending", attempt |-> 1]]

Unbumped == [version |-> 0, commits |-> {}]

\* auto: GitHub's auto-merge; by: the slot whose run pushed the head, and seen: the
\* main that it had prepared.
NoPR == [open |-> FALSE, base |-> Unbumped, tree |-> Unbumped, by |-> {}, seen |-> Unbumped,
         auto |-> FALSE, checks |-> Unchecked]

Head == <<pr.base, pr.tree>>

\* current: the number the run has from create-pull-request is that of the
\* pull request which is open.
NoRun == [stage |-> "idle", seen |-> Unbumped, work |-> Unbumped, pushed |-> FALSE,
          current |-> FALSE, found |-> FALSE, sha |-> <<Unbumped, Unbumped>>]

BumpPRInit ==
    /\ main = Unbumped /\ released = 0 /\ onCratesIO = 0
    /\ run = [s \in Slots |-> NoRun]
    /\ pr = NoPR
    /\ issues = [v \in Versions |-> [open |-> 0, closed |-> 0]]
    /\ faults \in FaultModels

-----------------------------------------------------------------------------
\* Variant: a red make ci does not end the prepare job.
Prepared_Ungated(work) == work # main

\* bump_upstream.py changes nothing for a pinned or an unindexed release; a
\* blocking scan or a red make ci ends the job.
Prepared(work) == work # main /\ onCratesIO = released /\ released \notin Breaking

\* Variant: the files are those of a release, not of the checkout.
Prepare_FromRelease(s) ==
    LET work == [Unbumped EXCEPT !.version = released] IN
    /\ run[s].stage = "idle" /\ Prepared([main EXCEPT !.version = released])
    /\ run' = [run EXCEPT ![s] = [NoRun EXCEPT !.stage = "prepared", !.seen = main, !.work = work]]
    /\ UNCHANGED <<main, released, onCratesIO, pr, issues, faults>>

\* Variant: what counts as the latest release need not be the highest.
Prepare_AnyRelease(s) ==
    \E v \in 1..released :
        LET work == [main EXCEPT !.version = v] IN
        /\ run[s].stage = "idle" /\ Prepared(work)
        /\ run' = [run EXCEPT ![s] = [NoRun EXCEPT !.stage = "prepared", !.seen = main, !.work = work]]
        /\ UNCHANGED <<main, released, onCratesIO, pr, issues, faults>>

Prepare(s) ==
    LET work == [main EXCEPT !.version = released] IN
    /\ run[s].stage = "idle" /\ Prepared(work)
    /\ run' = [run EXCEPT ![s] = [NoRun EXCEPT !.stage = "prepared", !.seen = main, !.work = work]]
    /\ UNCHANGED <<main, released, onCratesIO, pr, issues, faults>>

Detached == [s \in Slots |-> [run[s] EXCEPT !.current = FALSE]]

\* Variant: a push turns auto-merge off, only a created pull request gets it.
Publish_OnlyCreated(s) ==
    LET tree == run[s].work IN
    /\ run[s].stage = "prepared"
    /\ pr' = IF tree = main THEN NoPR
             ELSE [NoPR EXCEPT !.open = TRUE, !.base = main, !.tree = tree, !.by = {s},
                                 !.seen = run[s].seen]
    /\ run' = [(IF tree = main THEN Detached ELSE run) EXCEPT
                  ![s].stage = "published", ![s].pushed = ~pr.open, ![s].current = tree # main]
    /\ UNCHANGED <<main, released, onCratesIO, issues, faults>>

\* create-pull-request: the files of the artifact replace those of main.
Publish(s) ==
    LET tree   == run[s].work
        pushes == tree # main /\ (pr.open => pr.tree # tree)
    IN  /\ run[s].stage = "prepared"
        /\ pr' = IF pushes THEN [NoPR EXCEPT !.open = TRUE, !.base = main, !.tree = tree, !.by = {s},
                                             !.seen = run[s].seen, !.auto = pr.auto]
                 ELSE IF tree = main THEN NoPR ELSE pr
        /\ run' = [(IF tree = main THEN Detached ELSE run) EXCEPT
                      ![s].stage = "published", ![s].pushed = pushes, ![s].current = tree # main]
        /\ UNCHANGED <<main, released, onCratesIO, issues, faults>>

Fails(s) == run' = [run EXCEPT ![s] = NoRun] /\ UNCHANGED <<main, released, onCratesIO, pr, issues, faults>>

\* Variant: the issue of any version will do.
FindSurfaceIssue_AnyTitle(v) == \E u \in Versions : issues[u].open > 0

\* The open issue with the title of this version.
FindSurfaceIssue(v) == issues[v].open > 0

LookForIssue(s) ==
    /\ run[s].stage = "published"
    /\ run' = [run EXCEPT ![s].stage = "looked", ![s].found = FindSurfaceIssue(run[s].work.version)]
    /\ UNCHANGED <<main, released, onCratesIO, pr, issues, faults>>

\* Variant: the issue is created whether one was found or not.
Upserted_AlwaysCreates(s) == [issues EXCEPT ![run[s].work.version].open = @ + 1]

\* gh issue edit changes the text of the issue that was found, nothing else.
Upserted(s) ==
    IF run[s].found THEN issues ELSE [issues EXCEPT ![run[s].work.version].open = @ + 1]

\* The wait only follows a push.
UpsertIssue(s) ==
    /\ run[s].stage = "looked"
    /\ issues' = Upserted(s)
    /\ run' = [run EXCEPT ![s] = IF run[s].pushed THEN [@ EXCEPT !.stage = "upserted"] ELSE NoRun]
    /\ UNCHANGED <<main, released, onCratesIO, pr, faults>>

\* gh pr view --json headRefOid, by then.
ReadHead(s) ==
    /\ run[s].stage = "upserted" /\ run[s].current
    /\ run' = [run EXCEPT ![s].stage = "waiting", ![s].sha = Head]
    /\ UNCHANGED <<main, released, onCratesIO, pr, issues, faults>>

\* Variant: giving up on the wheels is not an error.
Waited_GivesUp(s) == {"passed", "failed", "pending"}

\* What the 60 polls of wheels.yml may see in the end; a head that was pushed
\* over is polled on.
Waited(s) ==
    IF pr.open /\ Head = run[s].sha THEN {pr.checks["wheels"].result}
    ELSE {"passed"} \cup (IF "flaky" \in faults THEN {"failed"} ELSE {})
                    \cup (IF "slow" \in faults THEN {"pending"} ELSE {})

WaitPasses(s) ==
    /\ run[s].stage = "waiting" /\ "passed" \in Waited(s)
    /\ run' = [run EXCEPT ![s].stage = "waited"]
    /\ UNCHANGED <<main, released, onCratesIO, pr, issues, faults>>

\* A failed run of wheels.yml ends the wait, its retry may still be to come;
\* so does half an hour.
WaitFails(s) ==
    /\ run[s].stage = "waiting"
    /\ "failed" \in Waited(s) \/ ("slow" \in faults /\ "pending" \in Waited(s))
    /\ Fails(s)

\* gh pr merge --auto, on the number.
EnableAutoMerge(s) ==
    /\ run[s].stage = "waited" /\ run[s].current
    /\ pr' = [pr EXCEPT !.auto = TRUE]
    /\ run' = [run EXCEPT ![s] = NoRun]
    /\ UNCHANGED <<main, released, onCratesIO, issues, faults>>

\* A step fails: gh is down, or the pull request is closed or merged.
StepFails(s) ==
    /\ \/ "gh" \in faults /\ run[s].stage \in {"prepared", "published", "looked", "upserted", "waited"}
       \/ run[s].stage \in {"upserted", "waited"} /\ ~run[s].current
    /\ Fails(s)

-----------------------------------------------------------------------------
\* A workflow on the head of the pull request ends.
CheckEnds(w) ==
    /\ pr.open /\ pr.checks[w].result = "pending"
    /\ \E result \in {"passed"} \cup (IF "flaky" \in faults THEN {"failed"} ELSE {}) :
          pr' = [pr EXCEPT !.checks[w].result = result]
    /\ UNCHANGED <<main, released, onCratesIO, run, issues, faults>>

\* retry-failed-checks, ten minutes later.
RetryFailedCheck(w) ==
    /\ pr.open /\ pr.checks[w] = [result |-> "failed", attempt |-> 1]
    /\ pr' = [pr EXCEPT !.checks[w] = [result |-> "pending", attempt |-> 2]]
    /\ UNCHANGED <<main, released, onCratesIO, run, issues, faults>>

Mergeable == main.version \in {pr.base.version, pr.tree.version}

\* Variant: the pull request stays as it was.
Merge_KeepsState ==
    /\ main' = pr.tree
    /\ pr' = [pr EXCEPT !.open = FALSE]
    /\ UNCHANGED <<released, onCratesIO, run, issues, faults>>

\* A rebase merge: what the head changed of its base, on main as it is.
Merge ==
    /\ Mergeable
    /\ main' = [version |-> pr.tree.version,
                commits |-> (main.commits \cup (pr.tree.commits \ pr.base.commits))
                               \ (pr.base.commits \ pr.tree.commits)]
    /\ pr' = NoPR /\ run' = Detached
    /\ UNCHANGED <<released, onCratesIO, issues, faults>>

AutoMerge == pr.open /\ pr.auto /\ pr.checks["ci"].result = "passed" /\ Merge

\* By a maintainer.
ManualMerge == pr.open /\ pr.checks["ci"].result = "passed" /\ Merge

Release ==
    /\ released < MaxRelease
    /\ released' = released + 1
    /\ UNCHANGED <<main, onCratesIO, run, pr, issues, faults>>

Index ==
    /\ onCratesIO < released
    /\ onCratesIO' = released
    /\ UNCHANGED <<main, released, run, pr, issues, faults>>

Land(c) ==
    /\ c \notin main.commits
    /\ main' = [main EXCEPT !.commits = @ \cup {c}]
    /\ UNCHANGED <<released, onCratesIO, run, pr, issues, faults>>

\* Triage is done.
CloseIssue(v) ==
    /\ issues[v].open > 0 /\ issues[v].closed < MaxClosed
    /\ issues' = [issues EXCEPT ![v].open = @ - 1, ![v].closed = @ + 1]
    /\ UNCHANGED <<main, released, onCratesIO, run, pr, faults>>

Step(s) ==
    \/ Prepare(s) \/ Publish(s) \/ LookForIssue(s) \/ UpsertIssue(s)
    \/ ReadHead(s) \/ WaitPasses(s) \/ EnableAutoMerge(s)

RunFails(s) == WaitFails(s) \/ StepFails(s)

BumpPRNext ==
    \/ \E s \in Slots : Step(s) \/ RunFails(s)
    \/ \E w \in Workflows : CheckEnds(w) \/ RetryFailedCheck(w)
    \/ AutoMerge \/ ManualMerge \/ Release \/ Index
    \/ \E c \in Commits : Land(c)
    \/ \E v \in Versions : CloseIssue(v)

\* Schedules, runners, crates.io and GitHub get to their work; people need not.
BumpPRFairness ==
    /\ \A s \in Slots : WF_bumpPRVars(Step(s) \/ RunFails(s))
    /\ \A w \in Workflows : WF_bumpPRVars(CheckEnds(w)) /\ WF_bumpPRVars(RetryFailedCheck(w))
    /\ WF_bumpPRVars(AutoMerge) /\ WF_bumpPRVars(Index)

BumpPRSpec == BumpPRInit /\ [][BumpPRNext]_bumpPRVars /\ BumpPRFairness


-----------------------------------------------------------------------------
Trees == [version : 0..MaxRelease, commits : SUBSET Commits]

BumpRun == [stage : {"idle", "prepared", "published", "looked", "upserted", "waiting", "waited"},
            seen : Trees, work : Trees, pushed : BOOLEAN, current : BOOLEAN,
            found : BOOLEAN, sha : Trees \X Trees]

CheckState == [result : {"pending", "passed", "failed"}, attempt : 1..2]

BumpPullRequest == [open : BOOLEAN, base : Trees, tree : Trees, by : SUBSET Slots, seen : Trees,
                    auto : BOOLEAN, checks : [Workflows -> CheckState]]

BumpPRTypeOK ==
    /\ main \in Trees /\ released \in 0..MaxRelease /\ onCratesIO \in 0..released
    /\ run \in [Slots -> BumpRun]
    /\ pr \in BumpPullRequest
    /\ ~pr.open => pr = NoPR /\ \A s \in Slots : ~run[s].current
    /\ issues \in [Versions -> [open : Nat, closed : 0..MaxClosed]]
    /\ faults \in FaultModels

\* Runs that do not overlap never take main back to an older oxipng, or to one
\* that breaks the wrapper, and take away only the commits that landed, in the
\* files of a bump, between the two checkouts of the run that pushed the head,
\* although the second job publishes what the first prepared from an earlier
\* main and pull requests of earlier runs are merged in between.
MainOnlyGains ==
    [][/\ main'.version >= main.version
       /\ main'.version \notin Breaking
       /\ main.commits \ main'.commits \subseteq pr.base.commits \ pr.seen.commits]_bumpPRVars

\* However runs overlap, fail, are retried or closed over: the run that turns
\* auto-merge on has left its version with a triage issue, of which no more were
\* opened than runs may overlap; and unless another run has pushed over its head,
\* the head is of that version and its wheels have passed. Of a head that was
\* pushed over its own it says nothing: gh pr merge takes the number.
EnabledForAGoodHead ==
    [][~pr.auto /\ pr'.auto =>
          \E s \in Slots : \E v \in {run[s].work.version} :
             /\ run'[s] # run[s] /\ run[s].stage = "waited"
             /\ issues[v].open + issues[v].closed > 0 /\ issues[v].open <= Cardinality(Slots)
             /\ pr.by = {s} => pr.tree.version = v /\ pr.checks["wheels"].result = "passed"]_bumpPRVars

\* Without faults every release that works lands on main, unless upstream has
\* released another by then, whatever people land and merge meanwhile.
EveryReleaseLands ==
    \A v \in Versions \ Breaking :
        faults = {} /\ released = v ~> main.version = v \/ released > v
=============================================================================
