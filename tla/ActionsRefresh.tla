---------------------------- MODULE ActionsRefresh ----------------------------
(***************************************************************************)
(* scripts/update_github_actions.py: read the latest release of every      *)
(* managed action and of Rust, bump the workflows, and in the local sync   *)
(* mode also the reviewed allowlist and the Makefile, then print what a    *)
(* maintainer has to review. A version stands for a release tag and the    *)
(* commit SHA that it resolves to.                                         *)
(***************************************************************************)
EXTENDS Naturals, Sequences

CONSTANTS
    Managed,     \* the actions of MANAGED_ACTIONS that workflows use
    Rust,        \* MANAGED_RUST_TOOLCHAIN, pinned by a version
    Workflows,   \* the workflow files, in sorted order
    Uses,        \* the managed pins of each workflow
    MaxRelease   \* bound on the releases of one upstream

Pinned == Managed \cup {Rust}

Stages == {"idle", "fetch", "workflows", "parse", "allowlist", "makefile", "report"}

ASSUME RefreshAssumption ==
    /\ Rust \notin Managed /\ MaxRelease \in Nat \ {0}
    /\ Len(Workflows) \in Nat /\ DOMAIN Workflows = 1..Len(Workflows)
    /\ \A i \in DOMAIN Workflows : Uses[Workflows[i]] \subseteq Pinned

VARIABLES
    latest,     \* the latest release of each upstream
    workflow,   \* the pins of each workflow file
    allowlist,  \* REVIEWED_ACTION_REFS and RUST_TOOLCHAIN_VERSION
    makefile,   \* RUST_VERSION of the Makefile
    mode,       \* "ci", or "sync" for --sync-reviewed-refs
    stage,      \* where the run is
    fetched,    \* releases and rust_toolchain, as far as they are read
    next,       \* index of the workflow to be updated next
    old,        \* old_allowlist
    changed,    \* changed_paths
    shown,      \* the pins that a printed report has listed, or that were there
    unreported, \* the pins that a sync has written to the allowlist, and none has listed
    synced      \* the last run was a sync that printed its report

files == <<workflow, allowlist, makefile>>
local == <<fetched, next, old, changed>>
actionsVars == <<latest, files, mode, stage, local, shown, unreported, synced>>

-----------------------------------------------------------------------------
ActionsInit ==
    /\ latest = [a \in Pinned |-> 1]
    /\ workflow = [i \in DOMAIN Workflows |-> [a \in Uses[Workflows[i]] |-> 1]]
    /\ allowlist = [a \in Pinned |-> 1]
    /\ makefile = 1
    /\ mode = "ci" /\ stage = "idle"
    /\ fetched = <<>> /\ next = 1 /\ old = allowlist /\ changed = {}
    /\ shown = {<<a, 1>> : a \in Pinned}
    /\ unreported = {} /\ synced = FALSE

\* An upstream publishes a release, at any time.
Release(a) ==
    /\ latest[a] < MaxRelease
    /\ latest' = [latest EXCEPT ![a] = @ + 1]
    /\ UNCHANGED <<files, mode, stage, local, shown, unreported, synced>>

Begin ==
    /\ stage = "idle" /\ stage' = "fetch"
    /\ mode' \in {"ci", "sync"}
    /\ fetched' = <<>> /\ next' = 1 /\ changed' = {} /\ synced' = FALSE
    /\ UNCHANGED <<latest, files, old, shown, unreported>>

\* Variant: the toolchain is not waited for.
Fetch_ActionsOnly(a) ==
    /\ stage = "fetch" /\ a \in Managed \ DOMAIN fetched
    /\ fetched' = [b \in DOMAIN fetched \cup {a} |-> IF b = a THEN latest[a] ELSE fetched[b]]
    /\ stage' = IF DOMAIN fetched' = Managed THEN "workflows" ELSE "fetch"
    /\ UNCHANGED <<latest, files, mode, next, old, changed, shown, unreported, synced>>

\* compute_managed_state: latest_release of the actions, then the toolchain.
Fetch(a) ==
    /\ stage = "fetch" /\ a \notin DOMAIN fetched
    /\ a = Rust => Managed \subseteq DOMAIN fetched
    /\ fetched' = [b \in DOMAIN fetched \cup {a} |-> IF b = a THEN latest[a] ELSE fetched[b]]
    /\ stage' = IF DOMAIN fetched' = Pinned THEN "workflows" ELSE "fetch"
    /\ UNCHANGED <<latest, files, mode, next, old, changed, shown, unreported, synced>>

\* Variant: the versions are read again for each file.
Bumped_Latest(i) == [a \in DOMAIN workflow[i] |-> latest[a]]

\* update_workflow_refs: every managed pin of the file gets the fetched version.
Bumped(i) == [a \in DOMAIN workflow[i] |-> fetched[a]]

\* _bump_workflow_refs, one file.
UpdateWorkflow ==
    /\ stage = "workflows" /\ next <= Len(Workflows)
    /\ workflow' = [workflow EXCEPT ![next] = Bumped(next)]
    /\ changed' = IF workflow' = workflow THEN changed ELSE changed \cup {Workflows[next]}
    /\ next' = next + 1
    /\ UNCHANGED <<latest, allowlist, makefile, mode, stage, fetched, old, shown, unreported, synced>>

\* In CI the script ends here and prints the changed paths.
EndUpdate ==
    /\ stage = "workflows" /\ next > Len(Workflows)
    /\ stage' = IF mode = "sync" THEN "parse" ELSE "idle"
    /\ UNCHANGED <<latest, files, mode, local, shown, unreported, synced>>

\* parse_reviewed_allowlist of the file as it is after the workflows.
ParseAllowlist ==
    /\ stage = "parse" /\ stage' = "allowlist"
    /\ old' = allowlist
    /\ UNCHANGED <<latest, files, mode, fetched, next, changed, shown, unreported, synced>>

\* Variant: only actions are compared, not the toolchain.
ReportEntries_NoRust == {<<a, fetched[a]>> : a \in {b \in Managed : old[b] # fetched[b]}}

\* render_review_report: an entry for each version that differs from the
\* allowlist this run read.
ReportEntries == {<<a, fetched[a]>> : a \in {b \in Pinned : old[b] # fetched[b]}}

\* sync_reviewed_refs with build_new_action_refs: what was fetched replaces or
\* joins the entries.
SyncReviewedRefs ==
    /\ stage = "allowlist" /\ stage' = "makefile"
    /\ allowlist' = [a \in DOMAIN allowlist \cup DOMAIN fetched |->
                        IF a \in DOMAIN fetched THEN fetched[a] ELSE allowlist[a]]
    /\ changed' = IF allowlist' = allowlist THEN changed ELSE changed \cup {"helpers"}
    /\ unreported' = unreported \cup ReportEntries
    /\ UNCHANGED <<latest, workflow, makefile, mode, fetched, next, old, shown, synced>>

\* sync_makefile_rust_version
SyncMakefile ==
    /\ stage = "makefile" /\ stage' = "report"
    /\ makefile' = fetched[Rust]
    /\ changed' = IF makefile' = makefile THEN changed ELSE changed \cup {"Makefile"}
    /\ UNCHANGED <<latest, workflow, allowlist, mode, fetched, next, old, shown, unreported, synced>>

Report ==
    /\ stage = "report" /\ stage' = "idle"
    /\ shown' = shown \cup ReportEntries
    /\ unreported' = unreported \ ReportEntries
    /\ synced' = TRUE
    /\ UNCHANGED <<latest, files, mode, local>>

\* A call to GitHub fails, a file has no block or assignment to rewrite, or the
\* run is interrupted, in any stage: what was written stays written.
Fail ==
    /\ stage # "idle" /\ stage' = "idle"
    /\ UNCHANGED <<latest, files, mode, local, shown, unreported, synced>>

ActionsNext ==
    \/ \E a \in Pinned : Release(a) \/ Fetch(a)
    \/ Begin \/ UpdateWorkflow \/ EndUpdate \/ ParseAllowlist
    \/ SyncReviewedRefs \/ SyncMakefile \/ Report \/ Fail

ActionsSpec == ActionsInit /\ [][ActionsNext]_actionsVars

-----------------------------------------------------------------------------
\* What make ci demands of the pins: assert_action_ref_is_reviewed for every
\* workflow, and the bootstrap toolchain the same as the reviewed one.
Gate ==
    /\ \A i \in DOMAIN workflow : \A a \in DOMAIN workflow[i] : workflow[i][a] = allowlist[a]
    /\ makefile = allowlist[Rust]

ActionsTypeOK ==
    /\ latest \in [Pinned -> 1..MaxRelease]
    /\ allowlist \in [Pinned -> 1..MaxRelease] /\ old \in [Pinned -> 1..MaxRelease]
    /\ \A i \in DOMAIN workflow : workflow[i] \in [Uses[Workflows[i]] -> 1..MaxRelease]
    /\ makefile \in 1..MaxRelease
    /\ mode \in {"ci", "sync"} /\ stage \in Stages
    /\ DOMAIN fetched \subseteq Pinned /\ next \in 1..(Len(Workflows) + 1)
    /\ stage \notin {"idle", "fetch"} => DOMAIN fetched = Pinned

\* After a sync that reached its report the tree passes make ci, and a tree that
\* passes uses only versions that a report has listed, or that a sync which did
\* not get to its report has written to the allowlist: a CI run never makes a new
\* version pass, wherever it or an earlier sync has failed and however many runs
\* and releases went before.
PinsAreReviewed ==
    /\ synced => Gate
    /\ stage = "idle" /\ Gate =>
          \A i \in DOMAIN workflow : \A a \in DOMAIN workflow[i] :
             <<a, workflow[i][a]>> \in shown \cup unreported

\* docs/process/dependency-health.md: the sync syncs the allowlist, and "also
\* prints a review report with each action's repository and changelog link": once
\* a sync has ended with its report, every version that the workflows use has
\* been listed in one.
SyncedVersionsAreShown ==
    synced => \A i \in DOMAIN workflow : \A a \in DOMAIN workflow[i] :
                 <<a, workflow[i][a]>> \in shown
=============================================================================
