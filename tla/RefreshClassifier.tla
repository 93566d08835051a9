-------------------------- MODULE RefreshClassifier --------------------------
(***************************************************************************)
(* scripts/classify_dependency_refresh.py: a dependency refresh is read as *)
(* changed files and changed Cargo.lock tables, and classified by whether  *)
(* the published artifacts may change.                                     *)
(***************************************************************************)
EXTENDS CargoGraph

VARIABLES
    base,             \* Cargo.lock at the base ref
    otherFiles,       \* the other changed files
    pyRuntimeChanged, \* [project.dependencies] differs from the base ref
    progress,         \* "clean", "refreshed" or "classified"
    classification    \* what classify_workspace returned, once classified

classifierVars == <<base, lock, otherFiles, pyRuntimeChanged, progress, classification>>

\* The files whose names decide something. A pyproject.toml whose runtime
\* dependencies changed is a changed file.
OtherFiles == {"uv.lock", "Cargo.toml", "pyproject.toml"}

Reasons == {"python-runtime", "cargo-manifest", "cargo-runtime", "tooling-lock", "nothing-shipped"}

-----------------------------------------------------------------------------
\* The table of a package in Cargo.lock, as far as a refresh changes it: its
\* dependencies, each spelled by its name alone while only one version of it
\* is locked.
LockedTable(l, p) ==
    [r \in Requires[p] |->
        LET q == l[p][r]
            namesakes == {n \in DOMAIN l : NameOf[n] = NameOf[q]}
        IN  IF namesakes = {q} THEN <<NameOf[q]>> ELSE <<NameOf[q], q>>]

\* cargo_lock_packages
CargoLockPackages(l) == [p \in DOMAIN l |-> LockedTable(l, p)]

\* Variant: two tables of one package are taken to be the same.
ChangedCargoLockPackages_KeysOnly(old, new) ==
    (DOMAIN old \ DOMAIN new) \cup (DOMAIN new \ DOMAIN old)

\* changed_cargo_lock_packages: the keys of either lock whose table is absent
\* from, or different in, the other.
ChangedCargoLockPackages(old, new) ==
    {p \in DOMAIN old \cup DOMAIN new :
        ~ /\ p \in DOMAIN old \cap DOMAIN new
          /\ CargoLockPackages(old)[p] = CargoLockPackages(new)[p]}

\* cargo_package_reaches_shipped_graph: cargo tree --edges normal,build -i,
\* which follows the edges of the runner's own target, fails for a package
\* that the refreshed lock no longer has, and a failure counts as reached.
ReachesShippedGraph(l, p) ==
    \/ p \notin DOMAIN l
    \/ p \in Reached(l, Edges(l, HostUse))

\* Variant: a refresh of nothing but tool locks is left without a reason.
ClassifyRefresh_NoReason(files, pyChanged, cargoRuntimePackages) ==
    LET needed == pyChanged \/ "Cargo.toml" \in files \/ cargoRuntimePackages # {}
    IN  [releaseNeeded |-> needed, reason |-> IF needed THEN "cargo-runtime" ELSE "none"]

\* classify_refresh
ClassifyRefresh(files, pyChanged, cargoRuntimePackages) ==
    LET result(needed, why) == [releaseNeeded |-> needed, reason |-> why]
    IN  CASE pyChanged -> result(TRUE, "python-runtime")
          [] ~pyChanged /\ "Cargo.toml" \in files -> result(TRUE, "cargo-manifest")
          [] ~pyChanged /\ "Cargo.toml" \notin files /\ cargoRuntimePackages # {} ->
                 result(TRUE, "cargo-runtime")
          [] OTHER -> result(FALSE, IF files \subseteq {"uv.lock"} THEN "tooling-lock"
                                                                   ELSE "nothing-shipped")

\* changed_files: git diff --name-only against the base ref.
ChangedFiles ==
    otherFiles \cup IF CargoLockPackages(base) = CargoLockPackages(lock) THEN {} ELSE {"Cargo.lock"}

\* changed_workspace_cargo_lock_packages, read only if Cargo.lock changed.
ChangedCargoPackages ==
    IF "Cargo.lock" \in ChangedFiles THEN ChangedCargoLockPackages(base, lock) ELSE {}

\* classify_refresh_from_changes and classify_workspace
ClassifyWorkspace ==
    ClassifyRefresh(ChangedFiles, pyRuntimeChanged,
                    {p \in ChangedCargoPackages : ReachesShippedGraph(lock, p)})

-----------------------------------------------------------------------------
ClassifierInit ==
    /\ base \in Locks
    /\ lock = base
    /\ otherFiles = {}
    /\ pyRuntimeChanged = FALSE
    /\ progress = "clean"
    /\ classification = [releaseNeeded |-> TRUE, reason |-> "none"]

\* The refresh steps before the classification: cargo update re-resolves the
\* lock, the other tools change other files.
Refresh ==
    /\ progress = "clean"
    /\ progress' = "refreshed"
    /\ lock' \in Locks
    /\ otherFiles' \in SUBSET OtherFiles
    /\ pyRuntimeChanged' \in BOOLEAN
    /\ pyRuntimeChanged' => "pyproject.toml" \in otherFiles'
    /\ UNCHANGED <<base, classification>>

\* main
Classify ==
    /\ progress # "classified"
    /\ progress' = "classified"
    /\ classification' = ClassifyWorkspace
    /\ UNCHANGED <<base, lock, otherFiles, pyRuntimeChanged>>

ClassifierNext == Refresh \/ Classify

ClassifierSpec == ClassifierInit /\ [][ClassifierNext]_classifierVars

-----------------------------------------------------------------------------
ClassifierTypeOK ==
    /\ base \in Locks
    /\ lock \in Locks
    /\ otherFiles \subseteq OtherFiles
    /\ pyRuntimeChanged \in BOOLEAN
    /\ progress \in {"clean", "refreshed", "classified"}
    /\ classification \in [releaseNeeded : BOOLEAN, reason : Reasons \cup {"none"}]
    /\ progress = "classified" => classification.reason # "none"

\* What a wheel for the given targets is built from: the packages reached and
\* what each of them resolves its requirements to.
BuildGraph(l, uses) ==
    {e \in Edges(l, uses) : e[1] \in Reached(l, Edges(l, uses))}

NotNeeded == progress = "classified" /\ ~classification.releaseNeeded

\* A refresh classified as needing no release leaves the graph that is built
\* into the runner's own wheels exactly as it was: no package joins, leaves or
\* is re-resolved, whatever cargo update did to the rest of the lock.
HostBuildGraphUnchanged ==
    NotNeeded => BuildGraph(lock, HostUse) = BuildGraph(base, HostUse)
=============================================================================
