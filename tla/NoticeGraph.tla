----------------------------- MODULE NoticeGraph -----------------------------
(***************************************************************************)
(* scripts/generate_third_party_notices.py: walk the normal dependencies   *)
(* from this crate, render one notice for each package that came from a    *)
(* registry, then write THIRD_PARTY_NOTICES.md or compare it.              *)
(***************************************************************************)
EXTENDS CargoGraph, Integers

CONSTANT Registry   \* the packages with a source; workspace members have none

ASSUME RegistryAssumption == Registry \subseteq Packages /\ Root \notin Registry

VARIABLES
    notices,    \* the packages that THIRD_PARTY_NOTICES.md lists
    option,     \* "write" (--write) or "check" (the default and --check)
    phase,      \* "idle", "walking" or "rendered"
    pending,    \* node ids still to visit
    seen,       \* node ids found
    generated,  \* the packages the rendered document lists
    exit        \* exit status of the last run, -1 before the first

noticeVars == <<lock, notices, option, phase, pending, seen, generated, exit>>

-----------------------------------------------------------------------------
\* The normal dependencies of a node: those with a dep_kind whose kind is
\* null, whatever its target.
NormalDeps(l, p) ==
    {l[p][r] : r \in {r \in Requires[p] : \E u \in r.uses : u[1] = "normal"}}

\* What the notices of a lock have to list.
ShippedPackages(l) == Reached(l, Edges(l, NormalUse)) \cap Registry

NoticeInit ==
    /\ lock \in Locks
    /\ notices \in SUBSET Registry   \* whatever was committed or edited
    /\ option = "check"
    /\ phase = "idle"
    /\ pending = {} /\ seen = {} /\ generated = {}
    /\ exit = -1

\* cargo update, between two runs of the script.
Relock ==
    /\ phase = "idle"
    /\ lock' \in Locks
    /\ exit' = -1
    /\ UNCHANGED <<notices, option, phase, pending, seen, generated>>

\* main up to the loop of _normal_dependency_ids: the root is pending.
Start ==
    /\ phase = "idle"
    /\ option' \in {"write", "check"}
    /\ phase' = "walking"
    /\ pending' = {Root}
    /\ seen' = {}
    /\ exit' = -1
    /\ UNCHANGED <<lock, notices, generated>>

\* Variant: a node is looked at, not popped.
Visit_NotPopped ==
    \E current \in pending :
        LET fresh == NormalDeps(lock, current) \ seen IN
        /\ phase = "walking"
        /\ seen' = seen \cup fresh
        /\ pending' = pending \cup fresh
        /\ UNCHANGED <<lock, notices, option, phase, generated, exit>>

\* Variant: only the direct dependencies are followed.
Visit_DirectOnly ==
    \E current \in pending :
        /\ phase = "walking"
        /\ seen' = seen \cup NormalDeps(lock, current)
        /\ pending' = pending \ {current}
        /\ UNCHANGED <<lock, notices, option, phase, generated, exit>>

\* One turn of the loop. The code pops the node found last; any order is
\* allowed here.
Visit ==
    \E current \in pending :
        LET fresh == NormalDeps(lock, current) \ seen IN
        /\ phase = "walking"
        /\ seen' = seen \cup fresh
        /\ pending' = (pending \ {current}) \cup fresh
        /\ UNCHANGED <<lock, notices, option, phase, generated, exit>>

\* Variant: members of the workspace are rendered too.
Render_Members ==
    /\ phase = "walking" /\ pending = {}
    /\ phase' = "rendered"
    /\ generated' = DOMAIN lock \cap seen
    /\ UNCHANGED <<lock, notices, option, pending, seen, exit>>

\* runtime_rust_entries and render_notices: a notice for each package of the
\* metadata that was found and has a source.
Render ==
    /\ phase = "walking" /\ pending = {}
    /\ phase' = "rendered"
    /\ generated' = DOMAIN lock \cap seen \cap Registry
    /\ UNCHANGED <<lock, notices, option, pending, seen, exit>>

\* Variant: a check only looks for packages without a notice.
Finish_CheckMissing ==
    /\ phase = "rendered"
    /\ phase' = "idle" /\ seen' = {} /\ generated' = {}
    /\ IF option = "write"
       THEN notices' = generated /\ exit' = 0
       ELSE notices' = notices /\ exit' = IF generated \subseteq notices THEN 0 ELSE 1
    /\ UNCHANGED <<lock, option, pending>>

\* The end of main.
Finish ==
    /\ phase = "rendered"
    /\ phase' = "idle" /\ seen' = {} /\ generated' = {}
    /\ IF option = "write"
       THEN notices' = generated /\ exit' = 0
       ELSE notices' = notices /\ exit' = IF notices # generated THEN 1 ELSE 0
    /\ UNCHANGED <<lock, option, pending>>

Script == Visit \/ Render \/ Finish

NoticeNext == Relock \/ Start \/ Script

\* A run of the script that was started is carried to its end.
NoticeSpec == NoticeInit /\ [][NoticeNext]_noticeVars /\ WF_noticeVars(Script)

-----------------------------------------------------------------------------
NoticeTypeOK ==
    /\ lock \in Locks
    /\ notices \subseteq Packages
    /\ option \in {"write", "check"}
    /\ phase \in {"idle", "walking", "rendered"}
    /\ pending \subseteq DOMAIN lock
    /\ seen \subseteq Packages
    /\ generated \subseteq Registry
    /\ exit \in {-1, 0, 1}

\* The rendered document lists exactly the registry packages that normal
\* dependencies of any target reach: none is missed however the graph is
\* shared or shaped, and none that only builds or tests need is listed.
NoticesAreTheShippedPackages == phase = "rendered" => generated = ShippedPackages(lock)

\* A run that exits with 0 leaves a notice file that is right for the lock it
\* read, and a check of a right file never fails.
CheckIsExact ==
    /\ exit = 0 => notices = ShippedPackages(lock)
    /\ exit = 1 => notices # ShippedPackages(lock)

\* The walk ends: no node is queued for ever, shared dependencies or not.
EveryRunEnds == phase = "walking" ~> phase = "idle"
=============================================================================
