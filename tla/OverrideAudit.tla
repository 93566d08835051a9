---------------------------- MODULE OverrideAudit ----------------------------
(***************************************************************************)
(* scripts/audit_dependency_overrides.py and the removals it asks for:     *)
(* overrides raise a dependency past what its parents request; the audit   *)
(* locks the project without any of them and flags each override whose     *)
(* floor that lock meets; a maintainer removes what is flagged and locks   *)
(* again. uv is external: it may lock a package at several versions, one   *)
(* per environment, and what it locks depends on the overrides in force.   *)
(***************************************************************************)
EXTENDS Naturals, FiniteSetsExt

CONSTANTS
    Overridden,   \* the overridden dependencies
    Floor,        \* the lowest version that an override of each allows
    MaxResolved,  \* bound: the versions of a package are 1..MaxResolved
    MaxLocked     \* bound: how many versions of a package one lock may have

Version == 1..MaxResolved

NoAudit == {"none"}

ASSUME FloorAssumption ==
    /\ MaxResolved \in Nat /\ MaxLocked \in Nat /\ Floor \in [Overridden -> Version]
    /\ NoAudit \notin SUBSET Overridden

VARIABLES
    uv,         \* what uv locks for each set of overrides
    overrides,  \* the packages that pyproject.toml overrides
    uvLock,     \* uv.lock: the versions of each package, none if it is gone
    flagged     \* what the last audit found removable, or NoAudit

overrideVars == <<uv, overrides, uvLock, flagged>>

-----------------------------------------------------------------------------
UvLocks == [Overridden -> {versions \in SUBSET Version : Cardinality(versions) <= MaxLocked}]

MeetsFloor(p, l) == \A v \in l[p] : v >= Floor[p]

\* An override rules over the requests of all parents, everywhere.
Resolvers ==
    {u \in [SUBSET Overridden -> UvLocks] : \A o \in SUBSET Overridden : \A p \in o : MeetsFloor(p, u[o])}

Sound(l) == \A p \in Overridden : MeetsFloor(p, l)

\* Every package is overridden; what uv locks is what parents have released by
\* now.
OverrideInit ==
    /\ uv \in Resolvers
    /\ overrides = Overridden /\ uvLock = uv[Overridden] /\ flagged = NoAudit

-----------------------------------------------------------------------------
\* Variant: the audit looks at the lock that is there.
Natural_Locked == uvLock

\* build_probe_pyproject drops all the overrides at once.
Natural == uv[{}]

\* uv.lock lists a package's versions in ascending order; in the dict that is
\* made of them, the last one stays.
ResolvedVersion(p) == Max(Natural[p])

\* Variant: a dependency that is gone is kept.
Redundant_Gone(p) == Natural[p] # {} /\ ResolvedVersion(p) >= Floor[p]

Redundant(p) == Natural[p] = {} \/ ResolvedVersion(p) >= Floor[p]

EvaluateOverrides == {p \in overrides : Redundant(p)}

Audit ==
    /\ flagged = NoAudit
    /\ flagged' = EvaluateOverrides
    /\ UNCHANGED <<uv, overrides, uvLock>>

\* Variant: one of them is removed.
Remove_One ==
    /\ flagged \notin {NoAudit, {}}
    /\ overrides' = overrides \ {CHOOSE p \in flagged : TRUE}
    /\ uvLock' = uv[overrides']
    /\ flagged' = NoAudit
    /\ UNCHANGED uv

\* Variant: the lock is left as it is.
Remove_NotLocked ==
    /\ flagged \notin {NoAudit, {}}
    /\ overrides' = overrides \ flagged
    /\ flagged' = NoAudit
    /\ UNCHANGED <<uv, uvLock>>

\* "Remove each from [tool.uv] override-dependencies, re-lock."
Remove ==
    /\ flagged \notin {NoAudit, {}}
    /\ overrides' = overrides \ flagged
    /\ uvLock' = uv[overrides']
    /\ flagged' = NoAudit
    /\ UNCHANGED uv

OverrideNext == Audit \/ Remove

OverrideSpec == OverrideInit /\ [][OverrideNext]_overrideVars

-----------------------------------------------------------------------------
OverrideTypeOK ==
    /\ uv \in Resolvers /\ overrides \subseteq Overridden
    /\ uvLock = uv[overrides] /\ (flagged = NoAudit \/ flagged \subseteq overrides)

\* What the audits of a project come to: an audit that flags nothing has left
\* only overrides without which their package would be locked below its floor
\* somewhere, it does so after one round of removals, and when everything was
\* flagged the lock without overrides meets every floor, unless a package is
\* locked at several versions.
AuditsLeaveWhatIsNeeded ==
    /\ flagged = {} => \A p \in overrides : ~MeetsFloor(p, Natural)
    /\ flagged \notin {NoAudit, {}} => overrides = Overridden
    /\ overrides = {} /\ (\A p \in Overridden : Cardinality(uvLock[p]) <= 1) => Sound(uvLock)
=============================================================================
