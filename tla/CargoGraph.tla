----------------------------- MODULE CargoGraph -----------------------------
(***************************************************************************)
(* What Cargo.lock and cargo's resolved graph are to the scripts that read *)
(* them: scripts/generate_third_party_notices.py (cargo metadata) and      *)
(* scripts/classify_dependency_refresh.py (Cargo.lock, cargo tree).        *)
(* A package is one name, version and source, as CargoPackageKey is.       *)
(***************************************************************************)
EXTENDS FiniteSets

CONSTANTS
    Packages,   \* package identities that can be locked
    Root,       \* this crate, oxipng-pybind
    NameOf,     \* the crate name of each package
    Requires,   \* the requirements in the manifest of each package
    Locks       \* the resolutions that cargo may have written to Cargo.lock

VARIABLE lock   \* Cargo.lock of the checkout

\* One requirement of a manifest: the packages whose version satisfies it,
\* and the dep_kinds cargo metadata lists for it, as pairs of a kind and
\* whether it holds on the Linux runner ("host") or only on the targets of
\* the other wheels ("foreign").
Requirement == [fits : SUBSET Packages,
                uses : SUBSET ({"normal", "build", "dev"} \X {"host", "foreign"})]

\* A manifest names a crate at most once, and a requirement names one crate.
ASSUME GraphAssumption ==
    /\ Root \in Packages
    /\ Requires \in [Packages -> SUBSET Requirement]
    /\ \A p \in Packages : \A r \in Requires[p] :
          \A q1, q2 \in r.fits : NameOf[q1] = NameOf[q2]
    /\ \A p \in Packages : \A r1, r2 \in Requires[p] :
          (\E q1 \in r1.fits, q2 \in r2.fits : NameOf[q1] = NameOf[q2]) => r1 = r2

-----------------------------------------------------------------------------
\* A lock maps each locked package to the package that each of its
\* requirements is resolved to.
IsResolved(l) ==
    /\ DOMAIN l \subseteq Packages
    /\ Root \in DOMAIN l
    /\ \A p \in DOMAIN l :
          /\ l[p] \in [Requires[p] -> DOMAIN l]
          /\ \A r \in Requires[p] : l[p][r] \in r.fits

ASSUME LocksAssumption == \A l \in Locks : IsResolved(l)

\* The edges of the resolved graph that have one of the given uses.
Edges(l, uses) ==
    {e \in (DOMAIN l) \X (DOMAIN l) :
        \E r \in Requires[e[1]] : l[e[1]][r] = e[2] /\ r.uses \cap uses # {}}

NormalUse == {"normal"} \X {"host", "foreign"}
HostUse == {"normal", "build"} \X {"host"}

ClosedUnder(S, edges) == \A e \in edges : e[1] \in S => e[2] \in S

\* The packages a graph walk from the root meets: the least set that holds
\* the root and is closed under the edges.
Reached(l, edges) ==
    LET closed == {S \in SUBSET (DOMAIN l) : Root \in S /\ ClosedUnder(S, edges)}
    IN  {p \in DOMAIN l : \A S \in closed : p \in S}
=============================================================================
