----------------------------- MODULE MCCargoGraph -----------------------------
(***************************************************************************)
(* A manifest with crates a and b of two versions, of which b is shared by *)
(* what ships here, what ships elsewhere and what only tests need, and a   *)
(* crate for builds; every resolution of it.                               *)
(***************************************************************************)
EXTENDS RefreshClassifier, NoticeGraph, TLC, FiniteSetsExt, Functions

Req(fits, kinds, target) == [fits |-> fits, uses |-> kinds \X {target}]

MCPackages == {"root", "a1", "a2", "b1", "b2", "c", "d", "m"}

MCNameOf ==
    [p \in MCPackages |->
        CASE p \in {"a1", "a2"} -> "a" [] p \in {"b1", "b2"} -> "b" [] OTHER -> p]

Bs == {"b1", "b2"}

\* a is a normal and a build dependency, c is for builds only, d for tests; m
\* is a member of the workspace that other targets need.
MCRequires ==
    [p \in MCPackages |->
        CASE p = "root" -> {Req({"a1", "a2"}, {"normal", "build"}, "host"),
                            Req({"c"}, {"build"}, "host"), Req({"d"}, {"dev"}, "host"),
                            Req({"m"}, {"normal"}, "foreign")}
          [] p = "a1"   -> {Req(Bs, {"normal"}, "host")}
          [] p = "a2"   -> {Req({"b2"}, {"normal"}, "host")}
          [] p = "d"    -> {Req(Bs, {"normal"}, "host")}
          [] p = "m"    -> {Req({"b1"}, {"normal"}, "host")}
          [] OTHER      -> {}]

MCRegistry == MCPackages \ {"root", "m"}

\* Every choice for the requirements, and the part of it that is locked.
MCLocks ==
    LET reqs    == {<<p, r>> : p \in MCPackages, r \in UNION {MCRequires[p] : p \in MCPackages}}
        used    == {pr \in reqs : pr[2] \in MCRequires[pr[1]]}
        extend(pr, fs) == {f @@ (pr :> q) : f \in fs, q \in pr[2].fits}
        choices == FoldSet(extend, {<<>>}, used)
        full(f) == [p \in MCPackages |-> [r \in MCRequires[p] |-> f[<<p, r>>]]]
        step(l, S) == S \cup UNION {{l[p][r] : r \in MCRequires[p]} : p \in S}
        locked(l) == step(l, step(l, step(l, {"root"})))
    IN  {LET l == full(f) IN Restrict(l, locked(l)) : f \in choices}
=============================================================================
