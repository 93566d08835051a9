--------------------------- MODULE MCOptimizeFile ---------------------------
(***************************************************************************)
(* Small instances of OptimizeFile: a.png and b.png, two callers. *)
(***************************************************************************)
EXTENDS OptimizeFile, TLC

CONSTANTS a, b, abak, bbak, c1, c2

MCPaths == {a, b}
MCBackups == {abak, bbak}
MCBak == (a :> abak) @@ (b :> bbak)

InPlace(p, backup, force) ==
    [in |-> p, out |-> NoPath, backup |-> backup, force |-> force, dry |-> FALSE]
Convert(p, q) ==
    [in |-> p, out |-> q, backup |-> FALSE, force |-> FALSE, dry |-> FALSE]
Analyze(p) ==
    [in |-> p, out |-> NoPath, backup |-> FALSE, force |-> FALSE, dry |-> TRUE]

\* Every in-place write of a.png has a backup; b.png is an output of c1 only.
GuardedJobs ==
    (c1 :> {InPlace(a, TRUE, FALSE), Convert(a, b), InPlace(b, TRUE, FALSE)}) @@
    (c2 :> {InPlace(a, TRUE, TRUE), Analyze(b)})

\* Calls with and without backup meet on a.png.
MixedJobs ==
    (c1 :> {InPlace(a, TRUE, FALSE), [Convert(a, b) EXCEPT !.backup = TRUE]}) @@
    (c2 :> {InPlace(a, FALSE, FALSE)})
=============================================================================
