--------------------------- MODULE BackupContract ---------------------------
(***************************************************************************)
(* What optimize(..., backup=True) promises for a file that is written in  *)
(* place by such calls only: the file is replaced after its original has   *)
(* been saved and never before, and a saved original stays saved.          *)
(***************************************************************************)
CONSTANT Files      \* the files under the promise
VARIABLE phase      \* what has become of each of them

Phases == {"unsaved", "saved", "replaced"}

Init == phase = [p \in Files |-> "unsaved"]

\* The original is in its place; a copy of it becomes complete.
Save(p) == phase[p] = "unsaved" /\ phase' = [phase EXCEPT ![p] = "saved"]

\* The saved file is cut or changed.
Replace(p) == phase[p] = "saved" /\ phase' = [phase EXCEPT ![p] = "replaced"]

\* A forced write put the bytes of the original back.
Restore(p) == phase[p] = "replaced" /\ phase' = [phase EXCEPT ![p] = "saved"]

Next == \E p \in Files : Save(p) \/ Replace(p) \/ Restore(p)

Spec == Init /\ [][Next]_phase
=============================================================================
