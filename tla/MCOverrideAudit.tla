--------------------------- MODULE MCOverrideAudit ---------------------------
(***************************************************************************)
(* One or two overrides of a floor of 2, any resolver.                     *)
(***************************************************************************)
EXTENDS OverrideAudit

MCFloor == [p \in Overridden |-> 2]
=============================================================================
