--------------------------- MODULE MCUpstreamBumpPR ---------------------------
(***************************************************************************)
(* Runs that do not overlap, with every fault and with none. Three         *)
(* releases, so that a pull request of an earlier release is open when the *)
(* next, working or breaking, comes.                                       *)
(***************************************************************************)
EXTENDS UpstreamBumpPR

OneSlot == {"s1"}

NoneOrAll == {{}, {"flaky", "slow", "gh"}}
=============================================================================
