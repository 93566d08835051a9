--------------------------- MODULE MCActionsRefresh ---------------------------
(***************************************************************************)
(* Two workflow files, an action and the toolchain, two releases each.     *)
(***************************************************************************)
EXTENDS ActionsRefresh

MCWorkflows == <<"ci.yml", "wheels.yml">>

MCUses == [w \in {"ci.yml", "wheels.yml"} |->
              IF w = "ci.yml" THEN {"checkout"} ELSE {"checkout", "rust"}]
=============================================================================
