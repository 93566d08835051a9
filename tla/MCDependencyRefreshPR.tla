------------------------ MODULE MCDependencyRefreshPR ------------------------
(***************************************************************************)
(* Two overlapping runs; a tool and, in the run on auto-merge, a shipped   *)
(* crate in the lock file, a new SHA of one action, a commit of people     *)
(* that also touches the lock file and one that adds a job which uses the  *)
(* action as it was reviewed before.                                       *)
(***************************************************************************)
EXTENDS DependencyRefreshPR

MCRuns == {"r1", "r2"}

MCPathOf ==
    [c \in {"tool", "crate", "commit", "job", "pin", "jobpin", "sign"} |->
        CASE c \in {"tool", "crate", "commit"} -> "Cargo.lock"
          [] c \in {"pin", "jobpin", "job"}    -> "workflows"
          [] c = "sign"                        -> "helpers"]

MCLineOf == [p \in {"pin", "jobpin"} |-> IF p = "pin" THEN "line" ELSE "jobline"]
MCLinesOf == [c \in {"commit", "job"} |-> IF c = "job" THEN {"jobline"} ELSE {}]
MCActionOf == [x \in {"line", "jobline", "sign"} |-> "checkout"]
MCShaOf == [x \in {"pin", "jobpin", "sign"} |-> 1]
=============================================================================
