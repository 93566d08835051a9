------------------------------ MODULE MCScripts ------------------------------
(***************************************************************************)
(* The scripts that work in a checkout of their own: the classifier, the   *)
(* notices, the GitHub Actions refresh, the surface scan, the override     *)
(* audit, and the files of a run of wheels.yml with its artifact checks.   *)
(* They hand nothing to one another but files that are complete, so each   *)
(* behaviour of this instance is of one of them, and the others rest.      *)
(***************************************************************************)
EXTENDS MCCargoGraph, MCActionsRefresh, MCSurfaceScan, MCOverrideAudit, MCReleaseFiles

VARIABLE script   \* the script of this behaviour

Scripts == {"classifier", "notices", "actions", "scan", "overrides", "files"}

classifierOnly == <<base, otherFiles, pyRuntimeChanged, progress, classification>>
noticeOnly == <<notices, option, phase, pending, seen, generated, exit>>
allVars == <<script, lock, classifierOnly, noticeOnly, actionsVars, scanVars, overrideVars, filesVars>>

\* A script that rests has one initial state.
FirstLock == CHOOSE l \in Locks : TRUE
FullIndex == {"options", "optimize", "force", "enum", "one", "two"}
FullManifest ==
    CHOOSE m \in Manifests : m.exposedOptions = {"force"} /\ Cardinality(m.exposedVariants) = 2
InitialNotices == {S \cup {"c"} : S \in SUBSET (Registry \ {"c"})}   \* of c and of any other crates
NothingLocked == [o \in SUBSET Overridden |-> [p \in Overridden |-> {}]]

Init ==
    /\ script \in Scripts
    /\ IF script \in {"classifier", "notices"} THEN lock \in Locks ELSE lock = FirstLock
    /\ IF script = "notices" THEN notices \in InitialNotices ELSE notices = {}
    /\ IF script = "scan" THEN index \in Indexes /\ manifest \in Manifests
                          ELSE index = FullIndex /\ manifest = FullManifest
    /\ IF script = "overrides" THEN uv \in Resolvers ELSE uv = NothingLocked
    /\ base = lock
    /\ IF script = "files" THEN rehearsal \in BOOLEAN ELSE rehearsal = FALSE
    /\ ClassifierInit /\ NoticeInit /\ ActionsInit /\ ScanInit /\ OverrideInit /\ FilesInit

Next ==
    /\ UNCHANGED script
    /\ \/ /\ script = "classifier" /\ ClassifierNext
          /\ UNCHANGED <<noticeOnly, actionsVars, scanVars, overrideVars, filesVars>>
       \/ /\ script = "notices" /\ NoticeNext
          /\ UNCHANGED <<classifierOnly, actionsVars, scanVars, overrideVars, filesVars>>
       \/ /\ script = "actions" /\ ActionsNext
          /\ UNCHANGED <<lock, classifierOnly, noticeOnly, scanVars, overrideVars, filesVars>>
       \/ /\ script = "scan" /\ ScanNext
          /\ UNCHANGED <<lock, classifierOnly, noticeOnly, actionsVars, overrideVars, filesVars>>
       \/ /\ script = "overrides" /\ OverrideNext
          /\ UNCHANGED <<lock, classifierOnly, noticeOnly, actionsVars, scanVars, filesVars>>
       \/ /\ script = "files" /\ FilesNext
          /\ UNCHANGED <<lock, classifierOnly, noticeOnly, actionsVars, scanVars, overrideVars>>

Spec == Init /\ [][Next]_allVars /\ WF_noticeVars(Script)

\* The variables of each script have their types, and the parts of its state
\* that say the same thing twice agree.
TypeOK ==
    /\ script \in Scripts
    /\ script = "classifier" => ClassifierTypeOK
    /\ script = "notices" => NoticeTypeOK
    /\ script = "actions" => ActionsTypeOK
    /\ script = "scan" => ScanTypeOK
    /\ script = "overrides" => OverrideTypeOK
    /\ script = "files" => FilesTypeOK
=============================================================================
