---------------------------- MODULE BumpUpstream ----------------------------
(***************************************************************************)
(* scripts/bump_upstream.py in one working tree: the bump to the latest    *)
(* upstream release and the wrapper-only post release, run again and again *)
(* as upstream releases and as runs fail half way.                         *)
(*                                                                         *)
(* Every file that the script writes is a variable; a run is a row of      *)
(* steps, each of which writes one file and may fail before it does (no    *)
(* network, no cargo, a broken file, an interrupt).  GitHub, crates.io,    *)
(* cargo and uv are external.  Upstream versions are numbered in order; a  *)
(* wrapper version is an upstream version and the number of its post       *)
(* release, 0 for none.                                                    *)
(***************************************************************************)
EXTENDS Naturals

CONSTANTS
    MaxVersion,   \* bound: the last upstream version
    MaxPost,      \* bound: the last post release of a version
    MaxFailures   \* bound: how many runs fail

ASSUME BumpUpstreamAssumption ==
    MaxVersion \in Nat \ {0} /\ MaxPost \in Nat /\ MaxFailures \in Nat

Upstream == 1..MaxVersion
Wrapper == Upstream \X (0..MaxPost)

VARIABLES
    latest,     \* the latest upstream release on GitHub
    indexed,    \* the upstream versions that crates.io knows
    pin,        \* Cargo.toml: the version of the oxi dependency
    package,    \* Cargo.toml: the version of the Rust package
    project,    \* pyproject.toml: the wrapper version
    cargoLock,  \* Cargo.lock: the version of oxipng
    uvLock,     \* uv.lock: the wrapper version
    notes,      \* CHANGELOG.md: the wrapper versions that have an entry
    bumpTo,     \* .cache/upstream-bump/target-version.txt
    step,       \* the next step of the run, or idle
    target,     \* its argument: the upstream version that it bumps to
    failures    \* how many runs have failed

files == <<pin, package, project, cargoLock, uvLock, notes, bumpTo>>
world == <<latest, indexed>>
vars == <<world, files, step, target, failures>>

Steps == {"resolve", "crate", "pyproject", "cargo", "cargo_lock", "uv_lock", "note",
          "post_pyproject", "post_uv_lock"}

TypeOK ==
    /\ latest \in Upstream /\ indexed \subseteq Upstream
    /\ pin \in Upstream /\ package \in Upstream /\ cargoLock \in Upstream
    /\ project \in Wrapper /\ uvLock \in Wrapper
    /\ notes \subseteq Wrapper /\ bumpTo \in Upstream
    /\ step \in Steps \cup {"idle"}
    /\ target \in Upstream
    /\ failures \in 0..MaxFailures
    /\ target <= latest /\ pin <= latest /\ indexed \subseteq 1..latest

\* A consistent tree at the first version.
Init ==
    /\ latest = 1 /\ indexed = {1}
    /\ pin = 1 /\ package = 1 /\ project = <<1, 0>>
    /\ cargoLock = 1 /\ uvLock = <<1, 0>> /\ notes = {<<1, 0>>} /\ bumpTo = 1
    /\ step = "idle" /\ target = 1 /\ failures = 0

-----------------------------------------------------------------------------
(* The world outside.                                                      *)

UpstreamReleases ==
    /\ latest < MaxVersion
    /\ latest' = latest + 1
    /\ UNCHANGED <<indexed, files, step, target, failures>>

\* crates.io may be behind GitHub.
CrateIndexed ==
    /\ \E v \in 1..latest : indexed' = indexed \cup {v}
    /\ UNCHANGED <<latest, files, step, target, failures>>

-----------------------------------------------------------------------------
(* Runs of the script.                                                     *)

Goto(s) == step' = s /\ UNCHANGED <<target, failures>>

\* python scripts/bump_upstream.py
Bump ==
    /\ step = "idle"
    /\ Goto("resolve")
    /\ UNCHANGED <<world, files>>

\* python scripts/bump_upstream.py --version v, of a release that was reviewed.
BumpTo(v) ==
    /\ step = "idle"
    /\ v <= latest
    /\ target' = v
    /\ step' = "crate"
    /\ UNCHANGED <<world, files, failures>>

\* python scripts/bump_upstream.py --wrapper-post
WrapperPost ==
    /\ step = "idle"
    /\ project[2] < MaxPost
    /\ Goto("post_pyproject")
    /\ UNCHANGED <<world, files>>

\* latest_upstream_version, on GitHub.
Resolve ==
    /\ step = "resolve"
    /\ target' = latest
    /\ step' = "crate"
    /\ UNCHANGED <<world, files, failures>>

Available == target \in indexed

RetryLater ==
    /\ step = "crate"
    /\ ~Available
    /\ Goto("idle")
    /\ UNCHANGED <<world, files>>

\* Variant: nothing tells a version that is pinned already.
Pinned_Unknown == FALSE

\* Variant: pyproject.toml is asked, which is written first.
Pinned_Wrapped == project[1] = target

Pinned == pin = target

AlreadyPins ==
    /\ step = "crate"
    /\ Available /\ Pinned
    /\ bumpTo' = target
    /\ Goto("idle")
    /\ UNCHANGED <<world, pin, package, project, cargoLock, uvLock, notes>>

\* bump_upstream_files begins: it reads the pin and writes down the target.
BeginFiles ==
    /\ step = "crate"
    /\ Available /\ ~Pinned
    /\ bumpTo' = target
    /\ Goto("pyproject")
    /\ UNCHANGED <<world, pin, package, project, cargoLock, uvLock, notes>>

UpdatePyproject ==
    /\ step = "pyproject"
    /\ project' = <<target, 0>>
    /\ Goto("cargo")
    /\ UNCHANGED <<world, pin, package, cargoLock, uvLock, notes, bumpTo>>

UpdateCargo ==
    /\ step = "cargo"
    /\ pin' = target
    /\ package' = target
    /\ Goto("cargo_lock")
    /\ UNCHANGED <<world, project, cargoLock, uvLock, notes, bumpTo>>

\* Variant: Cargo.lock is left to the next build.
UpdateCargoLock_Skip ==
    /\ step = "cargo_lock"
    /\ Goto("uv_lock")
    /\ UNCHANGED <<world, files>>

\* cargo update --precise.
UpdateCargoLock ==
    /\ step = "cargo_lock"
    /\ cargoLock' = target
    /\ Goto("uv_lock")
    /\ UNCHANGED <<world, pin, package, project, uvLock, notes, bumpTo>>

UpdateUvLock ==
    /\ step \in {"uv_lock", "post_uv_lock"}
    /\ uvLock' = project
    /\ Goto(IF step = "uv_lock" THEN "note" ELSE "idle")
    /\ UNCHANGED <<world, pin, package, project, cargoLock, notes, bumpTo>>

\* append_upstream_release_note, of the version that pyproject.toml now has.
AppendNote ==
    /\ step = "note"
    /\ notes' = notes \cup {project}
    /\ Goto("idle")
    /\ UNCHANGED <<world, pin, package, project, cargoLock, uvLock, bumpTo>>

\* Variant: the next release of the wrapper, not its next post release.
NextPost_Base(w) == <<w[1] + 1, 0>>

NextPost(w) == <<w[1], w[2] + 1>>

UpdatePostPyproject ==
    /\ step = "post_pyproject"
    /\ project' = NextPost(project)
    /\ Goto("post_uv_lock")
    /\ UNCHANGED <<world, pin, package, cargoLock, uvLock, notes, bumpTo>>

\* The run ends before its next step; what it wrote stays.
Fail ==
    /\ step # "idle" /\ failures < MaxFailures
    /\ failures' = failures + 1
    /\ step' = "idle"
    /\ UNCHANGED <<world, files, target>>

Proceed ==
    \/ Resolve \/ RetryLater \/ AlreadyPins \/ BeginFiles
    \/ UpdatePyproject \/ UpdateCargo \/ UpdateCargoLock \/ UpdateUvLock \/ AppendNote
    \/ UpdatePostPyproject

Next ==
    \/ UpstreamReleases \/ CrateIndexed
    \/ Bump \/ (\E v \in Upstream : BumpTo(v)) \/ WrapperPost
    \/ Proceed \/ Fail

Spec == Init /\ [][Next]_vars

\* Runs that were started go on, the bump is run every week, and crates.io
\* catches up with the latest release.
Fairness ==
    /\ WF_vars(Proceed)
    /\ SF_vars(Bump)
    /\ WF_vars(CrateIndexed /\ indexed' = indexed \cup {latest} /\ indexed' # indexed)

FairSpec == Spec /\ Fairness

-----------------------------------------------------------------------------
(* Properties.                                                             *)

\* The seven files speak of the same release.
FilesAgree ==
    /\ package = pin /\ cargoLock = pin /\ bumpTo = pin
    /\ project[1] = pin /\ uvLock = project
    /\ <<pin, 0>> \in notes

\* As long as no run has failed, whatever mixture of bumps, deferred bumps,
\* bumps to a chosen version and post releases was run leaves a tree in which
\* all the files speak of the same release (bump_upstream_files,
\* bump_wrapper_post_release).
UnfailedRunsAgree == step = "idle" /\ failures = 0 => FilesAgree

\* Even after runs that failed half way, the changelog announces a release only
\* in a tree whose every other file has moved to it: the note is what makes a
\* bump complete (append_upstream_release_note, the last write).
AnnouncedTreesAgree == [][notes' # notes => FilesAgree']_vars

\* As long as no run has failed, no bump takes a post release of the version
\* that it wraps back (docs/process/upstream-bumps.md, "leaves existing wrapper
\* post releases unchanged").
PostReleasesStand ==
    [][failures = 0 /\ project'[1] = project[1] => project'[2] >= project[2]]_vars

\* Whatever fails now and then, whatever other version is chosen meanwhile, the
\* weekly bump comes back to the latest release.
PinCatchesUp == []<>(pin = latest)
=============================================================================
