# Verification of oxipng-pybind

oxipng-pybind wraps the Rust library oxipng as a Python extension. This
directory holds TLA+ models of the parts of it that keep state or take
decisions, the TLC configurations that check them on small instances, and TLAPS
proofs of the properties that matter most for every size.

The modules are translated from the source, and `PROJECT.json` says which lines
each definition stands for. Code that is not in the repository (oxipng itself,
PyO3, GitHub, PyPI, crates.io, cargo, uv) is modelled from how the repository
uses it, and marked external there.

    tlc -config OptimizeFileGuarded.cfg MCOptimizeFile     # a run
    tlapm OptimizeFile_proofs.tla                          # a proof module

## 1. The system

### The extension

`src/lib.rs` is the native module. `oxipng/__init__.py` is the facade in front
of it, `oxipng/_pyoxipng_compat.py` the types of the older pyoxipng package that
it still accepts. Nothing persists between calls except what is on disk and what
a `RawImage` object holds.

| Component | State | Operations | What is hard |
|---|---|---|---|
| File API: `optimize`, `analyze` | files, their `.bak` files | parse, `create_backup`, oxipng's read, decode, truncate and write | the GIL is released for all of the I/O, so calls of threads and processes interleave; the backup copy and the read are two passes; a write starts with a truncation; every step may fail, or be the last of its process |
| Memory API: `optimize_from_memory`, `RawImage` methods | a `RawImage`, the caller's buffers | `add_png_chunk`, `add_icc_profile`, `create_optimized_png` | parsing the options may run Python code; encoding runs without the GIL while other threads have the same objects |
| Option parsing: `parse_options`, the facade | locals of one call | read each keyword in the order of the dictionary; merge into a preset | which check fails first, options that depend on one another, `None` next to absent, two facades that fill in different defaults |
| `RawImage` construction | a new image | two signatures, palette, transparency, length of the data, scan of indexed pixels | bits across byte and row ends, arithmetic in `usize` |

**Correctness.** The original of a file written with `backup=True` is never lost,
and the backup is exactly what was replaced. An error that is not `OSError`
means an untouched target. What is encoded is what the caller gave, whatever
happens to it meanwhile. Options come out as they were asked for, in whatever
order. A `RawImage` is made if and only if its data are well formed, and the
scan never indexes out of bounds.

### The automation

Scripts and workflows follow upstream releases, and turn commits into releases.
Their state is the working tree, the branches, pull requests and tags on GitHub,
and the files on PyPI; workflows share it with each other and with people, and
most have no concurrency group.

| Component | State | Operations | What is hard |
|---|---|---|---|
| `bump_upstream.py` | seven files of the tree | bump to the latest or to a chosen release, wrapper post release | writes one file after the other and calls cargo and uv in between; runs fail and are repeated; crates.io lags behind GitHub |
| Release pipeline: `release-tag.yml`, `wheels.yml`, `validate_release_tag.py` | main, checks, tags, PyPI | tag a bump; wait, build, validate and publish a tag | looked up at one step and used at another, up to an hour later; tags move; uploads stop in the middle |
| Upstream bump pull request: `upstream-bump.yml`, the triage issue of `bump_upstream.py`, `retry-failed-checks.yml` | branch, pull request with its checks and auto-merge, issues | prepare and check a bump, publish it, look for and write the issue, wait for wheels, enable auto-merge; retry failed checks once | main moves between the two jobs; one pull request is reused by later releases; a wait that ends before the retry it needs; every call to GitHub may fail |
| Dependency refresh: `dependency-health.yml`, `make accept-refresh-pr` | branch, pull request with auto-merge, a maintainer's clone | refresh, classify, publish, auto-merge or not; sign off and push with a lease | red refreshes are published too; runs overlap; the pull request is reused by later refreshes |
| Refresh classifier: `classify_dependency_refresh.py` | two versions of `Cargo.lock` | compare, look up what ships, classify | what ships is looked up in the new lock only, on one platform |
| Notices: `generate_third_party_notices.py` | `Cargo.lock`, the notice file | walk cargo's graph, render, write or check | shared dependencies, several versions of a crate, a file that is older than the lock |
| Surface scan: `scan_upstream_surface.py` | manifest, two documents, changelog | read the rustdoc index, compare, write three files | interrupted and repeated scans, triage in between, names that contain one another |
| GitHub Actions refresh: `update_github_actions.py` | workflows, allowlist, Makefile | read releases, rewrite the pins, report | reads while upstreams release, files one after the other, failures in between |
| Files of a release: the matrix of `wheels.yml`, `check_wheel_tags.py`, `verify_release_artifacts.py` | dist/, artifacts of the run | build, check, store, run again, publish | artifacts of several attempts come together |
| Override audit: `audit_dependency_overrides.py` | overrides, `uv.lock` | lock without overrides, flag what is not needed | one probe for all of them; several versions of a package |
| Settings audit, log filter, smoke test, release check scripts | none | reports | — |

**Correctness.** A tree between two bumps speaks of one release in all of its
files, and only a finished bump is announced. The weekly bump gets back to the
latest release. What is on PyPI under a version was built, all of it, from the
one commit that its tag names, that commit has passed its checks, and the tag
does not move any more. The automation tags only what it may.

Nobody's pull request takes main back to an older oxipng, or anything away that
the run which prepared it has seen; what breaks the wrapper, or uses an action
that has not been reviewed, is not brought to main by a merge. A good release does reach it.
Auto-merge is turned on for what has been checked. A refresh that claims to need
no release does not change what is built; the notices list exactly what ships; a
scan blocks exactly what breaks the wrapper; a pin that CI accepts
has been shown to somebody, or a broken-off sync has left it; an upload is one complete release; an override that the audit
keeps is needed.

### How the components meet

The facade calls the native functions with keyword dictionaries
(`ParseOptions`); these parse under the GIL and only then start on files
(`OptimizeFile`: a call that fails to parse is its action `Reject`) or on images
(`SharedInput`: `ParseFails`). `RawImageInput` makes the images that
`SharedInput` works on.

In the automation, `UpstreamBumpPR` runs the bump script (`BumpUpstream`) and the
scan (`SurfaceScan`) in its prepare job and goes on only if both have ended well;
its merged bump is a commit that `ReleasePipeline` may tag and publish, and the
build and upload in there, one action each, are what `ReleaseFiles` takes apart.
`DependencyRefreshPR` runs the actions refresh, the audits, the notices and the
classifier, and takes from them whether `make ci` is green and whether a release
is needed; `make accept-refresh-pr` is the sync of `ActionsRefresh` in a clone.
`RefreshClassifier` and `NoticeGraph` read the same `Cargo.lock`, the variable
`lock` of `CargoGraph`.

Otherwise the modules share no variables: at each of these borders one side hands
over a value and is not heard of again, so that nothing is gained by exploring
both sides' interleavings in one state space; the border's outcomes are inputs,
all of them, of the model behind it.

## 2. The modules

| Module | Models | Kind |
|---|---|---|
| `OptimizeFile` | file calls on shared files | state machine; refines `BackupContract` |
| `BackupContract` | the promise of `backup=True` | abstract specification |
| `SharedInput` | calls on shared images and buffers | state machine |
| `ParseOptions` | the facade and the option parser | state machine of one call, with pure checks |
| `RawImageInput` | the constructor of `RawImage` | pure checks and a scanning loop |
| `BumpUpstream` | the bump script in one tree | state machine |
| `ReleasePipeline` | tagging and publishing | state machine |
| `ReleaseFiles` | the files of one run of `wheels.yml`, and the artifact checks | state machine with pure checks |
| `UpstreamBumpPR` | the bump's pull request, issue, wait and auto-merge | state machine with fairness |
| `DependencyRefreshPR` | the refresh's pull request and its sign-off | state machine |
| `CargoGraph` | `Cargo.lock` and cargo's resolved graph | definitions, one variable |
| `RefreshClassifier` | the classifier, over `CargoGraph` | pure checks, three-step state machine |
| `NoticeGraph` | the notices, over `CargoGraph` | state machine with a worklist |
| `SurfaceScan` | the scan, its manifest and documents | state machine with pure checks |
| `ActionsRefresh` | the refresh and the sync of action pins | state machine |
| `OverrideAudit` | the audit and the removals it asks for | state machine |
| `MC...` | instances for TLC; `MCScripts` puts six of the above into one | constants, bounds |
| `OptimizeFile_proofs`, `SharedInput_proofs`, `ParseOptions_proofs`, `RawImageInput_proofs`, `ReleasePipeline_proofs`, `DependencyRefreshPR_proofs` | theorems about the module they are named for | proofs |
| `UpstreamBump_proofs` | theorems about `BumpUpstream` and `UpstreamBumpPR` | proofs |
| `Scripts_proofs` | theorems about the six modules that `MCScripts` puts together | proofs |

Each has a `TypeOK` (`ScanTypeOK`, ... where several are extended together), safety
invariants, action properties as `[][A]_vars` and, where the code's scheduling
justifies fairness, liveness. Where a theorem states the type invariant, no run
repeats it. Definitions whose
comment begins with "Variant:" are plausible bugs in the code, one per property,
each of which makes its property fail; they are not part of the specification.

### OptimizeFile

A file is a row of `NBlocks` blocks, a block holds a *version*: the image it
belongs to and how often that image has been made smaller. Blocks of two
versions in one file are a mixture, which does not decode.

| Action | Code |
|---|---|
| `Call`, `Reject` | entry of `optimize` and `analyze`, up to the release of the GIL |
| `CreateBackup`, `BackupFails`, `CopyBlock` | `create_backup`: open, `create_new`, `io::copy` |
| `ReadBlock`, `ReadMissing`, `DecodeFails` | oxipng reads and decodes (external) |
| `OptimizeNoWrite`, `OptimizeToWrite` | a result that is used or not: dry runs, `force`, an output of its own (external) |
| `CreateTarget`, `WriteBlock` | `File::create`, `write_all` (external) |
| `IoError` | any file operation fails, and becomes what `map_png_error` or `create_backup` make of it |
| `Crash` | the process dies between two steps |

`torn` remembers where a write was broken off and `wrote` whether a call
truncated its target: the code has no such variables, they are history for the
properties. `Jobs` says which calls each caller may make. `Guarded` are the
files that are written only by calls with `backup=True`; it is derived from
`Jobs`, and the promise is stated for them.

- `OriginalRecoverable`: the original of a guarded file is in its place, or whole
  in the backup.
- `GuardedBackupMatches`: the two passes, copy and read, saw the same bytes.
- `OnlyOsErrorAfterWrite`: every other error leaves the target alone.
- `QuietTargetWhole`: a file with one writer is whole whenever no call writes it,
  unless a write of it was broken off.
- `BackupKept`: nobody but the call that created a backup changes it.
- `KeepsContract`: the calls implement `BackupContract`, through the view `Phase`.
- `CallsReturn`: calls end.
- `EveryBackupWhole` is what the documentation promises next to calls *without*
  a backup too. It does not hold: see section 5.

### SharedInput

The content of an input is a counter of its changes. An activation is a call in
some thread, or one nested in the Python code that parsing runs. `Borrowed` is
PyO3's borrow flag (external): `&self` methods hold it until they return, and
`&mut self` methods raise `RuntimeError` meanwhile; a buffer is copied on entry
instead. `given` records what an input was at the call, `seen` everything that
oxipng reads in the course of it.

- `InputHeld`: the input of a running call is still what it was given.
- `EncodesGivenInput`: oxipng sees that, nothing later and never two states.

### ParseOptions

`Init` chooses a caller's options and which function is called with them:
`optimize`, `analyze` or `optimize_from_memory`, which fill in their defaults and
pass their own parameters on in an order of their own (`Order`), whatever else they
were given last (`Precedes`), or `RawImage.create_optimized_png`, which does neither.
Each `Read...` step takes one name of the dictionary; what `Order` leaves open comes in
the caller's order, and every such order is explored. `backup` and `preserve_attrs` are
parameters of `optimize` alone: given to another function they are refused, but only
after every parameter has been read. Values are records of a type, a number, a text
and items; which of them are accepted, and as what, is written down per parser
(`AcceptsFilter`, `ParsedStrip`, `DeflateError`, ...). A deflate value is only
kept where it is read, and parsed at the end.

- `OptionsAreAsked`: the options that come out are the preset with the values that
  were asked for, whatever the order. The reference (`Wanted`) is computed from
  the caller's options in one stroke, without the loop and its slots.
- `ErrorIsJustified`: an error is that of an option of the call, and of the first one
  at fault in the order of the function that was called; a bad deflate value wins only
  if nothing else is wrong.

### RawImageInput

The checks are expressions that yield "none" or an exception; `a ?? b` is "first
a, then b". The scan of indexed pixels is a loop of the state machine, since its
index arithmetic is the point. `MaxU32` and `UsizeRange` are parameters: u32 and
usize in small.

- `BuiltIffWellFormed`: an image is made exactly when an independent definition,
  by sample and not by byte, calls the arguments well formed.
- `NeverPanics`: the scan never reads outside of the data.
- `PngErrorMeansBadData`: a `PngError` is raised only for data of a wrong length
  or shape, after every argument was found right by itself.

### BumpUpstream

Every file is a variable, every write an action, and `Fail` may come before any
of them. Releases are numbers, a wrapper version is a pair of a release and a
post number. The environment releases upstream versions (`UpstreamReleases`) and
indexes them later (`CrateIndexed`).

- `UnfailedRunsAgree`: while no run has failed, all files agree between runs.
- `AnnouncedTreesAgree`: the changelog entry comes when all the others agree, also
  after failures.
- `PostReleasesStand`: a bump does not take a post release back.
- `PinCatchesUp`: the pin is the latest release again and again.

### ReleasePipeline

`main` is the history of a branch: for each commit its version and whether its
subject is the automation's. A run of `wheels.yml` is a record of its jobs; its
key is the tag and the commit that the push event carried. `PeelTag` reads the
tag anew, as the job that waits for the checks does, so that `sha` and the commit
that is built may differ. `passed` is history: the checks that a poll saw
succeed. A poll may see anything at any time. People push tags (`PushTagByHand`)
and move them by the rules of `docs/process/manual-release.md` (`MoveTag`: not
once PyPI has a file, and live runs of that version are stopped).

- `FilesFromTag`: the files of a version are of the one commit that its tag names,
  and that commit is of the version.
- `PublishedWasChecked`: that commit has passed both checks.
- `AutomationTagsReleases`: the automation tags checked bumps that are not
  published, whatever happened since it looked.
- `TagStandsOncePublished`: tags of what is on PyPI do not move.

### UpstreamBumpPR

A tree is the oxipng it pins and the commits of people in the files that a bump
publishes whole (`Cargo.toml`, `uv.lock`, the changelog, ...). A run goes through
`Prepare`, `Publish`, `LookForIssue`, `UpsertIssue`, `ReadHead`, `WaitPasses` and
`EnableAutoMerge`, or ends with `WaitFails` or `StepFails`. `Publish` is
create-pull-request: the pull request is created, updated, left alone if it has
this tree already, or closed if main has it. `current` is whether the number that
the run got is still that of the open pull request. `ci` is a required check of
the head, the wheels are only waited for; `RetryFailedCheck` is
`retry-failed-checks.yml`. Which things may go wrong is chosen once (`faults`):
checks that fail for no reason, wheels that take longer than the wait, calls to
GitHub that fail. `by` and `seen` of the pull request are history: who pushed the head,
and the main that was prepared for it.

- `MainOnlyGains`: no merge takes main to an older oxipng or to one that breaks the
  wrapper, and it takes away at most what landed between the two checkouts of
  its run.
- `EnabledForAGoodHead`: a run that turns auto-merge on has left its version with a
  triage issue, of which no more are open than runs may overlap, and unless another run
  has pushed over its head, that head is of its version and its wheels have passed. Of
  a head that was pushed over nothing is promised: section 5 says what happens.
- `EveryReleaseLands`: without faults a good release is merged, or followed by
  another.

`EnabledForAGoodHead` is for any overlap of runs; of `MainOnlyGains` the order of the
versions is lost when they do. The run of TLC takes them one at a time (section 3), the
proofs do not.

### DependencyRefreshPR

A tree is a set of changes, a file the changes of one path, so that laying files
over a newer main (`Overlay`) may take changes away. `Prepare` and `Publish` are the two
jobs; `Clears` is what the condition of the last step reads of the first job.
`AcceptRefresh` and `AcceptPush` are `make accept-refresh-pr` up to and from its
push, with `Lease` for `--force-with-lease`. GitHub merges (`AutoMerge`) and people
do (`ManualMerge`) when the checks of the merged tree have passed.

The gate is that of `tests/helpers/workflows.py`: a `uses:` line has one SHA (`Pinned`),
the allowlist one per action (`Reviewed`), and they must be the same (`PinsReviewed`). A
pin changes a line, a sign-off the SHA of an action, and with it un-reviews every line
that still has the former one. People's commits add lines, with the SHA that was reviewed
when they were written. `checkedOn` of the pull request is history: the main that its
checks ran on.

- `MergesBringReviewedPins`: on the main that its checks ran on, a merge leaves no line
  whose SHA the allowlist lacks: what is unreviewed after it is a line that landed since.
  Nothing else un-reviews a line of main. That main *always* passes the gate is
  not so: section 5.
- `OnlyUnseenChangesAreReverted`: a merge takes away only what landed, in the files of
  the refresh, between the two checkouts.
- `SignOffKeepsTheRefresh`: a sign-off drops no update that a run pushed meanwhile.
- `AutoMergesOnlyCleared` is what the documentation says of the pull request that is
  merged. It does not hold: see section 5.

### CargoGraph, RefreshClassifier, NoticeGraph

A package is a name, version and source. Its manifest has requirements, each with
the packages that would do and its uses: normal, build or development, on the
runner's platform ("host") or on the others. A lock maps each requirement of each
locked package to a package. `Reached` is the least closed set, with no walk and
no recursion: the reference for both scripts.

`RefreshClassifier` compares the tables of two locks (`LockedTable`: a dependency
is written by name alone while only one version of it is locked, so that a table
may change because of a package elsewhere), asks of each changed package whether
it reaches the shipped graph, and classifies.

- `HostBuildGraphUnchanged`: after "no release needed" the graph that the runner
  builds, packages and resolutions, is what it was.

`NoticeGraph` is the worklist of `_normal_dependency_ids`, one visit per step, in any
order, then `Render` and `Finish`; `Relock` is `cargo update` in between.

- `CheckIsExact`: the exit status is right for the lock that was read: after a write,
  and after a check that passes, the file lists what normal dependencies reach.
  `NoticesAreTheShippedPackages`, its half without the file, is a theorem of its own.
- `EveryRunEnds`: the walk ends.

### SurfaceScan

A rustdoc index is a set of items with names, kinds, visibility and children.
`CompareSurface` reads it as the script does; `Exported`, `Exposed` and `Known` are
the reference: what the crate offers, what the wrapper uses, what has been triaged.
`WriteDoc` and `WriteChangelog` write a file each, `Crash` stops a scan between two of
them, `Triage` moves names in the manifest, `NextRelease` follows a scan that did not
block.

- `BlocksExactlyTheBroken`: a scan blocks if and only if an option is missing that the
  wrapper uses, a variant of an enum that is still there, or a function. Excepted, as
  the script overlooks them (section 5), are enums that are gone altogether, and functions
  that share their name with a method: the reference counts functions only (`Exported`),
  the script methods too (`Functions`).
- `DocumentsAreComplete`: after any crashes and repetitions both documents have one
  section of the version, with the new names, and the changelog only points to
  sections that exist.

### ActionsRefresh

`Fetch` reads one release, `UpdateWorkflow` rewrites one file; a sync goes on with
`ParseAllowlist`, `SyncReviewedRefs`, `SyncMakefile` and `Report`. `Fail` ends a run where
it is, in any stage. `shown` and `unreported` are history: the pins that a report has
listed, and those that a sync has written to the allowlist without getting to its report.
`Gate` is what `make ci` demands.

- `PinsAreReviewed`: a sync that reached its end leaves a tree that passes the gate,
  and whatever passes it has been listed in a report or is `unreported`: runs of CI,
  and failures before the allowlist is written, let nothing new pass.
- `SyncedVersionsAreShown` is what the documentation says of a sync that reaches its
  end. It does not hold: see section 5.

### OverrideAudit

uv is a function from the overrides in force to a lock (`Resolvers`: all functions
in which an override is obeyed). `Audit` flags by the lock without overrides,
`Remove` removes what was flagged and locks again.

- `AuditsLeaveWhatIsNeeded`: an audit without findings leaves overrides that are
  needed, there is one round of removals at most, and if everything was flagged
  and removed the floors hold.

### ReleaseFiles

Each lane of the matrix and the sdist job builds, checks and stores, or fails;
failed jobs or all jobs are run again (`RerunFailedJobs`, `RerunAllJobs`), and artifacts
of passed jobs stay. Wheels are tags, a version and members; the checks are those of
the two scripts. A run is of a tag, or a rehearsal for TestPyPI whose version has
the attempt in it.

- `UploadIsComplete`: an upload has one complete wheel per lane and an sdist, all of
  one version, rehearsals aside (section 5).

### MCScripts

The six script modules run in checkouts of their own and hand over only files
that are complete, so one instance checks them all: `script` says whose behaviour
it is, the variables of the others keep their first value.

## 3. The runs

| Run | Instance | What it shows |
|---|---|---|
| `OptimizeFileGuarded` | 2 callers, 2 paths, 2 blocks, `MaxGen` 1 | calls with and without `backup=True`, `force`, an output and `analyze` on two files, with every failure and crash: all of the properties of `OptimizeFile`, and the refinement |
| `OptimizeFileMixed` | the same, `MaxGen` 2 | violated: `EveryBackupWhole` (section 5) |
| `SharedInput` | 2 activations, 1 image, 1 buffer, `MaxEdits` 2 | what is encoded is what was given |
| `ParseOptions` | any dictionary of up to 2 options, and every one of level, deflate and filter together, given to each of the four functions | options are as asked, an error is of the first option at fault |
| `RawImageInput` | five families of calls, `MaxU32` 15, `UsizeRange` 256 | built exactly when well formed, no panic |
| `BumpUpstream` | 3 releases, 1 post release, 2 failed runs | agreement of the files; the pin catches up |
| `ReleasePipeline` | 2 versions, 3 commits, 2 files, 1 tagging run, `MaxWheels` 2 | the release properties, with two live runs of `wheels.yml` |
| `UpstreamBumpPR` | 3 releases, the second breaks the wrapper, 1 commit of people, no faults or all of them | main only gains, auto-merge is turned on for heads that were waited for, and without faults good releases are merged |
| `DependencyRefreshPR` | 2 overlapping runs, 3 updates (two of them pins), 2 commits, a clone | merges bring reviewed pins, and nothing is lost but what landed between two checkouts |
| `RefreshPRAutoMerge` | the same, and a shipped crate | violated: `AutoMergesOnlyCleared` (section 5) |
| `ActionsInterrupted` | the instance of `ActionsRefresh` below | violated: `SyncedVersionsAreShown` (section 5) |
| `Scripts` | the six instances below, one per behaviour | what each script classifies, lists, reports, flags and lets through is right |

### Why the bounds are enough

- **OptimizeFile.** The hazards are between two calls: one between the copy and the
  read of another, or in the middle of its write. Two blocks are the least in
  which a file can be half written, or mixed of two versions. `MaxGen` 1 lets a
  call shrink an image, and lets the next one not. A pass that begins, goes on
  and ends at the first block of either file occurs. `OptimizeFile_proofs` covers
  every number of callers, paths, blocks and generations for the safety
  properties it proves.
- **SharedInput.** One activation edits while another parses or encodes; two edits
  tell "later" from "two different". The safety properties are proved for any
  number.
- **ParseOptions.** No check reads more than its own value, except deflate, which
  depends on level and is parsed last. So pairs show the order of any two
  errors, and the triple shows level, deflate and another option in all orders.
  The integers are on both sides of every limit; the limits themselves are
  scaled down (`MaxI64`, `MaxUsize`, `MaxI128`, `MaxSeconds`), in the order in
  which they lie.
- **RawImageInput.** Widths of 1, 3 and 9 pixels end a row inside a byte at every
  depth, in its first byte and in a later one; data of 0 to 3 bytes end before, in
  and after the last row. The integers are scaled down so that the greatest u32
  overflows what it overflows in the code.
- **BumpUpstream.** Three releases let two bumps follow one another; two failures
  let a run fail on what a failed run has left. Post releases are bounded by
  `MaxPost`.
- **ReleasePipeline.** Three commits are the first one, a bump, and one that
  follows it or replaces it; two files are the least with half a release. Two
  live runs of `wheels.yml` are one tag that moved, or two tags. A second run of
  `release-tag.yml` was explored with two commits.
- **UpstreamBumpPR.** With three releases a pull request of the first is open when the
  second, which breaks, and the third come. One commit in the files of a bump is
  enough to be lost. The run has one slot: runs of the workflow are a week apart,
  and overlap only if one is dispatched by hand. Overlaps are covered by the proofs, for
  any number of runs: `AutoMergeForGoodHeads` is `EnabledForAGoodHead`, and
  `OverlapsLoseOnlyUnseen` all of `MainOnlyGains` but the order of the versions. With two
  slots, two releases and flaky checks TLC agrees on `EnabledForAGoodHead` (1.8 million
  states).
- **DependencyRefreshPR.** Two runs are the least in which a refresh follows another
  or overlaps with it. The updates are a tool, and the new SHA of one action in two
  lines, of which the second is only there once a commit has landed that adds it, with
  the former SHA; the other commit is in a file that the refresh replaces. So the line
  may land before, between and after the checkouts, the checks and the sign-off of the
  action. What needs a release matters to auto-merge only, and the shipped crate is in
  that run.
- **Scripts.** `MCCargoGraph`: eight packages with two versions of two crates, one of
  which is shared by what ships, what only other platforms ship and what only tests
  need, and a member of the workspace; all six locks of that manifest, and all pairs; the notices start as those of any
  packages with the build tool `c` among them.
  `MCSurfaceScan`: a function, a method of its name, an option, public or not, and an
  enum of up to two variants, in three releases; version 2 is a prefix of version 3. `MCActionsRefresh`: an action and the
  toolchain, two workflows, two new releases of each, failures in every stage. `MCOverrideAudit`: two packages, two versions, and *all* of
  uv's behaviours that obey overrides, with locks of one package at both versions.
  `MCReleaseFiles`: two lanes that differ in Python, three attempts, and builds with
  every single defect that the checks look for.

### Fairness

- `OptimizeFile`: weak fairness of each caller's `Step`. A thread that runs is
  scheduled again, and the file system answers. `IoError` and `Crash` are never
  forced, and no call need be made.
- `BumpUpstream`: weak fairness of `Proceed`, because a run that was started goes on,
  strong fairness of `Bump`, because the cron of `upstream-bump.yml` starts it
  every week, whatever else is run in between, and weak fairness of indexing the
  latest release, because crates.io publishes what upstream pushes. Failures are
  bounded by `MaxFailures`: with a script that always fails nothing catches up.
- `UpstreamBumpPR`: weak fairness of each run's steps (the schedule starts it, and
  runners carry it on), of the end and the one retry of checks, of GitHub's
  auto-merge, and of the index of crates.io. People need not merge, land or close
  anything.
- `Scripts`: weak fairness of the notice script's own steps, so that a run which was
  started goes on.
- The others are safety only. `ReleasePipeline` has no fairness since no check
  need ever pass and no run need be started again.

`CHECK_DEADLOCK FALSE` is set where the system may stop: a call of the parser or
the constructor that has returned, inputs at `MaxEdits` with nothing running, a
pipeline in which everything is published, a pull request with no release, commit
or run left to come, and a script that has returned.

## 4. The proofs

All of the theorems are for every value of the constants that meet the
assumptions of the modules. TLC evaluates these in every run of the module.

- `OptimizeFileAssumption`: `.bak` paths are not among the paths that calls name,
  and two paths have two backups (both follow from appending `.bak`, as long as no
  caller names a `.bak` file itself); a file has at least one block.
- `SharedInputAssumption`: images are not buffers.
- `ParseOptionsAssumption`: a preset sets no timeout and no flag of the call, as
  `Options::from_preset` does. `UnsetAssumption`: no accepted value is the mark
  of an empty slot.
- `RawImageAssumption`: eight times a u32 fits a `usize`, which is so on 64-bit
  platforms, where wheels are built. On 32 bits `width * bit_depth` in
  `validate_indexed_pixels` may wrap, unlike the product in
  `validate_raw_image_data_length`, and nothing is claimed. `BytesAssumption`: the
  data of a call are bytes.
- `BumpUpstreamAssumption`, `ReleaseAssumption`, `RefreshAssumption` and both
  `VersionsAssumption`s: bounds are naturals, there is a version, a commit and a file,
  workflows use pins that the script manages; overlapping bump runs are finitely many.
- `ChangesAssumption`: pins and sign-offs are finitely many and no commits of people; a
  pin has a line and a SHA, a sign-off an action and a SHA, and no two commits of people
  add the same line.
- `GraphAssumption`: a manifest names a crate at most once, and a requirement one
  crate, as cargo demands. `LocksAssumption`: a lock resolves every requirement of what
  it locks. `RegistryAssumption`: this crate is not from a registry. The packages
  need not be finitely many.
- `ItemsAssumption`: children of an item are items. `NamesAssumption`: upstream has no
  enum with the name `Options` or `fn`, the two headings under which the report lists
  what is no variant. An enum `Options` would make an option and a variant the same line
  of the report; oxipng's `Options` is a struct, and `fn` is a keyword of Rust.
- `FloorAssumption`: floors and versions are naturals, and a lock has finitely many.
- `LanesAssumption`: no two lanes of the matrix expect the same Python and platform.
  `OutputsAssumption`: a wheel that a lane builds does not have, next to its own platform
  tag, that of another lane for the same Python, since the lanes are different
  operating systems, processors or libcs, and maturin tags what it has built for one of
  them, and no directory in a wheel has the name of the extension. It may have any other
  wrong tag, version or member. `SDistsAssumption`: an archive
  has finitely many members.

Two theorems have a hypothesis of their own:

- `OneAtATime` (`BumpsOnlyGain`): runs of `upstream-bump.yml` do not overlap, which nothing
  in the workflow rules out; with overlaps an older release may follow a newer one
  (section 5). `OverlapsLoseOnlyUnseen` is what is left of `MainOnlyGains` without the
  hypothesis: everything but the order of the versions. The other theorems about the
  bump do without.
- `Typing` wants finitely many runs of the dependency refresh, as its bound on the
  numbers of pull requests counts them; the other theorems about it do not.

| Theorem | States | Rests on |
|---|---|---|
| `TypeCorrect` (six modules), `BumpPRTyping`, `Typing`, `ScriptsTyped` | `[]TypeOK` of every module | the inductive invariant of its module |
| `OriginalNeverLost`, `BackupIsWhatIsReplaced` | `OriginalRecoverable`, `GuardedBackupMatches` | `SavedInv` |
| `BackupNeverReplaced` | `BackupKept` | `SoleCopier` |
| `ImplementsBackupContract` | `KeepsContract` | `SavedInv` before and after a step |
| `OtherErrorsLeaveTheTarget` | `OnlyOsErrorAfterWrite` | `Outcome` of every caller |
| `QuietFilesAreWhole` | `QuietTargetWhole` | `WrittenInv`, `OneWriter` |
| `InputIsHeld`, `EncodesWhatWasGiven` | `InputHeld`, `EncodesGivenInput` | the two together |
| `OptionsAlwaysAsAsked`, `ErrorsAlwaysJustified` | `OptionsAreAsked`, `ErrorIsJustified` | `SlotsInv`, `ReadInv` |
| `ScanNeverPanics` | `NeverPanics` | `ScanInv` |
| `BuildsTheWellFormed`, `PngErrorsFollowTheChecks` | `BuiltIffWellFormed`, `PngErrorMeansBadData` | `JudgedInv` |
| `UnfailedRunsAlwaysAgree`, `AnnouncedLast`, `PostReleasesAlwaysStand` | the three safety properties of `BumpUpstream` | `Progress`, `Unfailed` |
| `BumpsOnlyGain` | `MainOnlyGains` | `BumpPRInv` |
| `AutoMergeForGoodHeads` | `EnabledForAGoodHead` | `OverlapInv` |
| `OverlapsLoseOnlyUnseen` | the half of `MainOnlyGains` that overlapping runs keep | `CleanInv` |
| `MergesOnlyBringReviewed` | `MergesBringReviewedPins` | `ReviewInv` |
| `MergesRevertOnlyUnseen`, `SignOffsKeepUpdates` | `OnlyUnseenChangesAreReverted`, `SignOffKeepsTheRefresh` | `BranchInv`, `CloneInv` |
| `ReleaseIsItsTag`, `ReleaseIsChecked`, `TagStands`, `AutomationTags` | the four properties of `ReleasePipeline` | `TaggerOf`, `WheelsOf` |
| `NoReleaseLeavesHostBuild` | `HostBuildGraphUnchanged` | `NoReleaseSameGraph` |
| `NoticesAreRight`, `CheckIsRight` | `NoticesAreTheShippedPackages`, `CheckIsExact` | `WalkInv` |
| `ReviewedPins` | `PinsAreReviewed` | `RefreshInv`, `ShownInv` |
| `ScansCompleteDocuments`, `ScansBlockTheBroken` | `DocumentsAreComplete`, `BlocksExactlyTheBroken` | `SectionsInv`, `WrittenInv`; `BlockingMeansMissing` |
| `NeededOverridesStay` | `AuditsLeaveWhatIsNeeded` | `OverridesInv` |
| `UploadsAreComplete` | `UploadIsComplete` | `FilesInv` |

**The original is never lost.** `OriginalRecoverable` says nothing of how far a
copy is, so it is not inductive. `SavedInv` adds that at most one call holds the
backup of a guarded file (the one whose `create_new` succeeded: the others are
stopped there, and no call removes a backup), that the file is the original
while that call copies and reads (nobody else may write it: every writer needs a
backup), and that the blocks copied, and those read, are the original's so far.
When the call gets to its write the backup is whole. A second writer never comes,
because the backup stays, also after a failure or a crash.

**Errors and quiet files.** `Outcome` ties the history variable to the control: a
running call has no result, it has truncated its target only if it is at its write, and
the write can end in success, `OSError` or death alone. `WrittenInv` is about files with
one writer: `OneWriter` says that at most one call is about to write such a file (a
caller has one job at a time), so the blocks before its next one are its output, and
the last of them makes the file whole; any other end of a write is `torn`.

**Options are as asked.** `SlotsInv` gives every slot in closed form, from the
names that have been read; `ReadInv` says that what has been read was accepted.
The order of reading drops out, and the end of the loop is an equality of two
functions, option by option (`SlotAsked`, `BuiltAsWanted`).

**The scan does not panic.** `ScanInv` says that the pixel is one of the image,
and that size and depth are what the checks have let through. So `width *
bit_depth` is below `UsizeRange` and does not wrap, the rows together are the
length that was checked, so that no row begins past its end (`RowInData`), and
the byte of every pixel lies in its row (`OffsetInRow`).

**What is built is what is well formed.** `JudgedInv` adds what the call has passed
(`PassedInv`) and that all pixels before the one at hand are in the palette (`SeenInv`).
The code cuts a pixel out of a byte with a shift and a mask; the reference puts it
together from the bits of the whole image. `SumOfBits` says that a byte is the sum of its
bits (`Halved`, `LastDigit` and `NextDigit` unwind one binary digit), `PixelOfByte`
that quotient and remainder of the byte are the digits that the reference sums. A pixel
has at most eight bits, so that the recursive function of the reference is unrolled for
each depth, and no induction is needed. The scan looks at every row that the data has
(`RowsEnd`, `ScanEnd`), and the rows are complete exactly if the length is right.

**The bump.** `Progress` lists what each step may rely on, also after failures:
enough for `AnnouncedTreesAgree`, since the note is written last. `Unfailed` says
which files agree at which step when there was none.

**The bump's pull request.** `CleanInv` says that a run and its branch differ from what was
checked out in the version alone, and that this version works. A merge lays the branch
over main, so it takes away at most what the base had and the checkout of the run had
not. That holds for any number of runs. `WorkInv` and `BumpBranchInv` add that the version
is not older than what main has or may get from an open pull request: with one run at a
time nothing but that pull request can move main's version between the two jobs.
`HeadInv` says what a run may believe whose number is still that of the open pull request
and whose push nobody has followed with another: the head has the tree that it pushed, is
the one that it looked up, and once it has waited that head's wheels have passed. Other
runs break none of this without pushing, and a push changes `by`. `HadInv` says that an
issue which a run has found or left has been there since: issues are closed, not
forgotten. `OpenInv` counts: the open issues of a version and the runs that have found
none and are about to create one are together no more than the slots, since such a run
looked while none was open.

**The dependency refresh.** The gate is checked on the *merged* tree. `ReviewInv` says that
"passed" is of the merge with the main that the checks ran on, that main has only gained
commits of people since, and that these bring neither pins nor sign-offs
(`ReviewIsNotLanded`). So what the gate compares is the same in that merge and in the one
that GitHub makes later (`SameReview`), but for the lines that a commit has added in
between (`NewLine`, `CheckedMerge`).
`BranchInv` says what a branch may lack: what its run had not seen, in files it replaced.
`CloneInv` is what makes the sign-off safe: the clone has all that the branch had when
it was fetched, and the lease lets it push only while the branch is that. Here any number
of runs overlap.

**The release.** `WheelsOf` says that a run of `wheels.yml` whose commit is of its
tag's version still has the tag's commit, and peeled no other. That is why
checks of what the tag names count for what is built: a run that peeled another
commit, after a move of the tag, is either stopped or fails `Validate`.

**No release needed.** If the classifier says so, no package was removed, since
`cargo tree` fails for one and a failure counts as shipped, and every package that
the new lock reaches has an unchanged table. A table writes a dependency by its
name alone where only one package has it; with nothing removed, a name that is
alone in the new lock was alone in the old one and means the same package
(`SameTableSamePick`). So everything that the new graph reaches is resolved as it
was, what the new graph reaches is closed in the old one, and the two are equal
(`SameBuildGraph`). Take away the rule for removed packages and neither step holds.

**The notices.** `WalkInv` says that what has been found is reached, and that the
dependencies of everything found are found, except of what is pending. When
nothing is pending, what was found is closed, and `Reached` is the least closed
set (`ClosedIsReached`). The order of the visits does not matter.

**The pins.** `RefreshInv` holds whatever fails: what a workflow file has after its turn is
what was fetched. So does `ShownInv`: all that the allowlist has was shown or is
unreported, since a sync moves the difference to the allowlist that it read to
`unreported` when it writes, and from there to `shown` when it reports. The gate demands
that workflows and Makefile have nothing else.

**The scan.** `TriageKeepsReport` says that a triage in between moves names of this release
only: nothing new comes up, what is new shrinks, what blocks stays. So a section that was
complete when it was written stays complete (`SectionsInv`), a scan that is repeated
finds its section by the version itself and does not add a second one, and `WrittenInv`
counts the documents. That sections are never of a later version than the pinned
one is what makes the next release's section new.

**The overrides.** Flags are computed from the lock without any override, which no
removal changes: what is redundant is so whatever has been removed, the first round
removes all of it, and there is no second (`OverridesInv`).

**The files.** `FilesInv` follows artifacts through attempts: one per job, from some
attempt of it that passed, good for its lane, and of the tag's version. A wheel that is
good for a lane is good for no other, so the files are as many as the jobs (a bijection,
not an induction), and an upload is one of each.

**All scripts.** `ScriptsTyped` is a composition: while `script` is the name of a module, its
variables behave by that module's specification and the others keep their first
values; each `TypeOK` follows from its own module's invariant.

### Only model-checked

Every invariant and every action property of the passing runs has its theorem. What stays
with TLC:

- Liveness: `CallsReturn`, `PinCatchesUp`, `EveryRunEnds`, `EveryReleaseLands`. It rests on fairness, and with it on ENABLED, which is out of the
  prover's reach.
- That `EveryBackupWhole`, `AutoMergesOnlyCleared` and `SyncedVersionsAreShown` are violated: a
  counterexample is TLC's to find.
- That `BumpsOnlyGain` needs `OneAtATime`: with two slots TLC finds `MainOnlyGains` violated.

## 5. What the models found

**A backup next to a call without one** (`OptimizeFileMixed`).
`docs/usage/file-optimization.md` says: "Use `backup=True` when an in-place write
should keep the original file". `optimize` copies the backup after it has
released the GIL, so another call, without `backup`, can truncate and rewrite the
same file in the middle of the copy. The first call then writes in place although
its backup holds no whole image. `OriginalRecoverable` holds because it is about
files that only calls with `backup=True` write.

**Auto-merge that stays on** (`RefreshPRAutoMerge`).
`docs/process/dependency-health.md` says that "`release-needed` PRs open but do not
auto-merge" and that a ci-failed one "never auto-merges".
`dependency-health.yml` enables auto-merge for the pull request, by number, after a
green refresh without release impact; a later run that pushes a red or
release-needed refresh to the same pull request does not turn it off. As soon as
the required checks pass, GitHub merges it.

**A report that leaves out what is new** (`ActionsInterrupted`).
`docs/process/dependency-health.md` says of `make refresh-actions` that "It also prints a
review report with each action's repository and changelog link". A sync that fails in the
Makefile or is interrupted, after it has written the allowlist, prints none, and when it
is run again it takes the new allowlist for what was reviewed: its report leaves out what
the first run added, or says "GitHub Action pins already match the latest reviewed
releases.", and `make ci` passes.

The models show more places where the code and a document, or a reader's
expectation, part. They are described here and have no run of their own.

- *Upstream bump.* The same happens to a bump: the wheels are not a required check,
  and auto-merge that was enabled for one release merges the next when `ci` has
  passed, although `docs/process/upstream-bumps.md` says "only after CI and wheel
  checks pass".
- Runs that overlap (one is dispatched by hand) both look for the triage issue before
  either has created it, and both create one; the same document says "one
  `upstream-surface` triage issue per upstream version". They may also publish an
  older release over a newer one and enable auto-merge for a head whose wheels
  nobody has waited for.
- A release that breaks the wrapper has a red `make ci` in the prepare job, whose
  failure skips the publish job: there is no pull request that "remains open for
  manual repair", and no triage issue.
- Wheels that fail once and pass on the retry leave a green pull request open: the
  wait ended at the first failure, and the next runs find nothing to push, so that
  they do not enable auto-merge.
- *Dependency refresh.* The gate holds one SHA per action, and the checks ran on main as
  it was: if a commit lands that uses an action by its former SHA, after the checks of
  a signed-off refresh have passed and before it is merged, main has a line that its
  allowlist does not know, and the next `make ci` is red, although both were green.
- A green refresh whose tree an earlier red run has pushed does
  not enable auto-merge, for the same reason.
- *Classifier.* `cargo tree` without `--target all` follows the runner's platform: a
  change of a package that only the Windows or macOS wheels contain needs "no
  release". `HostBuildGraphUnchanged` is about the runner's own graph for that reason.
- *Surface scan.* An enum that is gone is not compared, as the loop goes over the
  enums that upstream has, and a public method hides a function of the same name that
  is gone. New functions are not reported.
- *Options.* `tests/typecheck/typing_filter_options.py` calls
  `optimize_from_memory(png_data, filter=[FilterStrategy.predefined(["none", "sub"])])` as
  correctly typed. `parse_filters` (`AcceptsFilter`) hands the items of a list to
  `parse_filter_strategy`, which raises `ValueError` for a predefined strategy.
- *Rehearsals.* The version of a TestPyPI run has the attempt in it; when failed jobs
  are run again the artifacts have two versions, and both are uploaded.
- *Override audit.* A package that is locked at two versions is judged by the higher
  one. And an override may be flagged by a lock that lacks the others too, and be
  needed with them: what is flagged can go together, but not always one by one.

What else a maintainer may want to know, without a document that says otherwise:

- A bump that fails after `Cargo.toml` has been written leaves locks and changelog
  behind; running it again says that the version is pinned already, and does not
  finish the job. It takes a clean checkout, as the workflow has.
- `release-tag.yml` gives up when `api-matrix` takes more than half an hour, or when
  main has moved by the time `ci` ends; nothing starts it again for that commit.
  Such a bump is tagged by hand.
- Its check of PyPI decides nothing that the tag does not: a version with files has
  a tag, and GitHub refuses a second one.
- A publication that stops half-way cannot be completed by running the job again,
  as PyPI refuses the files it has and `validate release tag`, if run again, the
  version. The way on is the next post release, as the documentation says.
- That an old run of a moved tag does not publish rests on people stopping it, when
  its commit is of the same version; otherwise `validate_release_tag.py` stops it.

## 6. What is not modelled

- `OptimizeFile`: power loss and `fsync` (a process that dies leaves what it wrote);
  permissions and times (`preserve_attrs`); hard and symbolic links, case folding
  and two names for one file; files removed or renamed during a call; standard
  input and output, which the API does not offer.
- `SharedInput`: what options an activation has; the chunks themselves. Builds of
  Python without a GIL.
- `ParseOptions`: the order of filters in an `IndexSet`; integers too large for a
  float as a timeout; `.value` attributes that raise errors of their own; the
  warnings module turned into errors.
- `RawImageInput`: the chunk checks of `add_png_chunk` and `add_icc_profile` (next in
  the plan); the error of an allocation.
- `BumpUpstream`: a file that is itself left half written (the script writes each
  with one call); edits that do not match their pattern are a `Fail`.
- `ReleasePipeline`: runs for pull requests, which publish nothing; approvals of the
  `pypi` environment, which delay; tags
  that are deleted and pushed again, which is a `MoveTag` here; commits outside
  main, which `validate_release_tag.py` refuses.
- `ReleaseFiles`: `smoke_wheel.py`, which calls the API of an installed wheel from end
  to end, is a build that fails or not; names inside archives beyond those that the
  checks look for.
- `UpstreamBumpPR`: a pull request that people edit; the text of the issue.
- `DependencyRefreshPR`: what the audits look for; edits of the branch by hand.
- `RefreshClassifier`: features and checksums of a package, which change with its
  version; `git diff` between other refs than the base.
- `NoticeGraph`: licence texts and their order.
- `SurfaceScan`: constants of the crate and the JSON report, which no later step reads.
- `ActionsRefresh`: pins that the script does not manage; a workflow that changes under
  it.
- `OverrideAudit`: releases of parents between two audits, after which anything may
  change.
- `audit_github_settings.py` compares three API answers with fixed lists,
  `ai_filter_log.py` prints the end of a log, `_toml_compat.py` picks a parser:
  one pass each, without a state that anything later reads. No workflow, make target
  or script calls `verify_release_checks.py` and `verify_release_version.py`; the
  workflows repeat their logic. `ci.yml` and `api-matrix.yml` are test runs, of which
  only the outcome matters.

## 7. Plan

Done, in this order: `OptimizeFile` with `BackupContract`, `SharedInput`,
`ParseOptions`, `RawImageInput`, `BumpUpstream`, `ReleasePipeline`; then `CargoGraph` with
`RefreshClassifier` and `NoticeGraph`, `DependencyRefreshPR`, `ActionsRefresh`,
`UpstreamBumpPR`, `SurfaceScan`, `OverrideAudit`, `ReleaseFiles`.

Proved: the safety properties of all of them. Next theorems: that a sync which fails after
the allowlist leaves a tree whose unreported pins are those of its own fetch; `MainOnlyGains`
and `MergesBringReviewedPins` as refinements of an abstract branch that only gains what was
checked.

Next modules: `RawImageChunks` (names and counts of the chunks that a `RawImage`
takes, over sequences of `add_png_chunk` and `add_icc_profile`), and a composition of
the parser with `OptimizeFile`, in which the mode and the flags that reach the file
calls come from the parser's options.
