----------------------------- MODULE ReleaseFiles -----------------------------
(***************************************************************************)
(* The files of one run of wheels.yml: a lane of the build matrix per      *)
(* wheel and an sdist job, each checked by scripts/check_wheel_tags.py and *)
(* scripts/verify_release_artifacts.py before it is stored as an artifact  *)
(* of the run, and a publish job that checks and uploads what is stored.   *)
(* Failed jobs can be run again as a new attempt of the same run; what the *)
(* other jobs have stored stays.                                           *)
(*                                                                         *)
(* What tags and PyPI have to do with it is in ReleasePipeline.            *)
(***************************************************************************)
EXTENDS Naturals, FiniteSets

CONSTANTS
    Lanes,        \* the lanes of the build matrix
    PythonOf,     \* the Python tag that a lane expects
    PlatformOf,   \* the platform tag it expects
    Outputs,      \* what a build may leave in dist/, but for the version
    SDists,       \* the members of an archive that the sdist job may build
    MaxAttempts   \* bound: attempts of the run

ASSUME LanesAssumption ==
    /\ \A l, m \in Lanes : <<PythonOf[l], PlatformOf[l]>> = <<PythonOf[m], PlatformOf[m]>> => l = m
    /\ MaxAttempts \in Nat \ {0} /\ IsFiniteSet(Lanes) /\ "sdist" \notin Lanes

WheelFields == {"kind", "distribution", "version", "python", "abi", "platform", "members"}

Native == {"_oxipng.abi3.so", "_oxipng.pyd"}

\* A lane's build has no platform tag of another lane for the same Python, and
\* no directory has the name of an extension.
ASSUME OutputsAssumption ==
    \A l \in Lanes : \A dist \in Outputs[l] : \A w \in dist :
        /\ w = [f \in WheelFields |-> w[f]] /\ w.kind = "wheel"
        /\ \A m \in w.members : m[2] \in Native => m = <<m[1], m[2]>>
        /\ \A m \in Lanes : PythonOf[m] = PythonOf[l] /\ {PlatformOf[l], PlatformOf[m]} \subseteq w.platform
                              => m = l

ASSUME SDistsAssumption ==
    \A members \in SDists : IsFiniteSet(members) /\ \A m \in members : m = <<m[1], m[2]>>

Jobs == Lanes \cup {"sdist"}

VARIABLES
    rehearsal, \* started by hand for TestPyPI, not by a release tag
    attempt,   \* GITHUB_RUN_ATTEMPT
    job,       \* the result of each job in the latest attempt it ran in
    stored,    \* the files in the artifact of each job
    uploaded   \* the files that the index has

filesVars == <<rehearsal, attempt, job, stored, uploaded>>

-----------------------------------------------------------------------------
\* check_wheel_tags.py, on the wheels in dist/.

\* Variant: the tags that are expected are among those of the wheel.
WheelTagErrors_AnyTag(lane, w, version) ==
    w.version # version \/ PythonOf[lane] \notin w.python \/ "abi3" \notin w.abi
        \/ PlatformOf[lane] \notin w.platform

\* Variant: the version of the wheel is not compared.
WheelTagErrors_AnyVersion(lane, w, version) ==
    w.python # {PythonOf[lane]} \/ w.abi # {"abi3"} \/ PlatformOf[lane] \notin w.platform

\* A lane's own tag must be the only Python tag; of the platform tags, which a
\* repaired wheel may have several of, one must match.
WheelTagErrors(lane, w, version) ==
    \/ w.distribution # "oxipng-pybind" \/ w.version # version
    \/ w.python # {PythonOf[lane]} \/ w.abi # {"abi3"}
    \/ PlatformOf[lane] \notin w.platform

\* Variant: each wheel that is there is checked.
CheckWheels_Many(lane, dist, version) ==
    dist # {} /\ \A w \in dist : ~WheelTagErrors(lane, w, version)

CheckWheels(lane, dist, version) ==
    \E w \in dist : dist = {w} /\ ~WheelTagErrors(lane, w, version)

-----------------------------------------------------------------------------
\* verify_release_artifacts.py. A member is a directory, perhaps one below it, and a name.
ExpectedPackageFiles ==
    {<<"oxipng", "__init__.py">>, <<"oxipng", "_pyoxipng_compat.py">>,
     <<"oxipng", "__init__.pyi">>, <<"oxipng", "py.typed">>}

WheelMetadata == {"METADATA", "WHEEL", "RECORD"}

DistInfos(members) == {d \in {"ours.dist-info", "other.dist-info"} :
                          \E f \in WheelMetadata : <<d, f>> \in members}

\* The dist-info of this distribution, else the first one.
FindDistInfo(members) ==
    IF "ours.dist-info" \in DistInfos(members) THEN "ours.dist-info" ELSE "other.dist-info"

HasDistInfoFile(members, file) ==
    \E d \in {FindDistInfo(members)} :
        <<d, file>> \in members \/ <<d, "licenses", file>> \in members

CheckWheelMetadata(members) ==
    /\ DistInfos(members) # {}
    /\ {FindDistInfo(members)} \X WheelMetadata \subseteq members
    /\ HasDistInfoFile(members, "LICENSE") /\ HasDistInfoFile(members, "THIRD_PARTY_NOTICES.md")

\* Variant: an extension is enough, wherever it is.
CheckNativeExtensions_Anywhere(members) == \E m \in members : m[2] \in Native

CheckNativeExtensions(members) ==
    LET extensions == {m \in members : m[2] \in Native}
    IN  Cardinality({m \in extensions : m[1] = "_oxipng"}) = 1
        /\ \A m \in extensions : m[1] = "_oxipng"

CheckWheel(w) ==
    /\ CheckWheelMetadata(w.members)
    /\ ExpectedPackageFiles \cup {<<"_oxipng", "__init__.py">>} \subseteq w.members
    /\ CheckNativeExtensions(w.members)

ExpectedSDistFiles ==
    {"pyproject.toml", "Cargo.toml", "Cargo.lock", "README.md", "LICENSE",
     "THIRD_PARTY_NOTICES.md", "src/lib.rs", "oxipng"}

\* Variant: the root is not looked at.
CheckSDist_AnyRoot(s) == ExpectedSDistFiles \subseteq {m[2] : m \in s.members}

\* Everything is below one directory.
CheckSDist(s) ==
    /\ Cardinality({m[1] : m \in s.members}) = 1
    /\ ExpectedSDistFiles \subseteq {m[2] : m \in s.members}

CheckArtifacts(files) ==
    /\ files # {}
    /\ \A f \in files : IF f.kind = "wheel" THEN CheckWheel(f) ELSE CheckSDist(f)

-----------------------------------------------------------------------------
\* "Set TestPyPI version" adds .devNNN, of the run and of the attempt.
ProjectVersion == IF rehearsal THEN <<"version", attempt>> ELSE <<"version", 0>>

FilesInit ==
    /\ rehearsal \in BOOLEAN
    /\ attempt = 1
    /\ job = [j \in Jobs |-> "todo"]
    /\ stored = [j \in Jobs |-> {}]
    /\ uploaded = {}

JobFails(j) == job' = [job EXCEPT ![j] = "failed"] /\ UNCHANGED <<rehearsal, attempt, stored, uploaded>>

\* Variant: the artifact is not there in the end.
JobStores_Nothing(j, files) == job' = [job EXCEPT ![j] = "passed"] /\ UNCHANGED <<rehearsal, attempt, stored, uploaded>>

JobStores(j, files) ==
    /\ job' = [job EXCEPT ![j] = "passed"]
    /\ stored' = [stored EXCEPT ![j] = files]
    /\ UNCHANGED <<rehearsal, attempt, uploaded>>

\* maturin builds with the version of the checkout, or something stale lies in
\* dist/; then the two checks, the smoke test and the upload of the artifact.
Build(lane) ==
    /\ job[lane] = "todo"
    /\ \E dist \in Outputs[lane], stale \in BOOLEAN :
        LET version == IF stale THEN <<"stale", 0>> ELSE ProjectVersion
            wheels  == {[w EXCEPT !.version = version] : w \in dist}
        IN  \/ /\ CheckWheels(lane, wheels, ProjectVersion)
               /\ CheckArtifacts(wheels)
               /\ JobStores(lane, wheels)
            \/ JobFails(lane)

BuildSDist ==
    /\ job["sdist"] = "todo"
    /\ \E members \in SDists :
        LET file == [kind |-> "sdist", version |-> ProjectVersion, members |-> members]
        IN  (CheckArtifacts({file}) /\ JobStores("sdist", {file})) \/ JobFails("sdist")

AllEnded == \A j \in Jobs : job[j] # "todo"

Files == UNION {stored[j] : j \in Jobs}

\* Variant: what has been stored is published, whichever jobs have failed.
CanPublish_Stored == AllEnded /\ Files # {}

\* "needs" of the publish job.
CanPublish == \A j \in Jobs : job[j] = "passed"

\* The download of all artifacts of the run, their check and the upload.
Publish ==
    /\ uploaded = {} /\ CanPublish /\ CheckArtifacts(Files)
    /\ uploaded' = Files
    /\ UNCHANGED <<rehearsal, attempt, job, stored>>

\* "Re-run failed jobs".
RerunFailedJobs ==
    /\ uploaded = {} /\ AllEnded /\ attempt < MaxAttempts
    /\ \E j \in Jobs : job[j] = "failed"
    /\ attempt' = attempt + 1
    /\ job' = [j \in Jobs |-> IF job[j] = "failed" THEN "todo" ELSE job[j]]
    /\ UNCHANGED <<rehearsal, stored, uploaded>>

\* "Re-run all jobs".
RerunAllJobs ==
    /\ uploaded = {} /\ AllEnded /\ attempt < MaxAttempts
    /\ attempt' = attempt + 1
    /\ job' = [j \in Jobs |-> "todo"]
    /\ UNCHANGED <<rehearsal, stored, uploaded>>

FilesNext ==
    \/ \E lane \in Lanes : Build(lane)
    \/ BuildSDist \/ Publish \/ RerunFailedJobs \/ RerunAllJobs

FilesSpec == FilesInit /\ [][FilesNext]_filesVars

-----------------------------------------------------------------------------
FilesTypeOK ==
    /\ rehearsal \in BOOLEAN
    /\ attempt \in 1..MaxAttempts
    /\ job \in [Jobs -> {"todo", "passed", "failed"}]
    /\ \A j \in Jobs : /\ job[j] = "passed" => stored[j] # {}
                       /\ \A f \in stored[j] : f.kind = IF j = "sdist" THEN "sdist" ELSE "wheel"
    /\ uploaded \in SUBSET Files

\* docs/process/release-artifacts.md, "For wheels, it verifies".
Complete(w) ==
    /\ Cardinality({m \in w.members : m[2] \in Native}) = 1
    /\ \E n \in Native : <<"_oxipng", n>> \in w.members
    /\ \A f \in ExpectedPackageFiles : f \in w.members
    /\ \E d \in {"ours.dist-info", "other.dist-info"} :
          /\ \A f \in WheelMetadata : <<d, f>> \in w.members
          /\ \A f \in {"LICENSE", "THIRD_PARTY_NOTICES.md"} :
                <<d, f>> \in w.members \/ <<d, "licenses", f>> \in w.members

\* Whatever builds produce, lies stale in dist/ and is run again, a release that
\* is uploaded has for every lane the one wheel for its Python and platform,
\* with everything a wheel needs, and one sdist with everything in one
\* directory, all of one version. (The files of a rehearsal may have several.)
UploadIsComplete ==
    uploaded # {} =>
        /\ Cardinality(uploaded) = Cardinality(Lanes) + 1
        /\ ~rehearsal => \A f, g \in uploaded : f.version = g.version
        /\ \A l \in Lanes : \E w \in uploaded :
              /\ w.kind = "wheel" /\ w.python = {PythonOf[l]} /\ w.abi = {"abi3"}
              /\ PlatformOf[l] \in w.platform /\ Complete(w)
        /\ \E s \in uploaded : s.kind = "sdist" /\ \E root \in {m[1] : m \in s.members} :
              {root} \X ExpectedSDistFiles \subseteq s.members
=============================================================================
