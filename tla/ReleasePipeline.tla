--------------------------- MODULE ReleasePipeline ---------------------------
(***************************************************************************)
(* From a commit on main to files on PyPI: release-tag.yml, which tags the *)
(* automated bumps, and the tag-driven part of wheels.yml, which checks,   *)
(* builds and publishes a tag, with scripts/validate_release_tag.py.       *)
(*                                                                         *)
(* The two workflows share no state but what GitHub and PyPI hold: main,   *)
(* the checks of a commit, the tags, the files.  Neither has a concurrency *)
(* group, so several runs of each read that state at one step and act on   *)
(* it at another, while commits land, checks are run again and people push *)
(* and move tags.  GitHub, PyPI and the operator of                        *)
(* docs/process/manual-release.md are external.                            *)
(*                                                                         *)
(* A check may end in any way, at any time and any number of times, so     *)
(* there is no state for it: a poll gets any answer.  A job of wheels.yml  *)
(* that fails is to be done again, which it is if somebody re-runs it.     *)
(***************************************************************************)
EXTENDS Naturals, Sequences

CONSTANTS
    Versions,     \* the values that project.version takes
    Runs,         \* the runs of release-tag.yml that there are at a time
    MaxCommits,   \* bound: how many commits land on main
    NFiles,       \* how many files a release has
    None          \* no commit

ASSUME ReleaseAssumption ==
    /\ Versions # {}
    /\ MaxCommits \in Nat \ {0}
    /\ NFiles \in Nat \ {0}
    /\ None \notin Nat \cup Versions

\* The workflows that both wait for: ci, and then api-matrix.
Waits == {"ci", "api-matrix"}

Commits == 1..MaxCommits
Files == 1..NFiles

VARIABLES
    main,     \* the commits of main: the version, and whether it is the bump's subject
    passed,   \* history: the checks of a commit that a poll saw succeed
    tags,     \* the commit of the tag of a version
    tagger,   \* the runs of release-tag.yml: the next step, and the commit
    wheels,   \* the runs of wheels.yml for a tag and the commit it had: their jobs
    pypi      \* the commit that a file of a version was built from

vars == <<main, passed, tags, tagger, wheels, pypi>>

\* The jobs of a run of wheels.yml.  The first one peels the tag, which gives
\* sha, and waits for the checks of that; file is the next one to publish.
Jobs == [wait : {"todo", "ok"} \cup Waits,
         sha : Commits \cup {None},
         build : {"todo", "ok"},
         validate : {"todo", "ok"},
         publish : {"todo", "ok"},
         file : Files]

NewJobs == [wait |-> "todo", sha |-> None, build |-> "todo", validate |-> "todo",
            publish |-> "todo", file |-> 1]

Landed == 1..Len(main)
OnPyPI(v) == \E i \in Files : pypi[v][i] # None

TypeOK ==
    /\ main \in Seq([version : Versions, bump : BOOLEAN]) /\ Len(main) \in Commits
    /\ passed \in [Commits -> SUBSET Waits]
    /\ tags \in [Versions -> Landed \cup {None}]
    /\ tagger \in [Runs -> [step : {"idle", "pypi", "push"} \cup Waits,
                            sha : Landed \cup {None}]]
    /\ wheels \in [Versions \X Commits -> Jobs \cup {None}]
    /\ pypi \in [Versions -> [Files -> Landed \cup {None}]]

Init ==
    /\ \E m \in [version : Versions, bump : {FALSE}] : main = <<m>>
    /\ passed = [c \in Commits |-> {}]
    /\ tags = [v \in Versions |-> None]
    /\ tagger = [r \in Runs |-> [step |-> "idle", sha |-> None]]
    /\ wheels = [w \in Versions \X Commits |-> None]
    /\ pypi = [v \in Versions |-> [i \in Files |-> None]]

-----------------------------------------------------------------------------
(* GitHub and the people who work on it.                                   *)

Land ==
    /\ Len(main) < MaxCommits
    /\ \E m \in [version : Versions, bump : BOOLEAN] : main' = Append(main, m)
    /\ UNCHANGED <<passed, tags, tagger, wheels, pypi>>

\* A tag that is pushed starts wheels.yml.
Tag(v, c) == tags' = [tags EXCEPT ![v] = c]
Starts(v, c) == wheels' = [wheels EXCEPT ![<<v, c>>] = NewJobs]

PushTagByHand ==
    \E v \in Versions, c \in Landed :
        /\ tags[v] = None
        /\ Tag(v, c) /\ Starts(v, c)
        /\ UNCHANGED <<main, passed, tagger, pypi>>

\* manual-release.md: a tag of which nothing is published may move.  The runs
\* for a commit of another version are left to fail on their own, and the
\* others are stopped first.
Stopped(v, w) == w[1] = v /\ w[2] \in Landed /\ main[w[2]].version = v

MoveTag ==
    \E v \in Versions, c \in Landed :
        /\ tags[v] # None /\ ~OnPyPI(v)
        /\ wheels[<<v, c>>] = None
        /\ Tag(v, c)
        /\ wheels' = [w \in Versions \X Commits |-> IF w = <<v, c>> THEN NewJobs
                                                   ELSE IF Stopped(v, w) THEN None
                                                   ELSE wheels[w]]
        /\ UNCHANGED <<main, passed, tagger, pypi>>

-----------------------------------------------------------------------------
(* What both do: wait for the checks of a commit.                          *)

\* Variant: only ci is waited for.
AfterWait_CiOnly(w, next) == next

AfterWait(w, next) == IF w = "ci" THEN "api-matrix" ELSE next

SeesSuccess(c, w) == passed' = [passed EXCEPT ![c] = @ \cup {w}]

\* The check fails, or has not ended after 60 or 80 polls.
GivesUp == UNCHANGED passed

-----------------------------------------------------------------------------
(* release-tag.yml.                                                        *)

Goto(r, s) == tagger' = [tagger EXCEPT ![r].step = s]

\* Variant: a bump that leaves the version as it was.
VersionChanged_Always(c) == TRUE

VersionChanged(c) == c > 1 /\ main[c].version # main[c - 1].version

\* A run by hand, or for a success of ci that is still the last commit, goes
\* on if the last commit is a bump whose tag it does not know.
StartTagger(r) ==
    LET c == Len(main) IN
    /\ tagger[r].step = "idle"
    /\ main[c].bump /\ VersionChanged(c)
    /\ tags[main[c].version] = None
    /\ tagger' = [tagger EXCEPT ![r] = [step |-> "ci", sha |-> c]]
    /\ UNCHANGED <<main, passed, tags, wheels, pypi>>

TaggerWaits(r) ==
    LET c == tagger[r].sha
        w == tagger[r].step IN
    /\ w \in Waits
    /\ \/ SeesSuccess(c, w) /\ Goto(r, AfterWait(w, "pypi"))
       \/ GivesUp /\ Goto(r, "idle")
    /\ UNCHANGED <<main, tags, wheels, pypi>>

CheckPyPI(r) ==
    /\ tagger[r].step = "pypi"
    /\ \/ ~OnPyPI(main[tagger[r].sha].version) /\ Goto(r, "push")
       \/ Goto(r, "idle")
    /\ UNCHANGED <<main, passed, tags, wheels, pypi>>

\* Variant: the tag is pushed with --force.
Pushes_Force(v) == TRUE

\* GitHub refuses a tag that it has; and may not answer.
Pushes(v) == tags[v] = None

PushTag(r) ==
    LET c == tagger[r].sha
        v == main[c].version IN
    /\ tagger[r].step = "push"
    /\ \/ Pushes(v) /\ Tag(v, c) /\ Starts(v, c)
       \/ UNCHANGED <<tags, wheels>>
    /\ Goto(r, "idle")
    /\ UNCHANGED <<main, passed, pypi>>

-----------------------------------------------------------------------------
(* wheels.yml, for the tag of version v that was pushed with commit c.     *)

Running(v, c) == wheels[<<v, c>>] # None
Job(v, c) == wheels[<<v, c>>]
Becomes(v, c, job, s) == wheels' = [wheels EXCEPT ![<<v, c>>][job] = s]

PeelTag(v, c) ==
    /\ Running(v, c) /\ Job(v, c).wait = "todo"
    /\ wheels' = [wheels EXCEPT ![<<v, c>>].wait = "ci", ![<<v, c>>].sha = tags[v]]
    /\ UNCHANGED <<main, passed, tags, tagger, pypi>>

WaitForChecks(v, c) ==
    /\ Running(v, c) /\ Job(v, c).wait \in Waits
    /\ LET w == Job(v, c).wait
           sha == Job(v, c).sha IN
       \/ SeesSuccess(sha, w) /\ Becomes(v, c, "wait", AfterWait(w, "ok"))
       \/ GivesUp /\ wheels' = [wheels EXCEPT ![<<v, c>>].wait = "todo", ![<<v, c>>].sha = None]
    /\ UNCHANGED <<main, tags, tagger, pypi>>

\* All the build jobs and the sdist, of the commit that the run started with.
Build(v, c) ==
    /\ Running(v, c) /\ Job(v, c).wait = "ok" /\ Job(v, c).build = "todo"
    /\ Becomes(v, c, "build", "ok")
    /\ UNCHANGED <<main, passed, tags, tagger, pypi>>

\* Variant: any tag is as good as the one of project.version.
Validated_AnyTag(v, c) == ~OnPyPI(v)

Validated(v, c) == main[c].version = v /\ ~OnPyPI(v)

Validate(v, c) ==
    /\ Running(v, c) /\ Job(v, c).validate = "todo"
    /\ Validated(v, c)
    /\ Becomes(v, c, "validate", "ok")
    /\ UNCHANGED <<main, passed, tags, tagger, pypi>>

HasMore(i) == i < NFiles

CanPublish(v, c) == /\ Running(v, c)
                    /\ Job(v, c).build = "ok" /\ Job(v, c).validate = "ok"
                    /\ Job(v, c).publish = "todo"

\* A file carries the version of the tree it was built from.
Publish(v, c) ==
    LET i == Job(v, c).file
        version == main[c].version IN
    /\ CanPublish(v, c)
    /\ pypi[version][i] = None
    /\ pypi' = [pypi EXCEPT ![version][i] = c]
    /\ IF HasMore(i) THEN Becomes(v, c, "file", i + 1) ELSE Becomes(v, c, "publish", "ok")
    /\ UNCHANGED <<main, passed, tags, tagger>>

\* The upload fails, or PyPI refuses a file that it has: the job starts over.
PublishFails(v, c) ==
    /\ CanPublish(v, c)
    /\ Becomes(v, c, "file", 1)
    /\ UNCHANGED <<main, passed, tags, tagger, pypi>>

-----------------------------------------------------------------------------
Tagger(r) == StartTagger(r) \/ TaggerWaits(r) \/ CheckPyPI(r) \/ PushTag(r)

Wheels(v, c) ==
    \/ PeelTag(v, c) \/ WaitForChecks(v, c)
    \/ Build(v, c) \/ Validate(v, c)
    \/ Publish(v, c) \/ PublishFails(v, c)

Next ==
    \/ Land \/ PushTagByHand \/ MoveTag
    \/ \E r \in Runs : Tagger(r)
    \/ \E v \in Versions, c \in Commits : Wheels(v, c)

Spec == Init /\ [][Next]_vars

-----------------------------------------------------------------------------
(* Properties.                                                             *)

\* The files of a version were all built from the commit that its tag names,
\* and the tree there is of that version: neither a tag on the wrong commit,
\* nor a moved tag with a run of the old one still alive, nor a second upload
\* after half a release mixes two commits under one version.
FilesFromTag ==
    \A v \in Versions, i \in Files :
        pypi[v][i] # None => pypi[v][i] = tags[v] /\ main[pypi[v][i]].version = v

\* What is on PyPI was built from a commit that has passed both checks,
\* although the run that waits for them asks what the tag names by then, and
\* builds the commit it was started for.
PublishedWasChecked ==
    \A v \in Versions, i \in Files : pypi[v][i] # None => passed[pypi[v][i]] = Waits

\* The automation pushes a tag only for a bump that changes the version and
\* has passed both checks, and of which PyPI has nothing yet: not even when
\* the version was tagged by hand, or published, after the run asked.
AutomationTagsReleases ==
    [][\A r \in Runs : tagger[r].step = "push" /\ tagger'[r].step = "idle" /\ tags' # tags =>
           LET c == tagger[r].sha
               v == main[c].version IN
           /\ main[c].bump /\ c > 1 /\ main[c - 1].version # v
           /\ passed[c] = Waits
           /\ ~OnPyPI(v)]_vars

\* The tag of a version that PyPI has files of does not move, whoever pushes.
TagStandsOncePublished ==
    [][\A v \in Versions : OnPyPI(v) => tags'[v] = tags[v]]_vars
=============================================================================
