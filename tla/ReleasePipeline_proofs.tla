----------------------- MODULE ReleasePipeline_proofs -----------------------
(***************************************************************************)
(* What the release pipeline keeps whatever the number of versions,        *)
(* commits, files and runs.                                                *)
(***************************************************************************)
EXTENDS ReleasePipeline, TLAPS

\* A run of release-tag.yml is about a bump, and has seen the checks before
\* the step it is at.
TaggerOf(r) ==
    LET c == tagger[r].sha IN
    tagger[r].step # "idle" =>
        /\ c \in Landed /\ main[c].bump /\ VersionChanged(c)
        /\ tagger[r].step = "api-matrix" => "ci" \in passed[c]
        /\ tagger[r].step \in {"pypi", "push"} => passed[c] = Waits

\* A run of wheels.yml has seen the checks of what it peeled; if its commit
\* is of the version that the tag names, that is its commit still.
WheelsOf(v, c) ==
    LET j == Job(v, c) IN
    Running(v, c) =>
        /\ c \in Landed /\ tags[v] \in Landed
        /\ j.wait # "todo" => j.sha \in Landed
        /\ j.wait = "todo" => j.sha = None
        /\ j.wait = "api-matrix" => "ci" \in passed[j.sha]
        /\ j.wait = "ok" => passed[j.sha] = Waits
        /\ j.build = "ok" => j.wait = "ok"
        /\ j.validate = "ok" => main[c].version = v
        /\ main[c].version = v => tags[v] = c /\ j.sha \in {c, None}

Inv == /\ TypeOK
       /\ \A r \in Runs : TaggerOf(r)
       /\ \A v \in Versions, c \in Commits : WheelsOf(v, c)
       /\ FilesFromTag
       /\ PublishedWasChecked

-----------------------------------------------------------------------------
(* The parts of a run of wheels.yml, one update at a time.                 *)

\* A job of a run is set to a value of its own set, and the rest stays.
LEMMA JobSet ==
    ASSUME TypeOK, NEW v \in Versions, NEW c \in Commits, Running(v, c),
           NEW f \in {"wait", "build", "validate", "publish", "file"}, NEW s,
           Becomes(v, c, f, s), [Job(v, c) EXCEPT ![f] = s] \in Jobs
    PROVE  /\ wheels' \in [Versions \X Commits -> Jobs \cup {None}]
           /\ \A w \in Versions \X Commits : w # <<v, c>> => wheels'[w] = wheels[w]
           /\ wheels'[<<v, c>>] = [Job(v, c) EXCEPT ![f] = s]
BY DEF TypeOK, Becomes, Job

\* A run that does not change, of a state in which no commit or version does,
\* and the checks only grow, is as it was.
LEMMA WheelsStand ==
    ASSUME Inv, NEW v \in Versions, NEW c \in Commits,
           UNCHANGED main, tags'[v] = tags[v], wheels'[<<v, c>>] = wheels[<<v, c>>],
           \A d \in Landed : passed[d] \subseteq passed'[d] /\ passed'[d] \subseteq Waits
    PROVE  WheelsOf(v, c)'
<1>1. WheelsOf(v, c)
    BY DEF Inv
<1>2. \A d \in Landed : /\ "ci" \in passed[d] => "ci" \in passed'[d]
                        /\ passed[d] = Waits => passed'[d] = Waits
    OBVIOUS
<1>3. Landed' = Landed
    BY DEF Landed
<1>4. QED
    BY <1>1, <1>2, <1>3 DEF WheelsOf, Running, Job

\* The commits that have landed are some of all, and a check is one of two.
LEMMA LandedCommits ==
    ASSUME TypeOK
    PROVE  Landed \subseteq Commits /\ \A d \in Landed : passed[d] \subseteq Waits
BY ReleaseAssumption DEF TypeOK, Landed, Commits

\* A commit of main has one of the versions.
LEMMA LandedVersion ==
    ASSUME TypeOK, NEW d \in Landed
    PROVE  main[d].version \in Versions
<1> DEFINE S == [version : Versions, bump : BOOLEAN]
<1>1. main \in Seq(S) /\ d \in 1..Len(main)
    BY DEF TypeOK, Landed
<1>2. main[d] \in S
    <2> HIDE DEF S
    <2>1. QED
        BY <1>1
<1>3. QED
    BY <1>2

\* Nothing is tagged, running or published.
LEMMA InitHolds == Init => Inv
<1> SUFFICES ASSUME Init PROVE Inv
    OBVIOUS
<1>1. main \in Seq([version : Versions, bump : BOOLEAN]) /\ Len(main) = 1
    <2>1. PICK m \in [version : Versions, bump : {FALSE}] : main = <<m>>
        BY DEF Init
    <2>2. m \in [version : Versions, bump : BOOLEAN]
        OBVIOUS
    <2>3. QED
        BY <2>1, <2>2
<1>2. TypeOK
    BY <1>1, ReleaseAssumption DEF Init, TypeOK, Commits, Landed
<1>3. QED
    BY <1>2 DEF Init, Inv, TaggerOf, WheelsOf, Running, FilesFromTag, PublishedWasChecked, Job

\* A commit that lands changes none of those before it.
LEMMA LandKeeps == Inv /\ Land => Inv'
<1> SUFFICES ASSUME Inv, Land PROVE Inv'
    OBVIOUS
<1>1. PICK m \in [version : Versions, bump : BOOLEAN] : main' = Append(main, m)
    BY DEF Land
<1>2. /\ main' \in Seq([version : Versions, bump : BOOLEAN])
      /\ Len(main') = Len(main) + 1 /\ Len(main') \in Commits /\ Landed \subseteq Landed'
      /\ \A c \in Landed : main'[c] = main[c]
    BY <1>1, ReleaseAssumption DEF Inv, TypeOK, Land, Commits, Landed
<1>3. TypeOK'
    BY <1>2 DEF Inv, TypeOK, Land
<1>4. \A r \in Runs : TaggerOf(r)'
    BY <1>2 DEF Inv, TypeOK, Land, TaggerOf, VersionChanged, Landed
<1>5. ASSUME NEW v \in Versions, NEW c \in Commits PROVE WheelsOf(v, c)'
    <2>1. WheelsOf(v, c)
        BY DEF Inv
    <2>2. UNCHANGED <<passed, tags, wheels>>
        BY DEF Land
    <2>3. QED
        BY <1>2, <2>1, <2>2 DEF WheelsOf, Running, Job
<1>6. FilesFromTag' /\ PublishedWasChecked'
    <2>1. UNCHANGED <<passed, tags, pypi>>
        BY DEF Land
    <2>2. \A v \in Versions, i \in Files : pypi[v][i] # None => pypi[v][i] \in Landed
        BY DEF Inv, TypeOK
    <2>3. QED
        BY <1>2, <2>1, <2>2 DEF Inv, FilesFromTag, PublishedWasChecked
<1>7. QED
    BY <1>3, <1>4, <1>5, <1>6 DEF Inv

\* A tag that is pushed, by whom it may be.
LEMMA TagKeeps ==
    ASSUME Inv, NEW v \in Versions, NEW c \in Landed, tags[v] = None,
           Tag(v, c), Starts(v, c), UNCHANGED <<main, passed, pypi>>
    PROVE  /\ tags' \in [Versions -> Landed' \cup {None}]
           /\ wheels' \in [Versions \X Commits -> Jobs \cup {None}]
           /\ \A x \in Versions, d \in Commits : WheelsOf(x, d)'
           /\ FilesFromTag' /\ PublishedWasChecked'
<1>1. c \in Commits
    BY ReleaseAssumption DEF Inv, TypeOK, Landed, Commits
<1>2. tags' \in [Versions -> Landed' \cup {None}] /\ tags'[v] = c
      /\ \A x \in Versions : x # v => tags'[x] = tags[x]
    BY DEF Inv, TypeOK, Tag, Landed
<1>3. NewJobs \in Jobs
    BY ReleaseAssumption DEF NewJobs, Jobs, Files
<1>4. /\ wheels' \in [Versions \X Commits -> Jobs \cup {None}]
      /\ wheels'[<<v, c>>] = NewJobs
      /\ \A w \in Versions \X Commits : w # <<v, c>> => wheels'[w] = wheels[w]
    BY <1>1, <1>3 DEF Inv, TypeOK, Starts
<1>5. ASSUME NEW x \in Versions, NEW d \in Commits PROVE WheelsOf(x, d)'
    <2>1. CASE x = v /\ d = c
        BY <1>2, <1>4, <2>1 DEF WheelsOf, Running, Job, NewJobs, Landed
    <2>2. CASE x # v
        <3>1. wheels'[<<x, d>>] = wheels[<<x, d>>] /\ tags'[x] = tags[x]
            BY <1>2, <1>4, <2>2
        <3>2. QED
            BY <3>1, LandedCommits, WheelsStand DEF Inv
    <2>3. CASE x = v /\ d # c
        <3>1. wheels'[<<x, d>>] = wheels[<<x, d>>]
            BY <1>4, <2>3
        <3>2. Running(x, d) => main[d].version # v
            BY <2>3, ReleaseAssumption DEF Inv, WheelsOf, Commits
        <3>3. QED
            BY <1>2, <2>3, <3>1, <3>2 DEF Inv, WheelsOf, Running, Job, Landed
    <2>4. QED
        BY <2>1, <2>2, <2>3
<1>6. ~OnPyPI(v)
    BY DEF Inv, FilesFromTag, OnPyPI
<1>7. FilesFromTag' /\ PublishedWasChecked'
    BY <1>2, <1>6 DEF Inv, FilesFromTag, PublishedWasChecked, OnPyPI
<1>8. QED
    BY <1>2, <1>4, <1>5, <1>7

\* An operator pushes a tag.
LEMMA ByHandKeeps == Inv /\ PushTagByHand => Inv'
<1> SUFFICES ASSUME Inv, NEW v \in Versions, NEW c \in Landed, tags[v] = None,
                    Tag(v, c), Starts(v, c), UNCHANGED <<main, passed, tagger, pypi>>
             PROVE  Inv'
    BY DEF PushTagByHand
<1>1. TypeOK'
    BY TagKeeps DEF Inv, TypeOK, Landed
<1>2. \A r \in Runs : TaggerOf(r)'
    BY DEF Inv, TaggerOf, VersionChanged, Landed
<1>3. QED
    BY <1>1, <1>2, TagKeeps DEF Inv

\* An operator moves a tag that has no files: the runs of commits of its
\* version are gone, and those that are left cannot be validated.
LEMMA MoveKeeps == Inv /\ MoveTag => Inv'
<1> SUFFICES ASSUME Inv, NEW v \in Versions, NEW c \in Landed, ~OnPyPI(v), Tag(v, c),
                    wheels' = [w \in Versions \X Commits |->
                                  IF w = <<v, c>> THEN NewJobs
                                  ELSE IF Stopped(v, w) THEN None ELSE wheels[w]],
                    UNCHANGED <<main, passed, tagger, pypi>>
             PROVE  Inv'
    BY DEF MoveTag
<1>1. tags' \in [Versions -> Landed' \cup {None}] /\ tags'[v] = c
      /\ \A x \in Versions : x # v => tags'[x] = tags[x]
    BY DEF Inv, TypeOK, Tag, Landed
<1>2. NewJobs \in Jobs
    BY ReleaseAssumption DEF NewJobs, Jobs, Files
<1>3. TypeOK'
    BY <1>1, <1>2 DEF Inv, TypeOK, Landed
<1>4. \A r \in Runs : TaggerOf(r)'
    BY DEF Inv, TaggerOf, VersionChanged, Landed
<1>5. ASSUME NEW x \in Versions, NEW d \in Commits PROVE WheelsOf(x, d)'
    <2>1. CASE x = v /\ d = c
        BY <1>1, <2>1 DEF WheelsOf, Running, Job, NewJobs, Landed
    <2>2. CASE x # v
        <3>1. wheels'[<<x, d>>] = wheels[<<x, d>>] /\ tags'[x] = tags[x]
            BY <1>1, <2>2 DEF Stopped
        <3>2. QED
            BY <3>1, LandedCommits, WheelsStand DEF Inv
    <2>3. CASE x = v /\ d # c /\ d \in Landed /\ main[d].version = v
        BY <2>3 DEF Stopped, WheelsOf, Running
    <2>4. CASE x = v /\ d # c /\ ~(d \in Landed /\ main[d].version = v)
        <3>1. wheels'[<<x, d>>] = wheels[<<x, d>>]
            BY <2>4 DEF Stopped
        <3>2. QED
            BY <1>1, <2>4, <3>1 DEF Inv, WheelsOf, Running, Job, Landed
    <2>5. QED
        BY <2>1, <2>2, <2>3, <2>4
<1>6. FilesFromTag' /\ PublishedWasChecked'
    BY <1>1 DEF Inv, FilesFromTag, PublishedWasChecked, OnPyPI
<1>7. QED
    BY <1>3, <1>4, <1>5, <1>6 DEF Inv

-----------------------------------------------------------------------------
(* release-tag.yml.                                                        *)

\* A run that does not change, of a state in which no commit does, and the
\* checks only grow, is as it was.
LEMMA TaggerStands ==
    ASSUME Inv, NEW r \in Runs, UNCHANGED main, tagger'[r] = tagger[r],
           \A d \in Landed : passed[d] \subseteq passed'[d] /\ passed'[d] \subseteq Waits
    PROVE  TaggerOf(r)'
<1>1. TaggerOf(r)
    BY DEF Inv
<1>2. \A d \in Landed : /\ "ci" \in passed[d] => "ci" \in passed'[d]
                        /\ passed[d] = Waits => passed'[d] = Waits
    OBVIOUS
<1>3. Landed' = Landed
    BY DEF Landed
<1>4. QED
    BY <1>1, <1>2, <1>3 DEF TaggerOf, VersionChanged

\* What a poll that sees a success does to the checks.
LEMMA SuccessSeen ==
    ASSUME TypeOK, NEW c \in Landed, NEW w \in Waits, SeesSuccess(c, w) \/ GivesUp
    PROVE  /\ passed' \in [Commits -> SUBSET Waits]
           /\ \A d \in Landed : passed[d] \subseteq passed'[d] /\ passed'[d] \subseteq Waits
           /\ SeesSuccess(c, w) => w \in passed'[c]
<1>1. CASE SeesSuccess(c, w)
    BY <1>1, LandedCommits DEF TypeOK, SeesSuccess
<1>2. CASE GivesUp
    BY <1>2, LandedCommits DEF TypeOK, GivesUp, SeesSuccess
<1>3. QED
    BY <1>1, <1>2

\* Files stay what they were when the checks only grow.
LEMMA FilesStand ==
    ASSUME Inv, UNCHANGED <<main, tags, pypi>>,
           \A d \in Landed : passed[d] \subseteq passed'[d] /\ passed'[d] \subseteq Waits
    PROVE  FilesFromTag' /\ PublishedWasChecked'
<1>1. \A v \in Versions, i \in Files : pypi[v][i] # None => pypi[v][i] \in Landed
    BY DEF Inv, TypeOK
<1>2. \A d \in Landed : passed[d] = Waits => passed'[d] = Waits
    OBVIOUS
<1>3. QED
    BY <1>1, <1>2 DEF Inv, FilesFromTag, PublishedWasChecked

\* A run of release-tag.yml begins with a bump.
LEMMA StartKeeps == ASSUME Inv, NEW r \in Runs, StartTagger(r) PROVE Inv'
<1> DEFINE c == Len(main)
<1>1. c \in Landed
    BY DEF Inv, TypeOK, Landed, Commits
<1>2. /\ tagger' = [tagger EXCEPT ![r] = [step |-> "ci", sha |-> c]]
      /\ main[c].bump /\ VersionChanged(c)
      /\ UNCHANGED <<main, passed, tags, wheels, pypi>>
    BY DEF StartTagger
<1> HIDE DEF c
<1>3. TypeOK'
    BY <1>1, <1>2 DEF Inv, TypeOK, Landed, Waits
<1>4. ASSUME NEW q \in Runs PROVE TaggerOf(q)'
    <2>1. CASE q = r
        BY <1>1, <1>2, <2>1 DEF Inv, TypeOK, TaggerOf, VersionChanged, Landed
    <2>2. CASE q # r
        BY <1>2, <2>2, LandedCommits, TaggerStands DEF Inv, TypeOK
    <2>3. QED
        BY <2>1, <2>2
<1>5. ASSUME NEW v \in Versions, NEW d \in Commits PROVE WheelsOf(v, d)'
    BY <1>2, LandedCommits, WheelsStand DEF Inv
<1>6. FilesFromTag' /\ PublishedWasChecked'
    BY <1>2, LandedCommits, FilesStand DEF Inv
<1>7. QED
    BY <1>3, <1>4, <1>5, <1>6 DEF Inv

\* It goes on only when a check has succeeded.
LEMMA TaggerWaitsKeeps == ASSUME Inv, NEW r \in Runs, TaggerWaits(r) PROVE Inv'
<1> DEFINE c == tagger[r].sha
           w == tagger[r].step
<1>1. /\ w \in Waits
      /\ \/ SeesSuccess(c, w) /\ Goto(r, AfterWait(w, "pypi"))
         \/ GivesUp /\ Goto(r, "idle")
      /\ UNCHANGED <<main, tags, wheels, pypi>>
    BY DEF TaggerWaits
<1>2. c \in Landed /\ main[c].bump /\ VersionChanged(c)
      /\ (w = "api-matrix" => "ci" \in passed[c])
    BY <1>1 DEF Inv, TaggerOf, Waits
<1>3. PICK s \in {"idle", "pypi", "api-matrix"} :
          /\ Goto(r, s)
          /\ s = "api-matrix" => w = "ci" /\ SeesSuccess(c, w)
          /\ s = "pypi" => w = "api-matrix" /\ SeesSuccess(c, w)
    BY <1>1 DEF AfterWait, Waits
<1>4. tagger' = [tagger EXCEPT ![r].step = s]
    BY <1>3 DEF Goto
<1> HIDE DEF c, w
<1>5. /\ passed' \in [Commits -> SUBSET Waits]
      /\ \A d \in Landed : passed[d] \subseteq passed'[d] /\ passed'[d] \subseteq Waits
      /\ SeesSuccess(c, w) => w \in passed'[c]
    BY <1>1, <1>2, SuccessSeen DEF Inv
<1>6. TypeOK'
    BY <1>1, <1>4, <1>5 DEF Inv, TypeOK, Landed, Waits
<1>7. ASSUME NEW q \in Runs PROVE TaggerOf(q)'
    <2>1. CASE q = r
        <3>1. tagger'[r].step = s /\ tagger'[r].sha = c
            BY <1>4 DEF Inv, TypeOK, c
        <3>2. s = "api-matrix" => "ci" \in passed'[c]
            BY <1>3, <1>5
        <3>3. s = "pypi" => passed'[c] = Waits
            BY <1>2, <1>3, <1>5 DEF Waits
        <3>4. QED
            BY <1>1, <1>2, <2>1, <3>1, <3>2, <3>3 DEF TaggerOf, VersionChanged, Landed
    <2>2. CASE q # r
        BY <1>1, <1>4, <1>5, <2>2, TaggerStands DEF Inv, TypeOK
    <2>3. QED
        BY <2>1, <2>2
<1>8. ASSUME NEW v \in Versions, NEW d \in Commits PROVE WheelsOf(v, d)'
    BY <1>1, <1>5, WheelsStand
<1>9. FilesFromTag' /\ PublishedWasChecked'
    BY <1>1, <1>5, FilesStand
<1>10. QED
    BY <1>6, <1>7, <1>8, <1>9 DEF Inv

\* It asks PyPI.
LEMMA CheckPyPIKeeps == ASSUME Inv, NEW r \in Runs, CheckPyPI(r) PROVE Inv'
<1>1. PICK s \in {"idle", "push"} : tagger' = [tagger EXCEPT ![r].step = s]
    BY DEF CheckPyPI, Goto
<1>2. tagger[r].step = "pypi" /\ UNCHANGED <<main, passed, tags, wheels, pypi>>
    BY DEF CheckPyPI
<1>3. TypeOK'
    BY <1>1, <1>2 DEF Inv, TypeOK, Landed
<1>4. ASSUME NEW q \in Runs PROVE TaggerOf(q)'
    <2>1. CASE q = r
        BY <1>1, <1>2, <2>1 DEF Inv, TypeOK, TaggerOf, VersionChanged, Landed
    <2>2. CASE q # r
        BY <1>1, <1>2, <2>2, LandedCommits, TaggerStands DEF Inv, TypeOK
    <2>3. QED
        BY <2>1, <2>2
<1>5. ASSUME NEW v \in Versions, NEW d \in Commits PROVE WheelsOf(v, d)'
    BY <1>2, LandedCommits, WheelsStand DEF Inv
<1>6. FilesFromTag' /\ PublishedWasChecked'
    BY <1>2, LandedCommits, FilesStand DEF Inv
<1>7. QED
    BY <1>3, <1>4, <1>5, <1>6 DEF Inv

\* It pushes the tag, or is refused.
LEMMA PushTagKeeps == ASSUME Inv, NEW r \in Runs, PushTag(r) PROVE Inv'
<1> DEFINE c == tagger[r].sha
           v == main[c].version
<1>1. c \in Landed /\ v \in Versions
    <2>1. c \in Landed
        BY DEF PushTag, Inv, TaggerOf
    <2>2. QED
        BY <2>1, LandedVersion DEF Inv
<1>2. /\ tagger' = [tagger EXCEPT ![r].step = "idle"]
      /\ UNCHANGED <<main, passed, pypi>>
      /\ \/ tags[v] = None /\ Tag(v, c) /\ Starts(v, c)
         \/ UNCHANGED <<tags, wheels>>
    BY DEF PushTag, Goto, Pushes
<1> HIDE DEF c, v
<1>3. /\ tags' \in [Versions -> Landed' \cup {None}]
      /\ wheels' \in [Versions \X Commits -> Jobs \cup {None}]
      /\ \A x \in Versions, d \in Commits : WheelsOf(x, d)'
      /\ FilesFromTag' /\ PublishedWasChecked'
    <2>1. CASE tags[v] = None /\ Tag(v, c) /\ Starts(v, c)
        BY <1>1, <1>2, <2>1, TagKeeps
    <2>2. CASE UNCHANGED <<tags, wheels>>
        <3>1. \A x \in Versions, d \in Commits : WheelsOf(x, d)'
            BY <1>2, <2>2, LandedCommits, WheelsStand DEF Inv
        <3>2. FilesFromTag' /\ PublishedWasChecked'
            BY <1>2, <2>2, LandedCommits, FilesStand DEF Inv
        <3>3. QED
            BY <1>2, <2>2, <3>1, <3>2 DEF Inv, TypeOK, Landed
    <2>3. QED
        BY <1>2, <2>1, <2>2
<1>4. TypeOK'
    BY <1>2, <1>3 DEF Inv, TypeOK, Landed
<1>5. ASSUME NEW q \in Runs PROVE TaggerOf(q)'
    <2>1. CASE q = r
        BY <1>2, <2>1 DEF Inv, TypeOK, TaggerOf
    <2>2. CASE q # r
        BY <1>2, <2>2, LandedCommits, TaggerStands DEF Inv, TypeOK
    <2>3. QED
        BY <2>1, <2>2
<1>6. QED
    BY <1>3, <1>4, <1>5 DEF Inv

-----------------------------------------------------------------------------
(* wheels.yml.                                                             *)

\* A step of one run of wheels.yml: it is enough that the parts it touches
\* stay right, for the run itself.
LEMMA RunKeeps ==
    ASSUME Inv, NEW v \in Versions, NEW c \in Commits,
           UNCHANGED <<main, tags, tagger>>,
           passed' \in [Commits -> SUBSET Waits],
           \A d \in Landed : passed[d] \subseteq passed'[d] /\ passed'[d] \subseteq Waits,
           NEW j \in Jobs, wheels' = [wheels EXCEPT ![<<v, c>>] = j],
           WheelsOf(v, c)'
    PROVE  /\ wheels' \in [Versions \X Commits -> Jobs \cup {None}]
           /\ \A r \in Runs : TaggerOf(r)'
           /\ \A x \in Versions, d \in Commits : WheelsOf(x, d)'
<1>1. /\ wheels' \in [Versions \X Commits -> Jobs \cup {None}]
      /\ \A w \in Versions \X Commits : w # <<v, c>> => wheels'[w] = wheels[w]
    BY DEF Inv, TypeOK
<1>2. \A r \in Runs : TaggerOf(r)'
    BY TaggerStands
<1>3. ASSUME NEW x \in Versions, NEW d \in Commits PROVE WheelsOf(x, d)'
    <2>1. CASE <<x, d>> = <<v, c>>
        BY <2>1
    <2>2. CASE <<x, d>> # <<v, c>>
        BY <1>1, <2>2, WheelsStand
    <2>3. QED
        BY <2>1, <2>2
<1>4. QED
    BY <1>1, <1>2, <1>3

\* And it ends so, when it leaves the files alone.
LEMMA QuietRunKeeps ==
    ASSUME Inv, NEW v \in Versions, NEW c \in Commits,
           UNCHANGED <<main, tags, tagger, pypi>>,
           passed' \in [Commits -> SUBSET Waits],
           \A d \in Landed : passed[d] \subseteq passed'[d] /\ passed'[d] \subseteq Waits,
           NEW j \in Jobs, wheels' = [wheels EXCEPT ![<<v, c>>] = j],
           WheelsOf(v, c)'
    PROVE  Inv'
<1>1. /\ wheels' \in [Versions \X Commits -> Jobs \cup {None}]
      /\ \A r \in Runs : TaggerOf(r)'
      /\ \A x \in Versions, d \in Commits : WheelsOf(x, d)'
    BY RunKeeps
<1>2. FilesFromTag' /\ PublishedWasChecked'
    BY FilesStand
<1>3. TypeOK'
    BY <1>1 DEF Inv, TypeOK, Landed
<1>4. QED
    BY <1>1, <1>2, <1>3 DEF Inv

\* What a run is, before a step of it.
LEMMA RunIs ==
    ASSUME Inv, NEW v \in Versions, NEW c \in Commits, Running(v, c)
    PROVE  Job(v, c) \in Jobs /\ WheelsOf(v, c) /\ c \in Landed
BY DEF Inv, TypeOK, Running, Job, WheelsOf

\* The wait of wheels.yml takes the commit that the tag has by then.
LEMMA PeelKeeps ==
    ASSUME Inv, NEW v \in Versions, NEW c \in Commits, PeelTag(v, c) PROVE Inv'
<1> DEFINE j == [Job(v, c) EXCEPT !.wait = "ci", !.sha = tags[v]]
<1>1. /\ Running(v, c) /\ Job(v, c).wait = "todo"
      /\ UNCHANGED <<main, passed, tags, tagger, pypi>>
    BY DEF PeelTag
<1>2. Job(v, c) \in Jobs /\ WheelsOf(v, c) /\ c \in Landed
    BY <1>1, RunIs
<1>3. tags[v] \in Landed /\ tags[v] \in Commits
    BY <1>1, <1>2, LandedCommits DEF Inv, WheelsOf
<1>4. j \in Jobs
    BY <1>2, <1>3 DEF Jobs, Waits
<1>5. wheels' = [wheels EXCEPT ![<<v, c>>] = j] /\ wheels'[<<v, c>>] = j
    BY DEF PeelTag, Job, Inv, TypeOK
<1>6. j.wait = "ci" /\ j.sha = tags[v] /\ j.build = Job(v, c).build
      /\ j.validate = Job(v, c).validate
    BY <1>2 DEF Jobs
<1>7. WheelsOf(v, c)'
    BY <1>1, <1>2, <1>3, <1>5, <1>6 DEF WheelsOf, Job, Landed
<1>8. QED
    BY <1>1, <1>4, <1>5, <1>7, LandedCommits, QuietRunKeeps DEF Inv, TypeOK

\* It goes on when a check of that commit has succeeded, or starts over.
LEMMA WaitKeeps ==
    ASSUME Inv, NEW v \in Versions, NEW c \in Commits, WaitForChecks(v, c) PROVE Inv'
<1> DEFINE w == Job(v, c).wait
           sha == Job(v, c).sha
           seen == [Job(v, c) EXCEPT !.wait = AfterWait(w, "ok")]
           again == [Job(v, c) EXCEPT !.wait = "todo", !.sha = None]
<1>1. /\ Running(v, c) /\ w \in Waits
      /\ UNCHANGED <<main, tags, tagger, pypi>>
    BY DEF WaitForChecks
<1>2. Job(v, c) \in Jobs /\ WheelsOf(v, c) /\ c \in Landed /\ sha \in Landed
    BY <1>1, RunIs DEF WheelsOf, Waits
<1>3. CASE SeesSuccess(sha, w) /\ Becomes(v, c, "wait", AfterWait(w, "ok"))
    <2>1. /\ passed' \in [Commits -> SUBSET Waits]
          /\ \A d \in Landed : passed[d] \subseteq passed'[d] /\ passed'[d] \subseteq Waits
          /\ w \in passed'[sha]
        BY <1>1, <1>2, <1>3, SuccessSeen DEF Inv
    <2>2. seen \in Jobs
        BY <1>2 DEF Jobs, AfterWait, Waits
    <2>3. wheels' = [wheels EXCEPT ![<<v, c>>] = seen] /\ wheels'[<<v, c>>] = seen
        BY <1>3 DEF Becomes, Job, Inv, TypeOK
    <2>4. /\ \/ w = "ci" /\ seen.wait = "api-matrix"
             \/ w = "api-matrix" /\ seen.wait = "ok"
          /\ seen.sha = sha /\ seen.build = Job(v, c).build
          /\ seen.validate = Job(v, c).validate
        BY <1>1, <1>2 DEF Jobs, AfterWait, Waits
    <2>5. w = "api-matrix" => passed'[sha] = Waits
        BY <1>1, <1>2, <2>1 DEF WheelsOf, Waits
    <2>6. WheelsOf(v, c)'
        BY <1>1, <1>2, <2>1, <2>3, <2>4, <2>5 DEF WheelsOf, Job, Landed
    <2>7. QED
        BY <1>1, <2>1, <2>2, <2>3, <2>6, QuietRunKeeps
<1>4. CASE GivesUp /\ wheels' = [wheels EXCEPT ![<<v, c>>].wait = "todo", ![<<v, c>>].sha = None]
    <2>1. again \in Jobs
        BY <1>2 DEF Jobs
    <2>2. wheels' = [wheels EXCEPT ![<<v, c>>] = again] /\ wheels'[<<v, c>>] = again
        BY <1>4 DEF Job, Inv, TypeOK
    <2>3. again.wait = "todo" /\ again.sha = None /\ again.build = Job(v, c).build
          /\ again.validate = Job(v, c).validate
        BY <1>2 DEF Jobs
    <2>4. Job(v, c).build # "ok"
        BY <1>1, <1>2 DEF WheelsOf, Waits
    <2>5. passed' = passed
        BY <1>4 DEF GivesUp
    <2>6. WheelsOf(v, c)'
        BY <1>1, <1>2, <2>2, <2>3, <2>4 DEF WheelsOf, Job, Landed
    <2>7. QED
        BY <1>1, <2>1, <2>2, <2>5, <2>6, LandedCommits, QuietRunKeeps DEF Inv, TypeOK
<1>5. QED
    BY <1>3, <1>4 DEF WaitForChecks

\* The builds need the wait.
LEMMA BuildKeeps ==
    ASSUME Inv, NEW v \in Versions, NEW c \in Commits, Build(v, c) PROVE Inv'
<1> DEFINE j == [Job(v, c) EXCEPT !.build = "ok"]
<1>1. /\ Running(v, c) /\ Job(v, c).wait = "ok"
      /\ UNCHANGED <<main, passed, tags, tagger, pypi>>
    BY DEF Build
<1>2. Job(v, c) \in Jobs /\ WheelsOf(v, c) /\ c \in Landed
    BY <1>1, RunIs
<1>3. j \in Jobs
    BY <1>2 DEF Jobs
<1>4. wheels' = [wheels EXCEPT ![<<v, c>>] = j] /\ wheels'[<<v, c>>] = j
    BY DEF Build, Becomes, Job, Inv, TypeOK
<1>5. j.wait = Job(v, c).wait /\ j.sha = Job(v, c).sha
      /\ j.validate = Job(v, c).validate
    BY <1>2 DEF Jobs
<1>6. WheelsOf(v, c)'
    BY <1>1, <1>2, <1>4, <1>5 DEF WheelsOf, Job, Landed
<1>7. QED
    BY <1>1, <1>3, <1>4, <1>6, LandedCommits, QuietRunKeeps DEF Inv, TypeOK

\* The validation finds the version of the tag in the tree.
LEMMA ValidateKeeps ==
    ASSUME Inv, NEW v \in Versions, NEW c \in Commits, Validate(v, c) PROVE Inv'
<1> DEFINE j == [Job(v, c) EXCEPT !.validate = "ok"]
<1>1. /\ Running(v, c) /\ main[c].version = v
      /\ UNCHANGED <<main, passed, tags, tagger, pypi>>
    BY DEF Validate, Validated
<1>2. Job(v, c) \in Jobs /\ WheelsOf(v, c) /\ c \in Landed
    BY <1>1, RunIs
<1>3. j \in Jobs
    BY <1>2 DEF Jobs
<1>4. wheels' = [wheels EXCEPT ![<<v, c>>] = j] /\ wheels'[<<v, c>>] = j
    BY DEF Validate, Becomes, Job, Inv, TypeOK
<1>5. j.wait = Job(v, c).wait /\ j.sha = Job(v, c).sha /\ j.build = Job(v, c).build
    BY <1>2 DEF Jobs
<1>6. WheelsOf(v, c)'
    BY <1>1, <1>2, <1>4, <1>5 DEF WheelsOf, Job, Landed
<1>7. QED
    BY <1>1, <1>3, <1>4, <1>6, LandedCommits, QuietRunKeeps DEF Inv, TypeOK

\* A run that may publish is of the commit of its tag, which has been checked.
LEMMA PublishableIs ==
    ASSUME Inv, NEW v \in Versions, NEW c \in Commits, CanPublish(v, c)
    PROVE  main[c].version = v /\ tags[v] = c /\ passed[c] = Waits /\ c \in Landed
<1>1. Job(v, c) \in Jobs /\ WheelsOf(v, c) /\ c \in Landed
    BY RunIs DEF CanPublish
<1>2. None \notin Landed
    BY ReleaseAssumption DEF Landed, Inv, TypeOK, Commits
<1>3. QED
    BY <1>1, <1>2 DEF CanPublish, WheelsOf

\* A step of publish touches nothing that the invariant says of the run.
LEMMA PublishRun ==
    ASSUME Inv, NEW v \in Versions, NEW c \in Commits, CanPublish(v, c),
           UNCHANGED <<main, passed, tags>>, NEW j \in Jobs,
           wheels' = [wheels EXCEPT ![<<v, c>>] = j],
           j.wait = Job(v, c).wait, j.sha = Job(v, c).sha,
           j.build = Job(v, c).build, j.validate = Job(v, c).validate
    PROVE  WheelsOf(v, c)'
<1>1. Running(v, c) /\ WheelsOf(v, c)
    BY RunIs DEF CanPublish
<1>2. wheels'[<<v, c>>] = j
    BY DEF Inv, TypeOK
<1>3. QED
    BY <1>1, <1>2 DEF WheelsOf, Job, Landed

\* A file is published of the commit of the tag, which has been checked.
LEMMA PublishKeeps ==
    ASSUME Inv, NEW v \in Versions, NEW c \in Commits, Publish(v, c) PROVE Inv'
<1> DEFINE i == Job(v, c).file
<1>1. /\ CanPublish(v, c) /\ Running(v, c)
      /\ pypi' = [pypi EXCEPT ![main[c].version][i] = c]
      /\ UNCHANGED <<main, passed, tags, tagger>>
    BY DEF Publish, CanPublish
<1>2. main[c].version = v /\ tags[v] = c /\ passed[c] = Waits /\ c \in Landed
    BY <1>1, PublishableIs
<1>3. Job(v, c) \in Jobs /\ i \in Files
    BY <1>1, RunIs DEF Jobs
<1>4. PICK j \in Jobs :
          /\ wheels' = [wheels EXCEPT ![<<v, c>>] = j]
          /\ j.wait = Job(v, c).wait /\ j.sha = Job(v, c).sha
          /\ j.build = Job(v, c).build /\ j.validate = Job(v, c).validate
    <2>1. CASE HasMore(i)
        <3>1. Becomes(v, c, "file", i + 1)
            BY <2>1 DEF Publish
        <3>2. wheels' = [wheels EXCEPT ![<<v, c>>] = [Job(v, c) EXCEPT !.file = i + 1]]
            BY <3>1 DEF Becomes, Job, Inv, TypeOK
        <3>3. [Job(v, c) EXCEPT !.file = i + 1] \in Jobs
            BY <1>3, <2>1, ReleaseAssumption DEF Jobs, HasMore, Files
        <3>4. QED
            BY <1>3, <3>2, <3>3 DEF Jobs
    <2>2. CASE ~HasMore(i)
        <3>1. Becomes(v, c, "publish", "ok")
            BY <2>2 DEF Publish
        <3>2. wheels' = [wheels EXCEPT ![<<v, c>>] = [Job(v, c) EXCEPT !.publish = "ok"]]
            BY <3>1 DEF Becomes, Job, Inv, TypeOK
        <3>3. [Job(v, c) EXCEPT !.publish = "ok"] \in Jobs
            BY <1>3 DEF Jobs
        <3>4. QED
            BY <1>3, <3>2, <3>3 DEF Jobs
    <2>3. QED
        BY <2>1, <2>2
<1>5. WheelsOf(v, c)'
    BY <1>1, <1>4, PublishRun
<1>6. /\ wheels' \in [Versions \X Commits -> Jobs \cup {None}]
      /\ \A r \in Runs : TaggerOf(r)'
      /\ \A x \in Versions, d \in Commits : WheelsOf(x, d)'
    BY <1>1, <1>4, <1>5, LandedCommits, RunKeeps DEF Inv, TypeOK
<1>7. /\ pypi' \in [Versions -> [Files -> Landed \cup {None}]]
      /\ \A x \in Versions, f \in Files :
            pypi'[x][f] = IF x = v /\ f = i THEN c ELSE pypi[x][f]
    BY <1>1, <1>2, <1>3 DEF Inv, TypeOK
<1>8. FilesFromTag' /\ PublishedWasChecked'
    BY <1>1, <1>2, <1>7 DEF Inv, FilesFromTag, PublishedWasChecked
<1>9. TypeOK'
    BY <1>1, <1>6, <1>7 DEF Inv, TypeOK, Landed
<1>10. QED
    BY <1>6, <1>8, <1>9 DEF Inv

\* A publish that fails starts over.
LEMMA PublishFailsKeeps ==
    ASSUME Inv, NEW v \in Versions, NEW c \in Commits, PublishFails(v, c) PROVE Inv'
<1> DEFINE j == [Job(v, c) EXCEPT !.file = 1]
<1>1. /\ CanPublish(v, c) /\ Running(v, c)
      /\ UNCHANGED <<main, passed, tags, tagger, pypi>>
    BY DEF PublishFails, CanPublish
<1>2. Job(v, c) \in Jobs
    BY <1>1, RunIs
<1>3. j \in Jobs
    BY <1>2, ReleaseAssumption DEF Jobs, Files
<1>4. wheels' = [wheels EXCEPT ![<<v, c>>] = j]
    BY DEF PublishFails, Becomes, Job, Inv, TypeOK
<1>5. j.wait = Job(v, c).wait /\ j.sha = Job(v, c).sha
      /\ j.build = Job(v, c).build /\ j.validate = Job(v, c).validate
    BY <1>2 DEF Jobs
<1>6. WheelsOf(v, c)'
    BY <1>1, <1>3, <1>4, <1>5, PublishRun
<1>7. QED
    BY <1>1, <1>3, <1>4, <1>6, LandedCommits, QuietRunKeeps DEF Inv, TypeOK

-----------------------------------------------------------------------------
\* So every step keeps the invariant.
LEMMA NextKeeps == Inv /\ [Next]_vars => Inv'
<1> SUFFICES ASSUME Inv, [Next]_vars PROVE Inv'
    OBVIOUS
<1>1. ASSUME NEW r \in Runs, Tagger(r) PROVE Inv'
    BY <1>1, StartKeeps, TaggerWaitsKeeps, CheckPyPIKeeps, PushTagKeeps DEF Tagger
<1>2. ASSUME NEW v \in Versions, NEW c \in Commits, Wheels(v, c) PROVE Inv'
    BY <1>2, PeelKeeps, WaitKeeps, BuildKeeps, ValidateKeeps, PublishKeeps, PublishFailsKeeps
       DEF Wheels
<1>3. CASE UNCHANGED vars
    <2>1. UNCHANGED <<main, passed, tags, tagger, wheels, pypi>>
        BY <1>3 DEF vars
    <2>2. \A r \in Runs : TaggerOf(r)'
        BY <2>1, LandedCommits, TaggerStands DEF Inv
    <2>3. \A v \in Versions, c \in Commits : WheelsOf(v, c)'
        BY <2>1, LandedCommits, WheelsStand DEF Inv
    <2>4. QED
        BY <2>1, <2>2, <2>3, LandedCommits, FilesStand DEF Inv, TypeOK, Landed
<1>4. QED
    BY <1>1, <1>2, <1>3, LandKeeps, ByHandKeeps, MoveKeeps DEF Next

\* And every behaviour has it.
LEMMA InvHolds == Spec => []Inv
<1>1. QED
    BY InitHolds, NextKeeps, PTL DEF Spec

\* Every variable keeps its type, for any number of versions, commits, files
\* and runs.
THEOREM TypeCorrect == Spec => []TypeOK
<1>1. Inv => TypeOK
    BY DEF Inv
<1>2. QED
    BY <1>1, InvHolds, PTL

\* The files of a version are all from the commit that its tag names, and of
\* the version that it names.
THEOREM ReleaseIsItsTag == Spec => []FilesFromTag
<1>1. Inv => FilesFromTag
    BY DEF Inv
<1>2. QED
    BY <1>1, InvHolds, PTL

\* Nothing is on PyPI of a commit that has not passed both checks.
THEOREM ReleaseIsChecked == Spec => []PublishedWasChecked
<1>1. Inv => PublishedWasChecked
    BY DEF Inv
<1>2. QED
    BY <1>1, InvHolds, PTL

-----------------------------------------------------------------------------
(* What a step may not do.                                                 *)

\* The tag of a version that has files is one that PyPI's files hold in place.
LEMMA PublishedIsTagged ==
    ASSUME Inv, NEW v \in Versions, OnPyPI(v)
    PROVE  tags[v] # None
BY DEF Inv, FilesFromTag, OnPyPI

\* A tag is set in three places only, and by a run of release-tag.yml only as
\* its last step.
LEMMA WhoTags ==
    ASSUME Inv, [Next]_vars
    PROVE  \/ tags' = tags
           \/ \E v \in Versions, c \in Landed :
                 /\ tags' = [tags EXCEPT ![v] = c]
                 /\ ~OnPyPI(v)
                 /\ \/ UNCHANGED tagger
                    \/ \E r \in Runs : /\ tagger[r].step = "push"
                                      /\ tagger' = [tagger EXCEPT ![r].step = "idle"]
                                      /\ c = tagger[r].sha /\ v = main[c].version
<1>1. CASE PushTagByHand
    BY <1>1, PublishedIsTagged DEF PushTagByHand, Tag
<1>2. CASE MoveTag
    BY <1>2 DEF MoveTag, Tag
<1>3. ASSUME NEW r \in Runs, PushTag(r), tags' # tags PROVE
             \E v \in Versions, c \in Landed :
                 /\ tags' = [tags EXCEPT ![v] = c] /\ ~OnPyPI(v)
                 /\ tagger[r].step = "push"
                 /\ tagger' = [tagger EXCEPT ![r].step = "idle"]
                 /\ c = tagger[r].sha /\ v = main[c].version
    <2> DEFINE c == tagger[r].sha
               v == main[c].version
    <2>1. c \in Landed
        BY <1>3 DEF PushTag, Inv, TaggerOf
    <2>2. v \in Versions
        BY <2>1, LandedVersion DEF Inv
    <2>3. tags[v] = None /\ Tag(v, c)
        BY <1>3 DEF PushTag, Pushes
    <2>4. ~OnPyPI(v)
        BY <2>2, <2>3, PublishedIsTagged
    <2>5. tags' = [tags EXCEPT ![v] = c]
        BY <2>3 DEF Tag
    <2>6. tagger[r].step = "push" /\ tagger' = [tagger EXCEPT ![r].step = "idle"]
        BY <1>3 DEF PushTag, Goto
    <2>7. QED
        BY <2>1, <2>2, <2>4, <2>5, <2>6
<1>4. CASE Land \/ UNCHANGED vars
    BY <1>4 DEF Land, vars
<1>5. ASSUME NEW r \in Runs, StartTagger(r) \/ TaggerWaits(r) \/ CheckPyPI(r)
      PROVE  tags' = tags
    BY <1>5 DEF StartTagger, TaggerWaits, CheckPyPI
<1>6. ASSUME NEW v \in Versions, NEW c \in Commits, Wheels(v, c) PROVE tags' = tags
    BY <1>6 DEF Wheels, PeelTag, WaitForChecks, Build, Validate, Publish, PublishFails
<1>7. QED
    BY <1>1, <1>2, <1>3, <1>4, <1>5, <1>6 DEF Next, Tagger

\* Nobody moves the tag of a version that PyPI has a file of.
THEOREM TagStands == Spec => TagStandsOncePublished
<1> DEFINE A == \A v \in Versions : OnPyPI(v) => tags'[v] = tags[v]
<1>1. Inv /\ [Next]_vars => [A]_vars
    BY WhoTags DEF Inv, TypeOK
<1>2. QED
    BY <1>1, InvHolds, PTL DEF Spec, TagStandsOncePublished

\* A tag that the automation makes is of a bump that changed the version, has
\* passed both checks and is not published, whatever happened since it asked.
THEOREM AutomationTags == Spec => AutomationTagsReleases
<1> DEFINE A == \A r \in Runs :
                    tagger[r].step = "push" /\ tagger'[r].step = "idle" /\ tags' # tags =>
                        LET c == tagger[r].sha
                            v == main[c].version IN
                        /\ main[c].bump /\ c > 1 /\ main[c - 1].version # v
                        /\ passed[c] = Waits
                        /\ ~OnPyPI(v)
<1>1. ASSUME Inv, [Next]_vars, NEW r \in Runs,
             tagger[r].step = "push", tagger'[r].step = "idle", tags' # tags
      PROVE  LET c == tagger[r].sha
                 v == main[c].version IN
             /\ main[c].bump /\ c > 1 /\ main[c - 1].version # v
             /\ passed[c] = Waits
             /\ ~OnPyPI(v)
    <2>1. TaggerOf(r)
        BY <1>1 DEF Inv
    <2>2. ~OnPyPI(main[tagger[r].sha].version)
        <3>1. PICK q \in Runs : /\ tagger' = [tagger EXCEPT ![q].step = "idle"]
                               /\ ~OnPyPI(main[tagger[q].sha].version)
            BY <1>1, WhoTags
        <3>2. q = r
            BY <1>1, <3>1 DEF Inv, TypeOK
        <3>3. QED
            BY <3>1, <3>2
    <2>3. QED
        BY <1>1, <2>1, <2>2 DEF TaggerOf, VersionChanged
<1>2. Inv /\ [Next]_vars => [A]_vars
    BY <1>1
<1>3. QED
    BY <1>2, InvHolds, PTL DEF Spec, AutomationTagsReleases
=============================================================================
