\* Two versions and three commits: a bump, what it replaces and what follows
\* it; a run of release-tag.yml, and two of wheels.yml, for one tag that moved
\* or for two tags.
SPECIFICATION Spec

CONSTANTS
    Versions = {"10.1.0", "10.1.1"}
    Runs = {r1}
    MaxCommits = 3
    NFiles = 2
    None = None
    MaxWheels = 2

CONSTRAINT WheelsBound

INVARIANTS
    FilesFromTag
    PublishedWasChecked

PROPERTIES
    AutomationTagsReleases
    TagStandsOncePublished

\* Everything may be published, with no commit left to land.
CHECK_DEADLOCK FALSE
