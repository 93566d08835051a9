\* Three upstream releases, one post release each, two failed runs.
SPECIFICATION FairSpec
CONSTANTS
    MaxVersion = 3
    MaxPost = 1
    MaxFailures = 2
INVARIANTS
    UnfailedRunsAgree
PROPERTIES
    AnnouncedTreesAgree
    PostReleasesStand
    PinCatchesUp
