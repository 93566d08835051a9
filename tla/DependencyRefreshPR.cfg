SPECIFICATION Spec
CONSTANTS
    Runs <- MCRuns
    Updates = {"tool", "pin", "jobpin"}
    Commits = {"commit", "job"}
    PathOf <- MCPathOf
    Shipped = {}
    Pins = {"pin", "jobpin"}
    SignOffs = {"sign"}
    Lines = {"line", "jobline"}
    LineOf <- MCLineOf
    LinesOf <- MCLinesOf
    ActionOf <- MCActionOf
    ShaOf <- MCShaOf
INVARIANTS
    TypeOK
PROPERTIES
    MergesBringReviewedPins
    OnlyUnseenChangesAreReverted
    SignOffKeepsTheRefresh
CHECK_DEADLOCK FALSE
