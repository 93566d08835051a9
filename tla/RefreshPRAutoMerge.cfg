SPECIFICATION Spec
CONSTANTS
    Runs <- MCRuns
    Updates = {"tool", "crate", "pin", "jobpin"}
    Commits = {"commit", "job"}
    PathOf <- MCPathOf
    Shipped = {"crate"}
    Pins = {"pin", "jobpin"}
    SignOffs = {"sign"}
    Lines = {"line", "jobline"}
    LineOf <- MCLineOf
    LinesOf <- MCLinesOf
    ActionOf <- MCActionOf
    ShaOf <- MCShaOf
INVARIANTS
    AutoMergesOnlyCleared
CHECK_DEADLOCK FALSE
