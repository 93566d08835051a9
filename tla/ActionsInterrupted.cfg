\* Syncs that may stop in any stage, and are run again.
SPECIFICATION ActionsSpec
CONSTANTS
    Managed = {"checkout"}
    Rust = "rust"
    Workflows <- MCWorkflows
    Uses <- MCUses
    MaxRelease = 2
INVARIANTS
    SyncedVersionsAreShown
CHECK_DEADLOCK FALSE
