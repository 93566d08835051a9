SPECIFICATION Spec
CONSTANTS
    Packages <- MCPackages
    Root = "root"
    NameOf <- MCNameOf
    Requires <- MCRequires
    Locks <- MCLocks
    Registry <- MCRegistry
    Managed = {"checkout"}
    Rust = "rust"
    Workflows <- MCWorkflows
    Uses <- MCUses
    MaxRelease = 3
    Items <- MCItems
    Indexes <- MCIndexes
    Manifests <- MCManifests
    Required = {"optimize"}
    MaxVersion = 3
    Prefixes <- MCPrefixes
    Overridden = {"click", "sh"}
    Floor <- MCFloor
    MaxResolved = 2
    MaxLocked = 2
    Lanes = {"linux", "linux311"}
    PythonOf <- MCPythonOf
    PlatformOf <- MCPlatformOf
    Outputs <- MCOutputs
    SDists <- MCSDists
    MaxAttempts = 3
INVARIANTS
    TypeOK
    HostBuildGraphUnchanged
    CheckIsExact
    PinsAreReviewed
    BlocksExactlyTheBroken
    DocumentsAreComplete
    AuditsLeaveWhatIsNeeded
    UploadIsComplete
PROPERTIES
    EveryRunEnds
CHECK_DEADLOCK FALSE
