\* Two callers; every in-place write of a.png has backup=True.
SPECIFICATION FairSpec
CONSTANTS
    a = a
    b = b
    abak = abak
    bbak = bbak
    c1 = c1
    c2 = c2
    Callers = {c1, c2}
    Paths <- MCPaths
    Backups <- MCBackups
    Bak <- MCBak
    Present = {a}
    Jobs <- GuardedJobs
    MaxGen = 1
    NBlocks = 2
    NoPath = NoPath
    Absent = Absent
    Hole = Hole
    NoJob = NoJob
INVARIANTS
    OriginalRecoverable
    GuardedBackupMatches
    OnlyOsErrorAfterWrite
    QuietTargetWhole
PROPERTIES
    BackupKept
    KeepsContract
    CallsReturn
