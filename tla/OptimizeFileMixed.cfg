\* A call with backup=True next to one without, on the same file.
SPECIFICATION Spec
CONSTANTS
    a = a
    b = b
    abak = abak
    bbak = bbak
    c1 = c1
    c2 = c2
    Callers = {c1, c2}
    Paths <- MCPaths
    Backups <- MCBackups
    Bak <- MCBak
    Present = {a}
    Jobs <- MixedJobs
    MaxGen = 2
    NBlocks = 2
    NoPath = NoPath
    Absent = Absent
    Hole = Hole
    NoJob = NoJob
INVARIANTS
    EveryBackupWhole
