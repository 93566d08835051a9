SPECIFICATION BumpPRSpec
CONSTANTS
    Slots <- OneSlot
    MaxRelease = 3
    Breaking = {2}
    Commits = {"note"}
    MaxClosed = 1
    FaultModels <- NoneOrAll
INVARIANTS
    BumpPRTypeOK
PROPERTIES
    MainOnlyGains
    EnabledForAGoodHead
    EveryReleaseLands
CHECK_DEADLOCK FALSE
