CONSTANTS
    Items <- MC_Items3
    Pfns <- MC_Pfns3
    NodeIds <- MC_NodeIds
    Contents = {c1, c2}
    NullHash = NullHash
    NoNode = NoNode
    NoItem = NoItem
    MaxSharing = 2
    ScoreCap = 3
    AgeCap = 4
    GarbageCap = 2
    SmartScan = TRUE
    LogRooms <- MC_LogRooms
    MaxIter = 3
    MaxHostEvents = 2
    PruneMargin = 0
    KsmOps <- MC_KsmOpsNew
    FirstIter = 0
SPECIFICATION Spec
CONSTRAINT IterationBound
INVARIANTS
    EngineMatchesHost
