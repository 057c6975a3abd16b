CONSTANTS
    Items <- MC_Items3
    Pfns <- MC_Pfns3
    NodeIds <- MC_NodeIds
    Contents = {c1, c2}
    NullHash = NullHash
    NoNode = NoNode
    NoItem = NoItem
    MaxSharing = 3
    ScoreCap = 0
    AgeCap = 0
    GarbageCap = 0
    SmartScan = FALSE
    LogRooms <- MC_LogRooms
    MaxIter = 3
    MaxHostEvents = 0
    PruneMargin = 0
    KsmOps <- MC_KsmOpsNew
    FirstIter = 0
SPECIFICATION Spec
CONSTRAINT IterationBound
INVARIANT NoErrStop
