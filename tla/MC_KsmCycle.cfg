CONSTANTS
    Items <- MC_Items
    Pfns <- MC_Pfns
    NodeIds <- MC_NodeIds
    Contents = {c1, c2}
    NullHash = NullHash
    NoNode = NoNode
    NoItem = NoItem
    MaxSharing = 2
    ScoreCap = 0
    AgeCap = 0
    GarbageCap = 0
    SmartScan = FALSE
    LogRooms <- MC_LogRooms
    MaxIter = 3
    MaxHostEvents = 2
    PruneMargin = 0
    KsmOps <- MC_KsmOpsBoth
    FirstIter = 0
SPECIFICATION Spec
CONSTRAINT IterationBound
INVARIANTS
    TypeOK
    StableItemsConsistent
    SharedCountExact
    ChainsWellFormed
    UnstableTableExact
    EngineMatchesHost
    NoErrStop
