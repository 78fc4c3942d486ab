SPECIFICATION SpecAll
CONSTANTS
    Scripts <- ControlScripts
    Files <- MutatedFiles
    Runs = 2
    AnchorRows <- CensusRows
    Declared = {"s1"}
    Scoped = {}
    AnchorFloors <- CensusFloors
    MaxCount = 2
    MaxAnchorEdits = 2
    GuardedScripts = {"s1", "s2"}
    HandlerFloors <- DetectorFloors
    MaxHandlerEdits = 2
CHECK_DEADLOCK FALSE
INVARIANTS
    LeftAsFound
    SignalLeavesAsFound
    Attribution
    PassIsEarned
    WorkKept
PROPERTIES
    DeathsAreListed
    LossesAreListed
