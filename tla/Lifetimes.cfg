CONSTANTS
    Nodes = {1, 2}
    Leaves = {"a", "b"}
    Spines = {"s"}
    Gpus <- MCGpus
    Models = {"H100"}
    NodeHealth = {"healthy"}
    NodeData <- MCNodeData
    GpuData <- MCGpuData
    SpineUplinks <- MCSpineUplinks
    AddedAt <- MCAddedAt
    Jobs = {"pair", "single"}
    Requests <- MCRequests
    QoSClasses = {"batch", "production"}
    GracePeriods = {0}
    MaxTime = 2
    MaxGrants = 3
    Steps = {1}
    Durations = {1}
    Delays = {0, 1}
    NoClass = "none"
    MaxCheckpoints = 2

SPECIFICATION RiskSpec

VIEW MCRiskView

INVARIANTS
    TypeOK
    LedgerConsistent
    TenuresDisjoint
    LoadReturnsSaved
    OverheadIsFraction
    RiskIsSinceNewest

PROPERTIES
    ImplementsReservation
    LossRisesForCause

CHECK_DEADLOCK FALSE
