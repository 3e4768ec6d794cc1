CONSTANTS
    Nodes = {1, 2, 3, 4}
    Leaves = {"a", "b", "c"}
    Spines = {"s1", "s2"}
    Gpus <- MCGpus
    Models = {"H100"}
    NodeHealth = {"healthy", "draining", "down"}
    NodeData <- MCNodeData
    GpuData <- MCGpuData
    SpineUplinks <- MCSpineUplinks
    AddedAt <- MCAddedAt
    Jobs = {"leaf", "spine", "any", "one", "none"}
    Requests <- MCPlacementRequests
    QoSClasses = {"batch"}
    GracePeriods = {0}
    MaxTime = 1
    MaxGrants = 6

SPECIFICATION Spec

VIEW MCPlacementView

INVARIANTS
    GangServesRequest
    LocalityHonoured
    RingStaysOnNode
    SearchIsComplete

PROPERTIES
    DrainOnlyShrinks
