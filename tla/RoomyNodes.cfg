CONSTANTS
    Nodes = {1, 2, 3, 4}
    Leaves = {"a", "b", "c"}
    Spines = {"s1", "s2"}
    Gpus <- MCGpus
    Models = {"H100"}
    NodeHealth = {"healthy", "draining"}
    NodeData <- MCNodeData
    GpuData <- MCGpuData
    SpineUplinks <- MCSpineUplinks
    AddedAt <- MCAddedAt
    Jobs = {"spine", "any"}
    Requests <- MCPairRequests
    QoSClasses = {"batch"}
    GracePeriods = {0}
    MaxTime = 0
    MaxGrants = 2

SPECIFICATION Spec

INVARIANTS
    NodesAreRoomy
