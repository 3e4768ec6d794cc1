CONSTANTS
    PodCalls <- MCPodCalls
    Samples <- MCSamples
    Az <- MCAz
    Default <- MCDefault
    MaxAzs = 3
    MaxPods = 3
    NoKey = NoKey
    NoLink = NoLink
    Bare = Bare

SPECIFICATION Spec

INVARIANTS
    QueriesAgree
    BestComeFirst
    BottleneckIsWidest
    LinksAreDuplex
    BuiltForPlacement
    SharedSpineIsPod
    SpansItsTier
    NearerIsQuicker
    AllAreJoined

CHECK_DEADLOCK FALSE
