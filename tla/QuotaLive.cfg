CONSTANTS
    Tenants = {t1, t2, t3}
    NoParent = NoParent
    QuotaSizes <- MCQuotaSizes
    RateLimits = {}
    GpuCounts = {1, 2}
    MaxUsage = 2

SPECIFICATION Spec

INVARIANTS
    WalksAgree
    LoopsComputeTheSets

PROPERTIES
    NoChargeAboveCeiling
