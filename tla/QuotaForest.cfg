CONSTANTS
    Tenants = {t1, t2, t3}
    NoParent = NoParent
    QuotaSizes = {1}
    RateLimits = {}
    GpuCounts = {1}
    MaxUsage = 1

SPECIFICATION Spec

INVARIANTS
    PolicyIsForest
