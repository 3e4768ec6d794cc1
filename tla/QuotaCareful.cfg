CONSTANTS
    Tenants = {t1, t2, t3, t4}
    NoParent = NoParent
    QuotaSizes = {1, 2}
    RateLimits = {}
    GpuCounts = {1, 2}
    MaxUsage = 2

SPECIFICATION CarefulSpec

SYMMETRY Symmetry

INVARIANTS
    QuotaTypeOK
    QuotaRespected
    PolicyIsForest
    SharesGuaranteed
    TeamIsTheLimiter
