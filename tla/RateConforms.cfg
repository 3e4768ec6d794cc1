CONSTANTS
    Tenants = {t1, t2}
    NoParent = NoParent
    QuotaSizes = {}
    RateLimits <- MCFewRateLimits
    Unit = 2
    MaxTime = 2
    MaxAdmitted = 4

SPECIFICATION SetOnceSpec

INVARIANTS
    RateConforms

SYMMETRY Symmetry
