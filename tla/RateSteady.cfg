CONSTANTS
    Tenants = {t1, t2}
    NoParent = NoParent
    QuotaSizes = {}
    RateLimits <- MCRateLimits
    Unit = 2
    MaxTime = 3
    MaxAdmitted = 2

SPECIFICATION SteadySpec

INVARIANTS
    WindowRestoresToken

PROPERTIES
    RejectionSpendsNothing
