CONSTANTS
    Tenants = {t1, t2, t3}
    NoParent = NoParent
    Absent = Absent
    QuotaSizes <- MCQuotaSizes
    RateLimits <- MCRateLimits
    Files <- MCFiles

SPECIFICATION Spec

INVARIANTS
    OrderIsSound
    RefusedForCause
    ImportIsFaithful

PROPERTIES
    ImportEnds

CHECK_DEADLOCK FALSE
