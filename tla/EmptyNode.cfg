CONSTANTS
    Entities = {1, 2, 3}
    Data <- MCData
    LinkCalls <- MCLinkCalls
    NoKey = NoKey
    NoLink = NoLink
    Bare = Bare
    MaxLinks = 1
    MaxExports = 1
    Formats = {"graphar", "graphml"}
    EmptyString = EmptyString

SPECIFICATION Spec

INVARIANTS
    EmptyTupleIsReversed

CHECK_DEADLOCK FALSE
