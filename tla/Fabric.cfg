CONSTANTS
    Entities = {1, 2, 3}
    Data <- MCData
    LinkCalls <- MCLinkCalls
    NoKey = NoKey
    NoLink = NoLink
    Bare = Bare
    MaxLinks = 2
    MaxExports = 2
    Formats = {"graphar", "graphml"}
    EmptyString = EmptyString

SPECIFICATION Spec

INVARIANTS
    SavedIsLoaded
    UnfinishedIsRefused

PROPERTIES
    ImplementsStore

CHECK_DEADLOCK FALSE
