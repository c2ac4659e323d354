\* A client asks for an alias of the configuration.
CONSTANTS
    Segments <- SmallSegments
    Catalog <- SmallCatalog
    ModelMaps <- ModelMapsHere
    Ids = {id1, id2}
    NoId = NoId
    Names = {read, write}
    NoFunction = NoFunction
    Settings <- AllSettings
    Requests <- NoTurns
    MaxUpdates = 0
SPECIFICATION SplitSpec
INVARIANT EveryAliasIsServed
CHECK_DEADLOCK FALSE
