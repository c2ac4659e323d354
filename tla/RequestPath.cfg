\* Any name under any settings, or any conversation of up to three turns, with
\* two changes of the settings.
CONSTANTS
    Segments <- SmallSegments
    Catalog <- SmallCatalog
    ModelMaps <- ModelMapsHere
    Ids = {id1, id2}
    NoId = NoId
    Names = {read, write}
    NoFunction = NoFunction
    Settings <- AllSettings
    Requests <- Conversations
    MaxUpdates = 2
SPECIFICATION SplitSpec
SYMMETRY Symmetries
INVARIANTS TypeOK ListedIsServed OwnNamespaceNeverStale AliasIsServed ResultNamesItsCall TurnsKept OneReplayMode
CHECK_DEADLOCK FALSE
