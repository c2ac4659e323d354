\* A registered plugin and three calls at once, of any kind.
CONSTANTS
    Calls = {1, 2, 3, 4}
    Configs = {1, 2, 3, 4}
    NoCall = NoCall
    NoConfig = NoConfig
    NumFields = 4
    Original = Original
SPECIFICATION RegisteredSpec
INVARIANTS TypeOK SettingsReadWhole UpdateReachesServed BrokenOnlyWhenMoved OnlyNestedReadWedges ShutdownUnserves
PROPERTY EveryCallReturns
CHECK_DEADLOCK FALSE
