\* A settings request beside an update.
CONSTANTS
    Calls = {1, 2, 3}
    Configs = {1, 2, 3}
    NoCall = NoCall
    NoConfig = NoConfig
    NumFields = 2
    Original = Original
SPECIFICATION RegisteredSpec
INVARIANT NobodyWaitsForItself
CHECK_DEADLOCK FALSE
