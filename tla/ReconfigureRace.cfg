\* A settings request while the plugin is registered anew.
CONSTANTS
    Calls = {1, 2, 3}
    Configs = {1, 2, 3}
    NoCall = NoCall
    NoConfig = NoConfig
    NumFields = 2
    Original = Original
SPECIFICATION RegisteredSpec
INVARIANT NoUnlockOfUnlocked
CHECK_DEADLOCK FALSE
