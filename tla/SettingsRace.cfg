\* Do the settings a request saved stay in config.yaml when account requests run beside it?
CONSTANTS
    k1 = k1
    k2 = k2
    k3 = k3
    work = work
    Keys = {k1, k2}
    NoKey = NoKey
    Labels = {default}
    DefaultLabel = default
    NoLabel = NoLabel
    MaxWeight = 1
    Names <- AllNames
    AuthFileName <- LabelNames
    HashedName <- HashedNames
    Handlers = {h1, h2}
    Settings = {s0, s1}
    DefaultSettings = s0
    Operations <- AccountsBesideSettings
    InitialPools <- OneAccount
SPECIFICATION Spec
SYMMETRY HandlerSymmetry
INVARIANT SavedSettingsStay
