\* Does adding an account keep the accounts there are?
CONSTANTS
    k1 = k1
    k2 = k2
    k3 = k3
    work = work
    Keys = {k1, k2}
    NoKey = NoKey
    Labels = {default, work}
    DefaultLabel = default
    NoLabel = NoLabel
    MaxWeight = 1
    Names <- AllNames
    AuthFileName <- LabelNames
    HashedName <- HashedNames
    Handlers = {h1}
    Settings = {s0, s1}
    DefaultSettings = s0
    Operations <- EveryOperation
    InitialPools <- FirstPools
SPECIFICATION Spec
PROPERTY AddKeepsOthers
