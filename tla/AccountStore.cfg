\* Every operation, two labels, with crashes; requests that add, remove and save
\* settings also overlap.
CONSTANTS
    k1 = k1
    k2 = k2
    k3 = k3
    work = work
    Keys = {k1, k2, k3}
    NoKey = NoKey
    Labels = {default, work}
    DefaultLabel = default
    NoLabel = NoLabel
    MaxWeight = 1
    Names <- AllNames
    AuthFileName <- LabelNames
    HashedName <- HashedNames
    Handlers = {h1, h2}
    Settings = {s0, s1}
    DefaultSettings = s0
    Operations <- EveryOperation
    InitialPools <- FewPools
SPECIFICATION MixedSpec
SYMMETRY HandlerSymmetry
INVARIANTS TypeOK AloneRepairs AloneIsAtomic
PROPERTY OthersUntouched
