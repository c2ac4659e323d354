\* Every pool of up to 4 keys with weights 1 to 4, for two cycles or more; a
\* pool of 3 keys under any toggling and reweighting.
CONSTANTS
    Keys = {k1, k2, k3, k4}
    NoKey = NoKey
    Labels = {default}
    DefaultLabel = default
    NoLabel = NoLabel
    MaxWeight = 4
    Pools <- AllPools
    ChangeablePools <- ThreeKeys
    NewWeights = {1, 2}
    MaxRounds = 24
SPECIFICATION SchedulerSpec
INVARIANTS ExactShare NeverAhead CreditBounded
PROPERTY NoKeyStarves
