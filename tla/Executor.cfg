\* Two concurrent requests, two keys, any admin operation at any time.
CONSTANTS
    Keys = {k1, k2}
    NoKey = NoKey
    Labels = {default}
    DefaultLabel = default
    NoLabel = NoLabel
    MaxWeight = 1
    Requests = {r1, r2}
    InitialPools <- FirstPools
SPECIFICATION Spec
SYMMETRY Symmetries
INVARIANTS FailoverCoversPool StopsAtAnswer CreditConserved
