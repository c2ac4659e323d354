\* Any lines up to 4, expected ones up to 5; marks (named, blank, reasoned) in
\* expected bodies only (MCStreamConverter!BodyConsidered).
CONSTANTS
    ToolIds = {t1, t2}
    NoId = NoId
    Inputs <- AllInputs
    MaxEvents = 5
    MaxLines = 4
SPECIFICATION MixedSpec
SYMMETRY ToolIdSymmetry
INVARIANTS TypeOK RoleLeads FinishEndsStream IndexPerCall ArgumentsReachTheirCall
           PayloadInOrder PayloadComplete LatestUsageReported BothReadersAgree
PROPERTY ClientSpec
\* The converter stops after Finalize.
CHECK_DEADLOCK FALSE
