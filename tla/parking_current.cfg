CONSTANTS
    Proc = {p1, p2}
    Source = {"kac_parking", "incheon_parking"}
    Payload <- MCPayload
    MaxLag <- MCMaxLag
    MaxRuns = 3
    MaxTime = 2
SPECIFICATION Spec
SYMMETRY MCSymmetry
INVARIANT CurrentMatchesHead
INVARIANT FailureOrdered
PROPERTY HeadForward
CHECK_DEADLOCK FALSE
