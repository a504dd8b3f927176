CONSTANTS
    Proc = {p1, p2}
    Owned = {p1}
    Backoff = 2
    MaxRuns = 4
    MaxTime = 4
    NoProc = NoProc
SPECIFICATION Spec
INVARIANT QuotaRespected
INVARIANT QuotaRecorded
PROPERTY LedgerForward
