SPECIFICATION Spec
CONSTANTS
    r1 = r1
    r2 = r2
    r3 = r3
    Requests = {r1, r2, r3}
    MaxRequests = 2
    MaxBody = 2
    Backpressure = TRUE
    ParserErrors = TRUE
SYMMETRY Symmetry
INVARIANTS
    TypeOK
    NoOrphan
    FailedIsFinal
    AbortedIsStale
    BlockedIsHead
    UnitsOnce
    RetryWithinBuffer
\* The clients are finite in number: once all are served nothing happens.
CHECK_DEADLOCK FALSE
