SPECIFICATION Spec
CONSTANTS
    r1 = r1
    r2 = r2
    Requests = {r1, r2}
    MaxRequests = 0
    MaxBody = 1
    Backpressure = TRUE
    ParserErrors = FALSE
INVARIANTS
    HeadersMatch
\* The clients are finite in number: once all are served nothing happens.
CHECK_DEADLOCK FALSE
