SPECIFICATION Spec
CONSTANTS
    r1 = r1
    Requests = {r1}
    MaxRequests = 0
    MaxBody = 2
    Backpressure = TRUE
    ParserErrors = FALSE
INVARIANTS
    DoneIsTerminated
\* The clients are finite in number: once all are served nothing happens.
CHECK_DEADLOCK FALSE
