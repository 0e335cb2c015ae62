SPECIFICATION FairSpec
CONSTANTS
    r1 = r1
    r2 = r2
    r3 = r3
    Requests = {r1, r2, r3}
    MaxRequests = 0
    MaxBody = 2
    Backpressure = FALSE
    ParserErrors = FALSE
INVARIANTS
    HeadersMatch
    BodyMatch
    DoneIsComplete
    QueueIsWire
    LockMode
PROPERTIES
    ImplementsExchange
    Answered
\* The clients are finite in number: once all are served nothing happens.
CHECK_DEADLOCK FALSE
