SPECIFICATION FairSpec
CONSTANTS
    r1 = r1
    r2 = r2
    Requests = {r1, r2}
INVARIANTS
    TypeOK
    ErrorIsSeen
PROPERTY ErrorsEnd
\* The clients are finite in number: once all are served nothing happens.
CHECK_DEADLOCK FALSE
