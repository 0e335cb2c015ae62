SPECIFICATION Spec
CONSTANTS
    r1 = r1
    r2 = r2
    r3 = r3
    c1 = c1
    c2 = c2
    c3 = c3
    None = None
    Requests = {r1, r2, r3}
    Connections = {c1, c2, c3}
    MaxConnections = 2
    MaxPipelined = 2
    MaxReopen = 1
INVARIANTS
    HostLimit
\* The requests are finite in number: once all have ended nothing happens.
CHECK_DEADLOCK FALSE
