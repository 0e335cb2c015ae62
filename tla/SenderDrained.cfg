SPECIFICATION Spec
CONSTANTS
    r1 = r1
    r2 = r2
    Requests = {r1, r2}
    Size = 4
    MaxStacked = 3
INVARIANT SurvivesBackpressure
\* The clients are finite in number: once all bodies are sent nothing happens.
CHECK_DEADLOCK FALSE
