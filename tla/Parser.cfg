SPECIFICATION Spec
CONSTANTS
    Streams <- SteadyStreams
    Ordinary <- OrdinarySymbols
    Numerals <- NumeralValues
    Extension <- AnExtension
    Buffers = {1, 2, 3, 7, 100}
INVARIANTS
    TypeOK
    Decoded
    AllDecoded
PROPERTIES
    ImplementsFraming
\* The responses are finite in number: once all are read nothing happens.
CHECK_DEADLOCK FALSE
