SPECIFICATION Spec
CONSTANTS
    Streams <- BodilessStreams
    Ordinary <- OrdinarySymbols
    Numerals <- NumeralValues
    Extension <- AnExtension
    Buffers = {1, 100}
INVARIANTS
    Decoded
\* The responses are finite in number: once all are read nothing happens.
CHECK_DEADLOCK FALSE
