\* Six-bit arithmetic, up to two lines.
SPECIFICATION Spec
CONSTANTS
    Half = 32
    DecimalMax = 10
    IntMax = 7
    Quantities <- MCQuantities
    Prices <- MCPrices
    LinesMax = 2
INVARIANTS
    ChecksNeverTrip
    RefusedForAReason
    ExactWithinWidth
