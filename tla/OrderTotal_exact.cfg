\* Is the stored total always the exact sum?  One line is enough.
SPECIFICATION Spec
CONSTANTS
    Half = 32
    DecimalMax = 10
    IntMax = 7
    Quantities <- MCQuantities
    Prices <- MCPrices
    LinesMax = 1
INVARIANTS
    StoredTotalIsExact
