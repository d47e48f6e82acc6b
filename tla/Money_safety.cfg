\* Texts of up to five characters, eighteen-bit amounts.
SPECIFICATION Spec
CONSTANTS
    Half = 131072
    MaxMajorDigits = 2
    DecimalMax = 999
    Texts <- MCTexts
    Computed <- MCComputed
INVARIANTS
    DecimalsAreExact
    NothingIsRounded
    StringIsExact
PROPERTIES
    ReadsBack
