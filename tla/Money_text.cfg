\* Is only decimal text accepted?
SPECIFICATION Spec
CONSTANTS
    Half = 131072
    MaxMajorDigits = 2
    DecimalMax = 999
    Texts <- MCTexts
    Computed <- MCComputed
INVARIANTS
    OnlyDecimalText
