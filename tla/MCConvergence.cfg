\* A provider that enforces versions and unique bindings
SPECIFICATION Spec
SYMMETRY RunSymmetry
CONSTANTS
    Names <- MCNames
    Fold <- MCFold
    WellFormed <- MCNames
    Texts <- MCTexts
    Values <- MCValues
    ScalarString <- MCScalarString
    Subject = "s1"
    Runs = {r1, r2}
    Configs <- MCConfigs
    Projections <- MCProjections
    OtherWrites <- MCOtherWrites
    Tokens <- MCTokens
    Versioned = TRUE
    Unique = TRUE
    MaxRows = 2
    MaxFaults = 1
    MaxOthers = 1
INVARIANTS
    TypeOK
    StaysBound
    SuccessIsConverged
PROPERTIES
    OverwritesOnlyWhatItRead
    ImplementsTarget
