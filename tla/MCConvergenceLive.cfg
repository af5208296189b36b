\* A provider without versions and unique bindings
SPECIFICATION Spec
CONSTANTS
    Names <- MCNames
    Fold <- MCFold
    WellFormed <- MCNames
    Texts <- MCTexts
    Values <- MCValues
    ScalarString <- MCScalarString
    Subject = "s1"
    Runs = {r1, r2}
    Configs <- ValidConfigs
    Projections <- TitledOnly
    OtherWrites <- OneOtherWrite
    Tokens <- MCTokens
    Versioned = FALSE
    Unique = FALSE
    MaxRows = 2
    MaxFaults = 1
    MaxOthers = 1
INVARIANT
    DuplicatesHaveACause
PROPERTIES
    Converges
    WritesOneProjection
