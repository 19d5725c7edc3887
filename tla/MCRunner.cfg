SPECIFICATION FairSpec
CONSTANTS
    LenMod = 10
    MaxInsns = 17
    Rules <- MCRules
    MaxRules = 3
INVARIANTS
    TypeOK
    Confined
    FilterMeansProfile
    NothingLeft
    ResultIsTrue
PROPERTIES
    RunEnds
