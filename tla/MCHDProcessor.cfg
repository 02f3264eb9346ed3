SPECIFICATION HDSpec
CONSTANTS
    Sample <- MCSample
    Field <- MCField
    Neighbours <- MCNeighbours
    Distance <- MCDistance
    Top = 1000
INVARIANTS
    TypeOK
    HDTypeOK
    ExtremaAreExtremal
    MergeClimbs
    EverySampleInCrystal
    NoMergeOverwritten
    LevelsMergeOne
    Nested
PROPERTY
    Terminates
CHECK_DEADLOCK FALSE
