SPECIFICATION HDSpec
CONSTANTS
    Sample <- MCSample
    Field <- MCField
    Neighbours <- MCNeighbours
    Distance <- MCDistance
    Top = 1000
INVARIANT NeighboursJoined
CHECK_DEADLOCK FALSE
