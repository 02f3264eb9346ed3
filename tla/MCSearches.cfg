SPECIFICATION Spec
CONSTANTS
    N = 5
    Infinity <- MCInfinity
    Lengths <- MCLengths
    Asked = {3, 6}
INVARIANTS
    TypeOK
    NeighboursNearest
    EnoughNeighbours
    PathsShortest
PROPERTIES
    UsesHeap
    ImplementsQueue
    SearchesEnd
CHECK_DEADLOCK FALSE
