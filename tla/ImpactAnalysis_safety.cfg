SPECIFICATION Spec
CONSTANTS
    Code <- CodeNodes
    Info <- CodeInfo
    Label <- Labels
    TestInfo <- Tests
    TestFiles <- Testing
    Contains <- Parts
    InitialEdges <- Graph
    LaterEdges <- Growth
    Requests <- Asked
INVARIANTS
    TypeOK
    EvidenceIsReal
    CallersAreTrue
    CoverageIsHonest
CHECK_DEADLOCK FALSE
