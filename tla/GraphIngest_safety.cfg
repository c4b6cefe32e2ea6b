SPECIFICATION Spec
CONSTANTS
    Clients = {c1, c2}
    Versions <- TreeVersions
    Tree <- Trees
    NoVersion = NoVersion
    MaxEdits = 1
INVARIANTS
    TypeOK
    SummaryIsTrue
    CallsReachTheirTargets
PROPERTIES
    ImplementsContract
SYMMETRY Interchangeable
