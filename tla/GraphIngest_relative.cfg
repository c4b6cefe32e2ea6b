SPECIFICATION Spec
CONSTANTS
    Clients = {c1}
    Versions <- TreeVersions
    Tree <- Trees
    NoVersion = NoVersion
    MaxEdits = 0
INVARIANTS
    RelativeImportsAreOrdinary
