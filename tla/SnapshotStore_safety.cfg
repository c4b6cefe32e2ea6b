SPECIFICATION FairSpec
CONSTANTS
    c1 = c1
    c2 = c2
    old = old
    new = new
    Clients = {c1, c2}
    Revisions = {old, new}
    Facts <- Contents
    NoFacts = NoFacts
    HasEdges <- WithEdges
    Built <- BuiltBy
    Jobs <- AllJobs
INVARIANTS
    TypeOK
    OneSnapshotPerRevision
    SavedIsComplete
    LoadsAreFromOneSave
PROPERTIES
    ImplementsRegister
    SavesComplete
