SPECIFICATION Spec
CONSTANTS
    Revisions = {r1, r2}
    Trees <- TheTrees
    Contexts <- Varied
    Missing = Missing
    None = None
    MaxCalls = 2
SYMMETRY Interchangeable
CHECK_DEADLOCK FALSE
INVARIANTS
    TypeOK
    ChangesReplay
    
    ReversalMirrors
