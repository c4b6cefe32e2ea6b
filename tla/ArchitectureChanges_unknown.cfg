SPECIFICATION Spec
CONSTANTS
    Revisions = {r1, r2}
    Trees <- CallTrees
    Contexts <- Plain
    Missing = Missing
    None = None
    MaxCalls = 1
CHECK_DEADLOCK FALSE
INVARIANT
    UnreadableIsUnknown
