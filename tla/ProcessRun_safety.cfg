SPECIFICATION Spec
CONSTANTS
    NoExit = NoExit
    Uses = {"run", "background"}
    Limits = {0, 4}
    PipeSize = 2
    MaxWritten <- SmallOutput
INVARIANTS
    TypeOK
    OutputIsTrue
    OutcomeIsTrue
CHECK_DEADLOCK FALSE
