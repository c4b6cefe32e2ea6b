SPECIFICATION FairSpec
CONSTANTS
    NoExit = NoExit
    Uses = {"run"}
    Limits = {4}
    PipeSize = 1
    MaxWritten <- TinyOutput
PROPERTIES
    RunReturns
    OutputMovesOn
CHECK_DEADLOCK FALSE
