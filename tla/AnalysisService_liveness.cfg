SPECIFICATION FairSpec
CONSTANTS
    flat = flat
    nested = nested
    old = old
    new = new
    NoLocation = NoLocation
    NoRepo = NoRepo
    w1 = w1
    w2 = w2
    j1 = j1
    Locations <- CodeLocations
    FileOf <- FileOfLocation
    Workers = {w1, w2}
    JobIds = {j1}
    Repos = {old, new}
    ChunksOf <- ChunksOfRepo
    Matches <- LooseMatches
    Mode = "real"
    Facts <- EngineFacts
    TopK = 1
    MaxIndexings = 1
    Outages = TRUE
PROPERTIES
    JobsEnd
CHECK_DEADLOCK FALSE
