SPECIFICATION FairSpec
CONSTANTS
    Getter = {g1}
    Worker = {w1}
    Colo = {c1}
    None = None
    Assets <- AllAssets
    MaxAttempts = 2
    MaxFaults = 1
PROPERTIES  OffloadSettles
CHECK_DEADLOCK FALSE
