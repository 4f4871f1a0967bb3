SPECIFICATION VisitSpec
CONSTANTS
    Scripts <- SomeScripts
    ImageKinds <- SomeImages
    Pages <- SomePages
    Settings <- SomeSettings
    Requests = {r1, r2}
    Visitor = r1
    MaxFails = 2
    MaxEdits = 1
    MaxFaults = 1
    MaxLost = 1
    Getter = {g1}
    Worker = {w1}
    Colo = {c1}
    None = None
    Assets <- AllAssets
    MaxAttempts = 2
    MaxUpsets = 1
INVARIANTS  RightBytes
PROPERTY PageComes
CHECK_DEADLOCK FALSE
