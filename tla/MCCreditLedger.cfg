SPECIFICATION MCSpec
CONSTANTS
    k1 = k1
    k2 = k2
    j1 = j1
    Worker = {w1, w2}
    RunKey <- RunKeys
    Job = {j1}
    JobOf <- JobOfRun
    Period = {1}
    PlanCredits = {1}
    OverageRequest = {0, 2}
    MaxOverage = 1
    Interruptible = TRUE
SYMMETRY Symmetry
INVARIANTS
    NoOverspend
    ReservedBacksRows
    ChargedOnce
    ExactUnlessInterrupted
PROPERTY
    ImplementsAccount
