\* A dispatch and a rerun of one job, in each of four sets of hazards; three
\* jobs of two pages.
SPECIFICATION BothSpec
CONSTANTS
    j1 = j1
    k1 = k1
    k2 = k2
    Job = {j1}
    Run <- Runs
    JobOf <- JobOfRun
    Rerun <- Reruns
    Consumer = {w1, w2}
    Caller = {c1}
    Sweeper = sweeper
    Dlq = dlq
    Environments <- Hazardous
    MaxDuplicates = 2
    Path = {"home", "post"}
    None = None
    Root = "home"
    Listed = {}
    Param = {"q", "utm"}
    Ignored = {"utm"}
    Limit = 2
    Visited <- SomeUrls
    MaxJobs = 3
    MaxTime = 1
SYMMETRY Symmetry
INVARIANTS
    ChargedOnlyForWork
    NoStrandedCredit
    
CHECK_DEADLOCK FALSE
