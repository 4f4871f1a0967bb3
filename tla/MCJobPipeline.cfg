SPECIFICATION FairSpec
CONSTANTS
    j1 = j1
    k1 = k1
    k2 = k2
    Job = {j1}
    Run <- Runs
    JobOf <- JobOfRun
    Rerun <- Reruns
    Consumer = {w1, w2}
    Caller = {c1}
    Sweeper = sweeper
    Dlq = dlq
    Environments <- Swept
    MaxDuplicates = 1
PROPERTY EveryJobSettles
CHECK_DEADLOCK FALSE
