SPECIFICATION FairSpec
CONSTANTS
    Dashboard = {d1}
    Worker = {cron}
    Cron = cron
    None = None
    Tries = 2
    Offload = {TRUE, FALSE}
    MaxEdits = 1
    MaxCalls = 1
    MaxLost = 1
INVARIANTS ModeHasAnAuthor MarkIsEarned
PROPERTY Reconverges
