SPECIFICATION PortalSpec
CONSTANTS
    None = None
    State = {s1}
    Pairer = {p1, p2}
    Return = {r1}
    Caller = {c1}
    MaxPolls = 1
    MaxKeys = 2
    MaxFaults = 1
    MaxCalls = 1
    Job = {1, 2}
    Read = {1, 2}
    PageSize = 1
    MaxChanges = 1
    MaxLost = 1
    MaxClicks = 2
    Refresh = {f1}
    Check = {v1, v2}
    MaxAttempts = 3
    MaxOutages = 2
    MaxNews = 2
    MaxRuns = 3
    MaxEdits = 2
    MaxReads = 1
CHECK_DEADLOCK FALSE
INVARIANTS VerifiedIsCurrent  SellsWhatItCan
PROPERTIES  ListCatchesUp VerificationEnds FeedNeverGoesBack
