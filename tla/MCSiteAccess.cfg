SPECIFICATION AccessSpec
CONSTANTS
    Subscription = {s1}
    Site = {d1}
    Hook = {h1}
    Owner = {o1}
    Caller = {c1}
    Sweeper = sweeper
    None = None
    Entry = {"site", "siteactive"}
    Reported = {}
    MaxSites = 1
    MaxEvents = 2
    MaxRequests = 2
    MaxTime = 1
    MaxCrashes = 1
    User = {u1, u2}
    Email = {x, y}
    Shared = {u1}
    Local = Local
    MaxNews = 3
    Request = {r1, r2}
    FallbackLife = 2
    MaxHours = 3
    MaxFaults = 2
INVARIANT OutageIsBridged
PROPERTIES DeactivatedForCause EndsWithPeriod  
CHECK_DEADLOCK FALSE
