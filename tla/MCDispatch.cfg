\* A request and a consumer, which also crawls; a page changes its structure once.
SPECIFICATION JourneySpec
CONSTANTS
    c1 = c1
    w1 = w1
    root = root
    post = post
    s1 = s1
    s2 = s2
    None = None
    Caller = {c1}
    Consumer = {w1}
    Page = {root, post}
    Root = root
    Structure = {s1, s2}
    Routes = {"dispatch", "embed", "crawl"}
    Lists <- JustBoth
    SiteCap = 3
    FleetCap = 2
    MaxJobs = 4
    Credits = 3
    MaxRedesigns = 1
    MaxFaults = 1
    MarkerFails = FALSE
    Visitor = {r1, r2}
    Colo = {edge1}
    Inactive = Inactive
    CssLife = 2
    MaxTime = 3
    MaxVersions = 1
    MaxSwitches = 1
    Challenge = Challenge
    Fingerprint = {1, 2}
    MaxAttempts = 2
    MaxOutput = 2
    MaxProtected = 1
    MaxRules = 5
    TooLittle = 1
    Little = 2
    MaxChanges = 1
    Document <- SomeDocuments
    Late <- SomeLate
    Render = {p1}
    Grace = 1
    Throttle = 1
    JobsTTL = 3
    Heal = 4
    MaxPolls = 2
    MaxEdits = 1
    MaxLosses = 1
SYMMETRY Symmetric
CHECK_DEADLOCK FALSE
INVARIANTS
    CompletedHasArtifact
    
    StoredIsTheCascade
    AnswersAreRecent
 
