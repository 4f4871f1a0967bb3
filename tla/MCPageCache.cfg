SPECIFICATION FilesSpec
CONSTANTS
    Renderer = {r1, r2}
    Purger = {p1, p2}
    None = None
    Kinds = {"soft", "push", "hard", "all"}
    MaxVersion = 2
    MaxFaults = 2
    Cron = {c1}
    Mode = {"defer", "interaction_delay"}
    TicksPerHour = 1
    HoursPerDay = 2
    Retention = 3
    Window = 2
    Cooldown = 2
    MinViews = 1
    MinBaseline = 1
    MaxTicks = 3
    MaxViews = 2
    MaxSwitches = 1
    MaxDeaths = 1
    MaxUsage = 1
INVARIANTS  DecidedOnFreshViews
PROPERTY Reconverges
CHECK_DEADLOCK FALSE
