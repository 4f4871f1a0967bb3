SPECIFICATION ReportsSpec
CONSTANTS
    Cron = {c1}
    None = None
    Mode = {"defer", "interaction_delay"}
    TicksPerHour = 1
    HoursPerDay = 2
    Retention = 3
    Window = 2
    Cooldown = 2
    MinViews = 1
    MinBaseline = 1
    MaxTicks = 3
    MaxViews = 2
    MaxSwitches = 1
    MaxFaults = 1
    MaxUsage = 1
    MaxPins = 1
    MaxLost = 1
CHECK_DEADLOCK FALSE
PROPERTIES RowsCatchUp UnservedIsNoticed
