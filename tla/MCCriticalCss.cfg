SPECIFICATION Spec
CONSTANTS
    Render = {r1}
    None = None
    Grace = 1
    Throttle = 1
    JobsTTL = 3
    Heal = 4
    MaxAttempts = 2
    MaxEdits = 1
    MaxFaults = 1
CHECK_DEADLOCK FALSE
PROPERTY EventuallyStyled
