CONSTANTS
    Setups <- WithBoth
    GracePolls = 2
    DelayExpires = TRUE
    Calm = FALSE
    ListenerDies = TRUE
    Escalates = TRUE
    Darkens = TRUE
    MaxQueue = 4
SPECIFICATION HSSpec
INVARIANTS SettledOwesNothing
