CONSTANTS
    Setups <- OneNic
    GracePolls = 2
    DelayExpires = FALSE
    Calm = FALSE
    ListenerDies = FALSE
    Escalates = TRUE
    Darkens = FALSE
    MaxQueue = 3
SPECIFICATION HSSpec
INVARIANTS SuspendHandled
