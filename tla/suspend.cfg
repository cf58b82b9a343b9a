CONSTANTS
    Setups <- OneForEach
    GracePolls = 2
    DelayExpires = FALSE
    Calm = TRUE
    ListenerDies = FALSE
    Escalates = TRUE
    Darkens = FALSE
    MaxQueue = 4
SPECIFICATION HSSpec
INVARIANTS STypeOK NoOffAcrossSleep
PROPERTIES CycleKept ResumeAnswered
