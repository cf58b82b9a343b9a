CONSTANTS
    Inputs = {"hdmi1", "hdmi2"}
    Remote = TRUE
    On = {on}
    Off = {off}
    ScreenOff = {}
    Status = {}
    Root = {on, off}
    Killable = {on, off}
    AtSuspend = {}
    AtShutdown = {}
    PowerOffAtSuspend = TRUE
    PowerOffAtShutdown = TRUE
    SharedTv = TRUE
    HdmiInput = "hdmi1"
    WakeAttempts = 3
    SetInputAttempts = 2
    FailCodes = {2}
    Free = free
    on = on
    off = off
SPECIFICATION HSpec
INVARIANTS TypeOK BudgetKept InputTakenOnlyFromSleeper OffOnlyOurPicture 
PROPERTIES OnSuccessMeansLit
