CONSTANTS
    Inputs = {"hdmi1", "hdmi2"}
    Remote = FALSE
    On = {on1, on2}
    Off = {}
    ScreenOff = {scr}
    Status = {}
    Root = {on1, on2}
    Killable = {on1}
    AtSuspend = {}
    AtShutdown = {}
    PowerOffAtSuspend = TRUE
    PowerOffAtShutdown = TRUE
    SharedTv = TRUE
    HdmiInput = "hdmi1"
    WakeAttempts = 2
    SetInputAttempts = 2
    FailCodes = {1, 2, 3}
    Free = free
    on1 = on1
    on2 = on2
    scr = scr
SPECIFICATION Spec
PROPERTIES OnlySilenceHangs DroppedOnIsServed
