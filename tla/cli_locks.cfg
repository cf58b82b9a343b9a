CONSTANTS
    Inputs = {"hdmi1"}
    Remote = FALSE
    On = {on1, on2, hand}
    Off = {off, gated}
    ScreenOff = {}
    Status = {stat}
    Root = {on1, on2, gated}
    Killable = {on1, on2}
    AtSuspend = {gated}
    AtShutdown = {}
    PowerOffAtSuspend = FALSE
    PowerOffAtShutdown = TRUE
    SharedTv = FALSE
    HdmiInput = "hdmi1"
    WakeAttempts = 1
    SetInputAttempts = 1
    FailCodes = {2}
    Free = free
    on1 = on1
    on2 = on2
    hand = hand
    off = off
    gated = gated
    stat = stat
SPECIFICATION Spec
SYMMETRY LockedOns
INVARIANTS OneLockedOn
