CONSTANTS
    EscalateAfter = 4
    JumpLimit = 2
    OnBlock = 2
    OffBlock = 1
    MaxNap = 3
    Horizon = 12
SPECIFICATION HMSpec
INVARIANTS MTypeOK EscalationNotEarly EscalatesInTime DisplayHeeded
