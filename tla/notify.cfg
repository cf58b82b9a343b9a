CONSTANTS
    Profiles <- Settings
    OffWarning = 3
    Grace = 1
    PollSeconds = 2
    Threads = {t1, t2, t3}
    Ids = {1, 2, 3}
    None = None
    New = New
    t1 = t1
    t2 = t2
    t3 = t3
SPECIFICATION HNSpec
SYMMETRY AnyThread
INVARIANTS NTypeOK NoStaleWarning HeldOnIsNoticed
PROPERTIES WarnedInTime NoticeJustified
