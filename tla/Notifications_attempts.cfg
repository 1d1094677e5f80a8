CONSTANTS
    MaxAttempts = 2
    MaxTime = 0
    MaxCrashes = 1
    MaxAsks = 1
    Notices = {}
    MaxNotices = 0
    SetAside = FALSE
    Unsaved = {}
SPECIFICATION Spec
INVARIANTS TypeOK AtMostOnce OnceInv
PROPERTIES OldAttemptSilent AcceptedKept
CHECK_DEADLOCK FALSE
