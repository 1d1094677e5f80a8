CONSTANTS
    MaxAttempts = 1
    MaxTime = 1
    MaxCrashes = 0
    MaxAsks = 0
    Notices = {"poll", "alert"}
    MaxNotices = 1
    SetAside = FALSE
    Unsaved = {"gone_unknown", "result"}
SPECIFICATION LiveSpec
PROPERTIES OvertakenNotSent ResultReachesOwner
CHECK_DEADLOCK FALSE
