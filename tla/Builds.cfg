CONSTANTS
    Caller = {t1, t2}
    NoCaller = NoCaller
    MaxAttempts = 2
    Faults = {"error", "release", "crash", "build", "linger", "kill"}
    MaxFaults = 1
SPECIFICATION FairSpec
INVARIANTS TypeOK OneAttemptRuns BookedUntilGone
PROPERTIES GroupSpec ResultDelivered
CHECK_DEADLOCK FALSE
