CONSTANTS
    Cases = {c1, c2}
    MaxConcurrent = 1
    NoCase = NoCase
    MaxAttempts = 2
    MaxRequests = 2
    Faults = {"attach", "boot", "crash", "refuse", "service", "spawn", "start", "stop", "timeout", "kill"}
    MaxFaults = 2
    c1 = c1
    c2 = c2
SPECIFICATION Spec
INVARIANTS TypeOK Bounded AcceptedIsApplied SuccessIsEarned
PROPERTIES GroupSpec TeardownFirst
SYMMETRY MCSymmetry
CHECK_DEADLOCK FALSE
