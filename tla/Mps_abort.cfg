CONSTANTS
    Cases = {c1, c2}
    MaxConcurrent = 2
    NoCase = NoCase
    MaxAttempts = 2
    MaxRequests = 1
    Faults = {"attach"}
    MaxFaults = 1
    c1 = c1
    c2 = c2
SPECIFICATION Spec
INVARIANTS IsolatedFailureStaysLocal
SYMMETRY MCSymmetry
CHECK_DEADLOCK FALSE
