CONSTANTS
    Server = {s1, s2}
    Repo = {s1, s2}
    RepoOf <- MCOwnRepo
    Key = {k1}
    Job = {j1, j2}
    MaxAttempts = 1
    NoJob = NoJob
    NoServer = NoServer
    NoKey = NoKey
    Faults = {}
    HostFaultCodes = {255}
    s1 = s1
    s2 = s2
    j1 = j1
    j2 = j2
    r1 = r1
    k1 = k1
SPECIFICATION Spec
INVARIANTS OneProgramPerGpu
PROPERTIES FreshReservationUntouched
CONSTRAINT MCFewCalls
SYMMETRY MCSymmetry
CHECK_DEADLOCK FALSE
