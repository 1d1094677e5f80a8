CONSTANTS
    Server = {s1, s2}
    Repo = {r1}
    RepoOf <- MCOneRepo
    Key = {k1}
    Job = {j1}
    MaxAttempts = 2
    NoJob = NoJob
    NoServer = NoServer
    NoKey = NoKey
    Faults = {"unreadable", "checkin", "kill", "early", "torn"}
    HostFaultCodes = {255}
    s1 = s1
    s2 = s2
    j1 = j1
    j2 = j2
    r1 = r1
    k1 = k1
SPECIFICATION Spec
INVARIANTS TypeOK LiveAttemptHoldsLease BookingNamesItsProcess LeaseInv
CHECK_DEADLOCK FALSE
