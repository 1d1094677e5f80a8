CONSTANTS
    Session = {s1, s2}
    NoSession = NoSession
    Policy = {p1, p2}
    NoPolicy = NoPolicy
    MaxPending = 1
    MaxBackends = 2
    MaxTokens = 2
    MaxEdits = 2
    MaxCalls = 3
SYMMETRY Symmetry
SPECIFICATION Spec
INVARIANTS TypeOK OneBackend IdleStopSparesWork PolicyIsEarned
CHECK_DEADLOCK FALSE
