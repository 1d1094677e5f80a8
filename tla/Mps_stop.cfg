CONSTANTS
    Cases = {c1, c2}
    MaxConcurrent = 1
    NoCase = NoCase
    MaxAttempts = 2
    MaxRequests = 1
    Faults = {"boot", "refuse", "service", "gpu", "spawn", "start", "stop", "timeout", "term", "kill", "attach", "crash"}
    MaxFaults = 1
    c1 = c1
    c2 = c2
SPECIFICATION FairSpec
PROPERTIES StopEndsSweep
CHECK_DEADLOCK FALSE
