CONSTANTS
    Faults = {"lost", "error", "checkin", "crash"}
SPECIFICATION FairSpec
INVARIANTS TypeOK BookedUntilGone InactiveMeansReleased
PROPERTIES ResultSavedBeforeRelease ResultDelivered
CHECK_DEADLOCK FALSE
