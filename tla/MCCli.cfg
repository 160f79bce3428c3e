SPECIFICATION Spec
CONSTANTS
    Servers = {s1}
    MaxChanges = 2
    MaxPages = 2
    MaxCalls = 1
    MaxInterrupts = 2
    Shells = {c1}
    MaxUsed = 1
INVARIANTS
    NothingLeftRunning
    SessionsAreDeleted
    AbandonedRequestsAreCancelled
    QuietListingIsCurrent
PROPERTIES
    AlwaysEnds
CHECK_DEADLOCK FALSE
