SPECIFICATION Spec
CONSTANTS
    None = None
    Session = {r1, r2}
    Note = {n1, n2}
    LastPhase = 3
    RetryDebrief = FALSE
    Losses = FALSE
INVARIANTS
    CancelSticks
CHECK_DEADLOCK FALSE
