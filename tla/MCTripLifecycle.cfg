SPECIFICATION Spec
CONSTANTS
    None = None
    Session = {r1, r2, r3}
    Note = {n1, n2}
    LastPhase = 3
    RetryDebrief = FALSE
    Losses = TRUE
SYMMETRY Names
INVARIANTS
    StateNeverAhead
    LinksResolve

    
CHECK_DEADLOCK FALSE
