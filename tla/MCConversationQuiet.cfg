SPECIFICATION Spec
CONSTANTS
    s1 = s1  s2 = s2  f1 = f1  f2 = f2
    NoFilter = NoFilter  None = None
    Spot <- MCSpot
    Filter <- MCFilter  BadFilter = {f2}
    Eligible <- MCEligible  Closures <- Seasonal
    Turn = {t1, t2}
    Exclusion = {x1}
    Confirmation = {c1}
    Locking = {}
    Agentic = TRUE
    Overlap <- NoOverlap
    Faults = FALSE
    HopCap = 1  MaxToolCalls = 2  MaxNotes = 0
    WarnRows = 2  HardRows = 5  MaxHour = 1
INVARIANTS
    
    CandidatesCurrent
PROPERTIES
    EveryTurnEnds
CHECK_DEADLOCK FALSE
