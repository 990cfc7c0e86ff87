SPECIFICATION Spec
CONSTANTS
    s1 = s1  s2 = s2  f1 = f1  f2 = f2
    NoFilter = NoFilter  None = None
    Spot <- MCSpot
    Filter <- OneFilter  BadFilter = {}
    Eligible <- MCEligible  Closures <- Seasonal
    Turn = {t1, t2}
    Exclusion = {x1}
    Confirmation = {c1}
    Locking = {l1}
    Agentic = FALSE
    Overlap <- ExcludeWithTurn
    Faults = TRUE
    HopCap = 1  MaxToolCalls = 1  MaxNotes = 1
    WarnRows = 2  HardRows = 4  MaxHour = 0
INVARIANTS
    ExcludedNotCandidate
    
CHECK_DEADLOCK FALSE
