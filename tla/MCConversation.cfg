SPECIFICATION Spec
CONSTANTS
    s1 = s1  s2 = s2  f1 = f1  f2 = f2
    NoFilter = NoFilter  None = None
    Spot <- MCSpot
    Filter <- OneFilter  BadFilter = {}
    Eligible <- MCEligible  Closures <- Seasonal
    Turn = {t1, t2, t3}
    Exclusion = {x1}
    Confirmation = {c1}
    Locking = {}
    Agentic = TRUE
    Overlap <- NoOverlap
    Faults = TRUE
    HopCap = 1  MaxToolCalls = 1  MaxNotes = 0
    WarnRows = 2  HardRows = 4  MaxHour = 1
SYMMETRY Turns
INVARIANTS
    SeqUnique
    
PROPERTIES
    
    ClosedIsFinal
    ImplementsShortlist
CHECK_DEADLOCK FALSE
