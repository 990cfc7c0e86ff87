SPECIFICATION FairSpec
CONSTANTS
    None = None
    Tab = {t1, t2}
    Watched = {t1}
    Link = {l1}
    Slot = {q1, q2}
    LastTry = 1
    MaxTokens = 2
    MaxCalls = 2
    MaxOpens = 2
    Losses = TRUE
INVARIANTS
    
    CookieNamesSession
PROPERTIES
    SignedOutForGood
    EveryWaitEnds
CHECK_DEADLOCK FALSE
