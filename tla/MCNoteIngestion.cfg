SPECIFICATION FairSpec
CONSTANTS
    p1 = p1
    p2 = p2
    w1 = w1
    w2 = w2
    None = None
    Note = {n1, n2}
    DebriefNote = n1
    Spot <- TwoSpots
    Water <- TwoWaters
    WaterOf <- OneEach
    Losses = TRUE
    MaxAnswers = 2
INVARIANTS
    LateAnswerHolds
    SpotOrQuestion
PROPERTIES
    ScoreCatchesUp
