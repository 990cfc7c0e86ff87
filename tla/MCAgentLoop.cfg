\* the passing run: two turns, crashes anywhere
CONSTANTS
    s1 = s1
    s2 = s2
    Spots <- MCSpots
    Stranger = Stranger
    None = None
    FrozenTopN = 1
    HopCap = 2
    MaxToolCalls = 2
    Hard = 12
    BundleSize = 2
    Pieces = 1
    Asks <- MCAsks
    Texts <- MCTexts
    Blocks <- MCBlocks
    MaxTurns = 2

SPECIFICATION Spec

INVARIANTS
    BundleOnce
    PairedUnlessDangling
    
    
CHECK_DEADLOCK FALSE
