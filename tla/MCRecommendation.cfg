SPECIFICATION Spec
CONSTANTS
  Query <- MCQuery
  Site <- MCSite
  Trip = {t1, t2}
  Place <- MCPlace
  Drive <- MCDrive
  Estimate <- MCEstimate
  BoatWait <- MCBoatWait
  Month = 8
  TOP_N = 2
  MAX_HERE_CALLS = 1
  MAX_CANDIDATES = 3
  WINDOW = 3
  Outlook <- MCOutlook
  Intake <- MCIntake
  LastInterval = 1
  MaxObserved = 1
  MaxTurns <- MCMaxTurns
  Node <- MCNode
  Far = 100000
  Road <- MCRoad
  Ferry <- MCFerry
  Pass <- MCPass
  Day <- MCDay
  Snap <- MCSnap
  Limit <- MCLimit
  Points <- MCPoints
  a = a
  b = b
  c = c
  d = d
  g = g
  t1 = t1
  t2 = t2
INVARIANTS
  ReadingsFaithful
  SeasonsAgree
  EstimatesHold
PROPERTIES
  
  
  NothingLost
  
CHECK_DEADLOCK FALSE
