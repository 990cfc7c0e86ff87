SPECIFICATION Spec
CONSTANTS
  Water = {w1}
  Fetch = {f1, f2}
  FailMax = 2
  ResetTimeout = 1
  TTL = 1
  MaxAge = 2
  LastTick = 4
  MaxReadings = 1
  Worker = {v1, v2, v3}
  None = None
  Ghost = Ghost
  Rules <- MCRules
  Waters <- MCWaters
  Longest <- MCLongest
  LastDay = 2
  MaxChanges = 1
  Content <- MCContent
  Feeds <- MCFeeds
  LinkedWater = {lake}
  PageSize = 1
  Years = {1, 2}
  MaxRepublished = 2
  MaxDied = 1
  Place <- MCPlace
  StationOf <- MCStationOf
  Gauge <- MCGauge
  RefreshAfter = 1
  LastRefDay = 2
  MaxNews = 1
  hoh = hoh
  quil = quil
  fish = fish
  north = north
  south = south
  lake = lake
  river = river
  t1 = t1
  t2 = t2
  t3 = t3
  s1 = s1
  s2 = s2
INVARIANTS
    JobsAttended
    
PROPERTIES
    ReadingsServed
    
    StockingMirrored
    
CHECK_DEADLOCK FALSE
