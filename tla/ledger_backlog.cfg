\* A prediction a day, at most one missed day and one failed call, no evidence: does any prediction expire unverified?
CONSTANTS
  east = east
  west = west
  District = {east}
  Place <- OneCity
  Worker = {w1, w2}
  Runner = {r1}
  MinAge = 2
  MaxAge = 5
  Window = 4
  ImageDays = 3
  ReportsNeeded = 1
  Limit = 5
  Outages = FALSE
  Lag = 0
  PerDay = 1
  MaxPredictions = 8
  LastDay = 7
  MaxSightings = 0
  MaxCurations = 0
  MaxReverify = 0
  MaxMissed = 1
  MaxFailures = 2
SPECIFICATION Spec
INVARIANT NothingExpiresPending
CHECK_DEADLOCK FALSE
