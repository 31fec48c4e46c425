\* Two runs of the job, two predictions over three days, a piece of evidence, sources that fail to answer, a curator, a re-verification and a failed call: whose verdicts stand, and on what they rest.
CONSTANTS
  east = east
  west = west
  District = {east, west}
  Place <- OneCity
  Worker = {w1, w2}
  Runner = {r1, r2}
  MinAge = 1
  MaxAge = 2
  Window = 1
  ImageDays = 2
  ReportsNeeded = 1
  Limit = 3
  Outages = TRUE
  Lag = 0
  PerDay = 1
  MaxPredictions = 2
  LastDay = 2
  MaxSightings = 1
  MaxCurations = 1
  MaxReverify = 1
  MaxMissed = 0
  MaxFailures = 1
SPECIFICATION Spec
SYMMETRY LedgerSymmetry
INVARIANTS
  ConfirmationsAreGrounded
PROPERTIES
  SettledVerdictsStand
CHECK_DEADLOCK FALSE
