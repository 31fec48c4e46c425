\* Three stages of which two are at risk, two showings, two calls that fail; or the review page over four instants.
CONSTANTS
  Horizon = 4
  Stages = 3
  AtRisk = {1, 2}
  Showings = 2
  Faults = 2
  Room = 4
SPECIFICATION DashboardSpec
INVARIANTS
  NewestMessageStands
PROPERTIES
  DemoHoldsForDecision
CHECK_DEADLOCK FALSE
