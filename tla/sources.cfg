\* Each source in turn: two workers, restarts, a service that fails and returns, with times scaled down.
CONSTANTS
  w1 = w1
  w2 = w2
  Worker = {w1, w2}
  Life <- Lives
  Window <- Windows
  StaleAfter <- Flags
  Graded <- Grades
  Near = 2
  Far = 3
  Archives <- OldImages
  PageLife = 1
  MaxTime = 4
SYMMETRY Sym
SPECIFICATION SourcesSpec
INVARIANTS
  FreshOrFlagged
  OutagesPass
  LiveScreensExplained
CHECK_DEADLOCK FALSE
