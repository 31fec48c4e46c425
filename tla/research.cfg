\* The weekly workflow with a re-run and a dispatch beside it, and two shells that pull and assemble the research data, one killed in between.
CONSTANTS
  Run = {r1, r2, r3}
  LastWeek = 2
  Districts = 10
  Batches = 6
  Budget = 240
  Setup = {28}
  Delays <- SomeDelays
  Errors = {1, 2}
  Shell = {sh1, sh2}
  Chunk = {"c1", "c2"}
  Series = {"q1"}
  Part = {"p1", "p2"}
  Archived = {"a1", "a2"}
  MaxStarts = 3
  MaxKills = 1
  MaxFaults = 1
SYMMETRY Same
SPECIFICATION Spec
INVARIANTS
  
  GapsExplained
PROPERTIES
  LogKeepsItsForecasts
CHECK_DEADLOCK FALSE
