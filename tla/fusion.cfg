\* Every district, seven amounts of rain, two histories, up to three verified reports.
CONSTANTS
  Rains <- SomeRains
  Levels <- SomeLevels
  Scales <- SomeScales
  MaxReports = 3
SPECIFICATION EvidenceSpec
INVARIANTS
  NothingAveragedAway
  PartsAgree
PROPERTIES
  WorseNeverLooksBetter
  SilenceExplained
CHECK_DEADLOCK FALSE
