\* One run over two districts below dams; any reading missing, any call failing or timing out.
CONSTANTS
  Run = {r1}
  Districts <- TwoDistricts
  Rivered <- Both
  Answers <- AnyThenSome
  MaxLapses = 1
SPECIFICATION Spec
INVARIANTS
  OnlyDrynessIsInvented
  NoSignalMasked
  ErrorNeedsRivers
CHECK_DEADLOCK FALSE
