\* Two alerts, a reviewer with an old page, one replaced container.
CONSTANTS
  Alert = {a1, a2}
  Reviewer = {v1}
  MaxRestores = 1
SYMMETRY Sym
SPECIFICATION Spec
INVARIANTS
  RepeatsAreLosses
  OpenMeansUnsentOrLost
  DecisionsHitWhatWasSeen
CHECK_DEADLOCK FALSE
