\* Two workers, three alerts, a limit of one, a cooldown shorter than the window; Redis is lost or found, workers restart, the cooldown and the counts are reset.
CONSTANTS
  Worker = {w1, w2}
  Alert = {a1, a2, a3}
  Limit = 1
  Window = 2
  Cooldown = 1
  MaxTime = 2
  MaxFlips = 1
  MaxRestarts = 1
  MaxResets = 1
SYMMETRY Sym
SPECIFICATION Spec
INVARIANTS
  OvershootBounded
  CooldownHolds
CHECK_DEADLOCK FALSE
