\* Three workers contend for one alert, with two crashes or redeployments; no symmetry,
\* since liveness properties are checked.
CONSTANTS
  Worker = {w1, w2, w3}
  Alert = {a1}
  NumProviders = 2
  Score = {40, 90}
  DrillTier = {"HIGH"}
  Threshold = {30, 50}
  KeyConfigured = TRUE
  MaxRestarts = 2
SPECIFICATION Spec
INVARIANTS
  AtMostOneBroadcast
  OpenMeansSilent
  RetractedStaysCancelled
  DrillsStaySilent
  KeyGuardsRealAlerts
PROPERTIES
  ImplementsLifecycle
  ApprovalReachesEveryProvider
CHECK_DEADLOCK FALSE
