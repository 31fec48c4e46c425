\* Two workers, one broadcasting an alert over both chats with retries and lost answers, the other handling what a citizen and an official write meanwhile.
CONSTANTS
  ama = ama
  kofi = kofi
  Worker = {w1, w2}
  Alert = {a1}
  Kind = {"alert"}
  Place = {east, west}
  Recipient = {ama, kofi}
  Providers <- Chats
  Static <- Settings
  Tries <- TwoTries
  Unconfigured = {}
  MaxAsked = 2
  MaxCrashes = 1
SPECIFICATION FairSpec
INVARIANTS
  OnlyTheAskingAreTold
  CopiesAreExplained
  ReportsAreHonest
  NobodyOverlooked
PROPERTIES
  OnlyGatewaysHold
CHECK_DEADLOCK FALSE
