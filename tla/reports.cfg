\* A Telegram message that is edited, a WhatsApp message, two workers, one call without an answer; an operator who sees one row at a time.
CONSTANTS
  tg = tg
  wa = wa
  both = both
  pin = pin
  Worker = {w1, w2}
  Message = {tg, wa}
  Via <- Chats
  Text = {both, pin}
  Command = {}
  Wordless = {pin}
  Pinned = {pin}
  Term <- Terms
  Names <- Contents
  Rank <- Longest
  DistrictOf <- Lookup
  Versions = 2
  MaxDrops = 1
  Page = 1
  Reach = 2
  Threshold = 2
SPECIFICATION FairSpec
INVARIANTS
  RowsExplained
  NothingSwallowed
  RepliesAreHonest
  EvidenceIsReviewed
PROPERTIES
  TelegramGetsThrough
CHECK_DEADLOCK FALSE
