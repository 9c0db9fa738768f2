SPECIFICATION ChatSpec
CONSTANTS
  MaxTurns = 3
  MayOverlap = {2}
  MaxCrashes = 1
  Sizes = {2}
  RECENT_KEEP = 1
  COMPRESS_BATCH = 1
  BUDGET = 2
  MAX_DIRECT_CHAT_MESSAGES = 4
INVARIANTS
  BlocksCoverOldTurns
  ExchangesKept
PROPERTIES
  ImplementsSessionLog
  PrefixStaysCached
CHECK_DEADLOCK FALSE
