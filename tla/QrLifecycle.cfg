SPECIFICATION FairSpec
CONSTANTS
  Tokens = {t1, t2}
  Staff = {p1, p2}
  Scanners = {s1, s2}
  MaxEdits = 1
  RedisFails = TRUE
  NoToken = NoToken
  NoEntry = NoEntry
INVARIANTS
  NamedIsNotLive
PROPERTIES
  DarkStaysDark
  RetiredGoesDark
  EditsReachTheCache
