SPECIFICATION Spec
CONSTANTS
  trade = trade
  quote = quote
  m1 = m1
  m2 = m2
  m3 = m3
  r1 = r1
  h1 = h1
  h2 = h2
  TableSeq <- MCTableSeq
  TabOf <- MCTabOf
  Stamped <- MCStamped
  Messages = {m1, m2}
  Rdbs = {r1}
  Handles = {h1, h2}
  NoHandle = NoHandle
  Modes <- FeedEndsModes
  LastDay = 2
  MaxCrashes = 0
INVARIANT EodSavesWholeDay
CHECK_DEADLOCK FALSE
