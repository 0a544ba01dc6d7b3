SPECIFICATION FairSpec
CONSTANTS
  Nobody = Nobody
  Accounts = {a1, a2}
  MaxAttempts = 3
  PageLimit = 1
  Ids = {i1, i2}
  Tabs = {t1, t2}
  SentKeys = {sent}
  LineKeys = {line}
  LogKey = log
  Limit = 2
  Unread = Unread
  Junk = junk
  MaxEntries = 3
  NoState = NoState
  LedgerSize = 3
  MaxLedger = 3
  Matching = {3, 4, 9}
  RecentLimit = 1
  Entries = {e1, e2, e3}
  e1 = e1
  e2 = e2
  Id <- MCId
  Began <- MCBegan
  MaxChanges = 4
  Sources = {s1, s2}
  Images = {official, hostile}
  Allowed = {official}
  Absent = Absent
  NoWasm = NoWasm
  SignerContract = TRUE
INVARIANTS
  KitInitOnce
  HistorySurvives
  PagesAreHonest
  TraceIsFaithful
  VerdictIsEarned
  PassMeansRight
PROPERTIES
  StartupEnds
  LinksStay
  AbortStopsWaiting
CHECK_DEADLOCK FALSE
