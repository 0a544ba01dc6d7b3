SPECIFICATION Spec
CONSTANTS
  near = near  far = far  foreign = foreign  fixture = fixture
  f1 = f1  f2 = f2  i1 = i1  i2 = i2
  NoState = NoState
  LedgerSize = 3
  Servers = {near}
  Offline = {}
  Networks <- MCNetworks
  Filters = {f1}
  Chains <- MCChains
  ScanCap = 2
  DefaultLimit = 2
  Capacity = 1
  Retention = 2
  MaxLedger = 5
  Processes = {i1}
  Options <- MCPlainOptions
  Testnet = "testnet"
  PageLimit = 2
  MinPageLimit = 1
  MaxInterrupts = 2
INVARIANTS NothingLostUnrecorded
CHECK_DEADLOCK FALSE
