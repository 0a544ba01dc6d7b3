\* Two callers share one account; two transactions may be sent.
SPECIFICATION Spec
CONSTANTS
  a1 = a1
  pool = pool
  NoLine = NoLine
  Accounts = {a1}
  Pool = pool
  PoolIsContract = FALSE
  MaxHeld = 1
  MaxSeq = 1
  MaxSent = 2
  Callers = {c1, c2}
  c1 = c1
  c2 = c2
  Amounts = {1}
  Attempts = 2
  MaxTime = 1
  Timeout = 0
PROPERTIES KeepsPromise PreflightForesees FailsOnlyIfMoved LandsInTime CallsEnd
CHECK_DEADLOCK FALSE
