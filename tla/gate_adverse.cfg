SPECIFICATION Spec
CONSTANTS
  p1 = p1
  p2 = p2
  payer = payer
  payee = payee
  submitter = submitter
  usdc = usdc
  other = other
  k1 = k1
  k2 = k2
  Pools = {p1, p2}
  Accounts = {payer, payee, submitter}
  Assets = {usdc, other}
  Keys = {k1, k2}
  Configs <- MCTwoConfigs
  Attestations <- MCWrongDoors
  Amounts <- MCFewAmounts
  InitialBalance <- MCBalance
  NetworkId = "testnet"
  NotDeployed = NotDeployed
  MayClawBack = TRUE
  MaxI128 = 20000
  MaxU64 = 1
  TtlThreshold = 1
  TtlExtendTo = 2
  MinTtl = 1
  MaxLedger = 0
  MaxSigned = 2
  MaxEvents = 4
  MaxSigs = 1
INVARIANTS
  PayoutsAreApproved
PROPERTIES
  CallsLeavePoolSolvent
CHECK_DEADLOCK FALSE
