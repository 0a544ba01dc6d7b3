SPECIFICATION Spec
CONSTANTS
  p1 = p1
  p2 = p2
  payer = payer
  payee = payee
  submitter = submitter
  usdc = usdc
  other = other
  k1 = k1
  k2 = k2
  Pools = {p1}
  Accounts = {payer, payee, submitter}
  Assets = {usdc}
  Keys = {k1, k2}
  Configs <- MCConfigs
  Attestations <- MCApprovals
  Amounts <- MCAmounts
  InitialBalance <- MCBalance
  NetworkId = "testnet"
  NotDeployed = NotDeployed
  MayClawBack = FALSE
  MaxI128 = 20000
  MaxU64 = 2
  TtlThreshold = 1
  TtlExtendTo = 2
  MinTtl = 1
  MaxLedger = 3
  MaxSigned = 4
  MaxEvents = 4
  MaxSigs = 2
INVARIANTS
  TypeOK
  Solvent
  SlotsPaidInOrder
  PayoutsAreApproved
  QuietBeforeArchived
  EventsRebuildBuckets
PROPERTIES
  ImplementsApprovedPayouts
CHECK_DEADLOCK FALSE
