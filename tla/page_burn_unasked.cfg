\* A payment the page has not seen, and the switch.
SPECIFICATION Spec
CONSTANTS
  a1 = a1
  Nobody = Nobody
  NoLine = NoLine
  Addresses = {a1}
  Ids = {"connect", "trustline"}
  CreatesWallet = FALSE
  Opted = {}
  MaxUsdc = 1
  MaxTxs = 2
  MaxLogins = 1
PROPERTY NobodyBurnsUnasked
CHECK_DEADLOCK FALSE
