\* An action in flight while its owner logs out.
SPECIFICATION Spec
CONSTANTS
  a1 = a1
  Nobody = Nobody
  NoLine = NoLine
  Addresses = {a1}
  Ids = {"connect", "bar-refresh"}
  CreatesWallet = FALSE
  Opted = {}
  MaxUsdc = 1
  MaxTxs = 1
  MaxLogins = 2
INVARIANT LogIsOfThisSession
CHECK_DEADLOCK FALSE
