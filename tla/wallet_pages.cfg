\* Two wallets, both pages, every button in one habit or another.
SPECIFICATION PagesSpec
CONSTANTS
  a1 = a1
  a2 = a2
  CreatesWallet = FALSE
  Nobody = Nobody
  NoLine = NoLine
  Addresses = {a1, a2}
  Ids = {"connect", "wallet", "fund", "sign", "trustline", "faucet-refresh", "bar-refresh", "contribute", "fail-unchecked"}
  Opted = {a1}
  MaxUsdc = 1
  MaxTxs = 2
  MaxLogins = 2
INVARIANTS RowsAreReal OneSpendAtATime TickIsEarned
PROPERTIES ShownBalanceIsAskedAbout ActionsEnd NeverShimmersForever
CHECK_DEADLOCK FALSE
