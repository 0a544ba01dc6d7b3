------------------------------ MODULE MCPages ------------------------------
(***************************************************************************)
(* Both pages.  A session of the checker has one of the pages, some of its *)
(* buttons and some of the wallets: their state spaces add up where a free *)
(* choice would multiply them.  Under a habit that is fair every request   *)
(* settles one way or the other.  CreatesWallet is FALSE here; PrivyPage   *)
(* takes the same page with TRUE.                                          *)
(***************************************************************************)
EXTENDS WalletPage

CONSTANTS a1, a2

VARIABLE habit

Privy == INSTANCE PrivyPage

pagesVars == <<vars, habit>>

Uses(app, ids, wallets, most) ==
  [app |-> app, ids |-> ids, wallets |-> wallets, txs |-> most]

Reading == {"connect", "fund", "faucet-refresh", "bar-refresh"}
Fair == Uses("kit", Reading, {a1}, 0)

Habits ==
  {Fair,
   Uses("kit", {"connect", "sign"}, {a1, a2}, 1),
   Uses("kit", {"connect", "trustline", "contribute"}, {a1}, 2),
   Uses("privy", {"connect", "wallet", "sign"}, {a1, a2}, 1),
   Uses("privy", {"fund", "faucet-refresh", "bar-refresh"}, {a1}, 0),
   Uses("privy", {"trustline", "fail-unchecked"}, {a1}, 2)}

PagesInit ==
  /\ habit \in Habits /\ Init
  /\ \A a \in Addresses \ habit.wallets : ~funded[a]

Kept ==
  /\ \A i \in Ids \ habit.ids : status'[i] = "idle"
  /\ address' \in habit.wallets \cup {Nobody}
  /\ \A a \in Addresses \ habit.wallets : held'[a] = held[a]
  /\ Len(txs') <= habit.txs

PagesNext ==
  /\ IF habit.app = "kit" THEN Next ELSE Privy!Next
  /\ Kept /\ UNCHANGED habit

Settles(A) == habit = Fair /\ A /\ UNCHANGED habit

PagesSpec ==
  /\ PagesInit /\ [][PagesNext]_pagesVars
  /\ \A i \in Ids : WF_pagesVars(Settles(JobStep(i)))
  /\ \A k \in {"balances", "signed"} : WF_pagesVars(Settles(EffectAnswered(k)))
  /\ WF_pagesVars(Settles(BalancesEffect))

-----------------------------------------------------------------------------
\* No action stays pending: its button comes back, whatever became of it, as often as
\* it is pressed.
ActionsEnd ==
  \A i \in Reading \ {"connect"} : []<>(habit = Fair => status[i] # "pending")

\* page.tsx:131-133: the bar says "not funded" instead of shimmering forever, however
\* often it has to wait and whatever the readings were.
\* Checked for one address: with two, a refresh that an action started for the
\* old one may still replace the new one's balances (see the README).
NeverShimmersForever == []<>(habit = Fair => ~loadingBalances)
=============================================================================
