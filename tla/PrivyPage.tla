----------------------------- MODULE PrivyPage -----------------------------
(***************************************************************************)
(* app/page.tsx of privy-stellar-onboarding.  It is the page of WalletPage *)
(* line for line but for its session: signing in returns before anybody    *)
(* has signed in, and a session may have no wallet, which step 1 creates.  *)
(* Each handler below is the one of WalletPage that the same lines of the  *)
(* other page gave.                                                        *)
(***************************************************************************)
EXTENDS Naturals, Sequences

CONSTANTS Addresses, Nobody, NoLine, Ids, Opted, MaxUsdc, MaxTxs, MaxLogins

VARIABLES funded, held, txs, connected, address, logins, loggingOut, balances,
          signedFor, confirm, status, job, effect, log, rows

Page == INSTANCE WalletPage WITH CreatesWallet <- TRUE

vars == <<funded, held, txs, connected, address, logins, loggingOut, balances,
          signedFor, confirm, status, job, effect, log, rows>>

Init == Page!Init

onConnect == Page!onConnect
onCreateWallet == Page!onCreateWallet
WalletCreated == Page!WalletCreated
onFund == Page!onFund
FundResolves == Page!FundResolves
onSendPayment == Page!onSendPayment
PaymentResolves == "sign" \in Ids /\ Page!CallResolves("sign")
onToggleTrustline == Page!onToggleTrustline
ToggleResolves == "trustline" \in Ids /\ Page!CallResolves("trustline")
Dialog == Page!onConfirm \/ Page!onCancel
onRefreshBalances == Page!onRefreshBalances
onCheckFaucet == Page!onCheckFaucet
onContribute == \E i \in {"contribute", "fail-unchecked"} : Page!onContribute(i)
ContributeResolves == \E i \in Ids \cap {"contribute", "fail-unchecked"} : Page!CallResolves(i)
onLogout == Page!onLogout \/ Page!LoggedOut
Refresh == \E i \in Ids : Page!RefreshAnswered(i) \/ Page!RefreshSet(i)
BalancesEffect == Page!EffectAnswered("balances") \/ Page!BalancesEffect
SignedEffect == Page!EffectAnswered("signed") \/ Page!SignedEffect

\* The session of privy-session.tsx: usePrivy's own state, and the wallet
\* findStellarWallet picks out of its user object.
SessionArrives == Page!SessionArrives
findStellarWallet == Page!WalletAppears

Environment ==
  \/ \E i \in Ids : Page!Land(i) \/ Page!JobRejects(i)
  \/ Page!ConnectResolves \/ Page!Reload
  \/ \E a \in Addresses : Page!Receive(a)

Next ==
  \/ onConnect \/ onCreateWallet \/ WalletCreated \/ onFund \/ FundResolves
  \/ onSendPayment \/ PaymentResolves \/ onToggleTrustline \/ ToggleResolves \/ Dialog
  \/ onRefreshBalances \/ onCheckFaucet \/ onContribute \/ ContributeResolves
  \/ onLogout \/ Refresh \/ BalancesEffect \/ SignedEffect
  \/ SessionArrives \/ findStellarWallet \/ Environment

Spec == Init /\ [][Next]_vars

=============================================================================
