---------------------------- MODULE PrivyCopies ----------------------------
(***************************************************************************)
(* The files of privy-stellar-onboarding that are those of                 *)
(* stellar-wallets-kit-onboarding but for the prefix of their keys in      *)
(* local storage, and a script without the checks of a signer's contract.  *)
(***************************************************************************)
EXTENDS Naturals

CONSTANTS Tabs, SentKeys, LineKeys, LogKey, Limit, Unread, Junk, MaxEntries, Ids

VARIABLES
  disk, cache, entries, recorded, writers, refused,
  status, result, timer, mounted,
  stage, donor, pool, net, failures, wrong, exit

Store == INSTANCE BrowserStore
Actions == INSTANCE ActionRunner
Script == INSTANCE VerifyContribution WITH SignerContract <- FALSE

readSent(t) == \E k \in SentKeys : Store!read(t, k)
recordSent(t) == \E k \in SentKeys : Store!recordSent(t, k)
readTrustlineTx(t) == \E k \in LineKeys : Store!read(t, k)
recordTrustlineTx(t) == \E k \in LineKeys : Store!recordTrustlineTx(t, k)
readLog(t) == Store!read(t, LogKey)
recordActivity(t) == Store!recordActivity(t)
clearActivity(t) == Store!clearActivity(t)

StoreNext == \E t \in Tabs :
  \/ readSent(t) \/ recordSent(t) \/ readTrustlineTx(t) \/ recordTrustlineTx(t)
  \/ readLog(t) \/ recordActivity(t) \/ clearActivity(t) \/ Store!Reload(t)

run(i) == Actions!run(i)
settle(i) == Actions!Resolves(i) \/ Actions!Rejects(i)
Fade(i) == Actions!Fade(i)
Unmount == Actions!Unmount

ActionsNext == (\E i \in Ids : run(i) \/ settle(i) \/ Fade(i)) \/ Unmount

setup == Script!SetUp \/ Script!addTrustline \/ Script!Pays
contributeChecks == Script!Contributes
balanceChecks == Script!Balances
amountChecks == Script!ChecksAnswer("amounts")
verdict == Script!Ends \/ Script!Interrupted

ScriptNext == setup \/ contributeChecks \/ balanceChecks \/ amountChecks \/ verdict
=============================================================================
