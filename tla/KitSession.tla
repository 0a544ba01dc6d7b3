----------------------------- MODULE KitSession -----------------------------
(***************************************************************************)
(* The session of the wallets-kit application: lib/wallet/kit-session.tsx  *)
(* over lib/signing/wallets-kit.ts.  The Kit is imported on first use and  *)
(* remembers the address it was connected to across loads; the wallet      *)
(* behind it may switch account or network whenever its owner likes.       *)
(***************************************************************************)
EXTENDS Naturals

CONSTANTS Accounts, Nobody

Mounts == 1 .. 2  \* React's strict mode mounts a component, unmounts it and mounts it again
Idle == [at |-> "idle", address |-> Nobody]

VARIABLES
  loading,     \* the memoised import: none, pending, done, failed
  imports,     \* imports under way
  inits,       \* how often the Kit was initialised in this load
  remembered,  \* the address the Kit keeps in local storage
  active,      \* the account the wallet signs with
  network,     \* the network the wallet is on, or silent
  restore,     \* how far each mount's restore has come
  mount,       \* the mount that is not cancelled
  ready,       \* what the page waits for
  connection,  \* the address the session is for
  job,         \* what a button of the page is doing, and for which address
  returned     \* what the last signature asked for came to

vars == <<loading, imports, inits, remembered, active, network, restore, mount,
          ready, connection, job, returned>>

wallet == <<remembered, active, network>>
session == <<ready, connection>>
import == <<loading, imports, inits>>

Init ==
  /\ loading = "none" /\ imports = 0 /\ inits = 0
  /\ remembered = Nobody /\ active = Nobody /\ network = "testnet"
  /\ restore = [m \in Mounts |-> "none"] /\ mount = 0
  /\ ready = FALSE /\ connection = Nobody /\ job = Idle /\ returned = "none"

-----------------------------------------------------------------------------
(***************************************************************************)
(* The Kit.                                                                *)
(***************************************************************************)

\* Fault: the import is remembered only once it has succeeded.
AskedWhenDone ==
  /\ imports' = IF loading = "done" THEN imports ELSE imports + 1
  /\ UNCHANGED <<loading, inits>>

\* kit(): everybody awaits the first import, whatever becomes of it.
Asked ==
  /\ imports' = IF loading = "none" THEN imports + 1 ELSE imports
  /\ loading' = IF loading = "none" THEN "pending" ELSE loading
  /\ UNCHANGED inits

\* The modules arrive and agree on the network, or not.
Imported ==
  /\ imports > 0 /\ imports' = imports - 1
  /\ \/ loading' = "done" /\ inits' = inits + 1
     \/ loading' = "failed" /\ UNCHANGED inits
  /\ UNCHANGED <<wallet, restore, mount, session, job, returned>>

-----------------------------------------------------------------------------
(***************************************************************************)
(* Restoring what a previous load had.                                     *)
(***************************************************************************)

Mount ==
  /\ mount < 2 /\ mount' = mount + 1
  /\ mount = 1 => ~ready
  /\ restore' = [restore EXCEPT ![mount'] = "kit"]
  /\ Asked
  /\ UNCHANGED <<wallet, session, job, returned>>

RestoreAsks(m) ==
  /\ restore[m] = "kit" /\ loading = "done"
  /\ restore' = [restore EXCEPT ![m] = "address"]
  /\ UNCHANGED <<import, wallet, mount, session, job, returned>>

\* The address the Kit remembers, or none if the wallet will not give it.
RestoreResolves(m) ==
  /\ restore[m] = "address"
  /\ restore' = [restore EXCEPT ![m] = "settled"]
  /\ IF m = mount
     THEN connection' \in {remembered, Nobody} /\ ready' = TRUE
     ELSE UNCHANGED session
  /\ UNCHANGED <<import, wallet, mount, job, returned>>

\* Fault: only a restore that succeeds makes the page ready.
ReadyIfRestored(m) == UNCHANGED ready

ReadyAnyway(m) == ready' = (ready \/ m = mount)

RestoreRejects(m) ==
  /\ restore[m] = "kit" /\ loading = "failed"
  /\ restore' = [restore EXCEPT ![m] = "settled"]
  /\ ReadyAnyway(m)
  /\ UNCHANGED <<import, wallet, mount, connection, job, returned>>

-----------------------------------------------------------------------------
(***************************************************************************)
(* The buttons, one at a time.                                             *)
(***************************************************************************)

Press(what, address) ==
  /\ ready /\ job = Idle
  /\ job' = [at |-> what, address |-> address]
  /\ Asked
  /\ UNCHANGED <<wallet, restore, mount, session, returned>>

connect == connection = Nobody /\ Press("connect", Nobody)
disconnect == connection # Nobody /\ Press("disconnect", connection)
signTransaction == connection # Nobody /\ Press("sign", connection)

KitFailed ==
  /\ job.at \in {"connect", "disconnect", "sign"} /\ loading = "failed"
  /\ job' = Idle
  /\ UNCHANGED <<import, wallet, restore, mount, session, returned>>

\* The picker: an account is chosen, which the Kit remembers, or it is closed.
authModal ==
  /\ job.at = "connect" /\ loading = "done"
  /\ \/ \E a \in Accounts :
          /\ job' = [at |-> "network", address |-> a]
          /\ remembered' = a /\ active' = a
     \/ job' = Idle /\ UNCHANGED <<remembered, active>>
  /\ UNCHANGED <<import, network, restore, mount, session, returned>>

assertTestnet ==
  /\ job.at = "network" /\ job' = Idle
  /\ connection' = IF network = "public" THEN connection ELSE job.address
  /\ UNCHANGED <<import, wallet, restore, mount, ready, returned>>

Disconnected ==
  /\ job.at = "disconnect" /\ loading = "done" /\ job' = Idle
  /\ remembered' = Nobody /\ connection' = Nobody
  /\ UNCHANGED <<import, active, network, restore, mount, ready, returned>>

\* What a wallet hands back: a fee bump, another transaction, or a signature of
\* the account asked for or of the active one.
Signatures(address) ==
  [bump : BOOLEAN, same : BOOLEAN, by : {address, active}]

Accepted(tx, address) == ~tx.bump /\ tx.same /\ tx.by = address

WalletSigns ==
  /\ job.at = "sign" /\ loading = "done" /\ job' = Idle
  /\ \/ returned' = "declined"
     \/ \E tx \in Signatures(job.address) :
          returned' = IF Accepted(tx, job.address) THEN "signed" ELSE "refused"
  /\ UNCHANGED <<import, wallet, restore, mount, session>>

\* Its owner reaches for the wallet.
SwitchWallet ==
  /\ active' \in Accounts /\ network' \in {"testnet", "public", "silent"}
  /\ UNCHANGED <<import, remembered, restore, mount, session, job, returned>>

Reload ==
  /\ loading' = "none" /\ imports' = 0 /\ inits' = 0
  /\ restore' = [m \in Mounts |-> "none"] /\ mount' = 0
  /\ ready' = FALSE /\ connection' = Nobody /\ job' = Idle /\ returned' = "none"
  /\ UNCHANGED wallet

-----------------------------------------------------------------------------
Restores == \E m \in Mounts : RestoreAsks(m) \/ RestoreResolves(m) \/ RestoreRejects(m)

Buttons ==
  \/ connect \/ disconnect \/ signTransaction
  \/ KitFailed \/ authModal \/ assertTestnet \/ Disconnected \/ WalletSigns

Next == Mount \/ Imported \/ Restores \/ Buttons \/ SwitchWallet \/ Reload

\* wallets-kit.ts:31: the Kit is initialised once in a load, however many
\* mounts and buttons await it at a time.
KitInitOnce == inits <= 1

\* kit-session.tsx:28-31: the starting-up state settles, though the Kit may
\* fail to load, the wallet to answer and the first mount to be cancelled.
StartupEnds == mount > 0 ~> ready \/ mount = 0
=============================================================================
