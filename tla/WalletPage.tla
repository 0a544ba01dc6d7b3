----------------------------- MODULE WalletPage -----------------------------
(***************************************************************************)
(* app/page.tsx: one page whose buttons start jobs that go on across       *)
(* renders, across a logout and across a change of wallet.  A job closes   *)
(* over the address and the signer of the render it was pressed in; what   *)
(* it writes when it ends (balances, ticks, history, log) is of the page   *)
(* as it is then.  A job that moves money is abstracted to what SpendCall  *)
(* promises of it: it may land, before or after it is answered.            *)
(***************************************************************************)
EXTENDS Naturals, Sequences, FiniteSets

CONSTANTS
  Addresses,      \* accounts a wallet may expose
  Nobody,         \* null
  NoLine,         \* no trustline
  Ids,            \* the action ids of the page in use
  Opted,          \* those that, if funded, can hold USDC at the start
  CreatesWallet,  \* Privy: a session may have no wallet yet
  MaxUsdc,        \* bound: USDC held
  MaxTxs,         \* bound: transactions applied
  MaxLogins       \* bound: logins and reloads

ASSUME NobodyAssumption == Nobody \notin Addresses

Spending == {"sign", "trustline", "contribute", "fail-unchecked"}
VARIABLES
  funded, held,                 \* the network: account exists; USDC line
  txs,                          \* every transaction applied: [by, kind]
  connected, address, logins,   \* the session
  loggingOut,                   \* onLogout is awaiting session.disconnect
  balances, signedFor,          \* page state
  confirm,                      \* confirmSwitchOff
  status,                       \* entries of useActions
  job,                          \* what each action is doing
  effect,                       \* the two effects on [address], each in flight
  log, rows                     \* activity log; stored histories

net == <<funded, held, txs>>
session == <<connected, address, logins, loggingOut>>
page == <<balances, signedFor, confirm>>
stored == <<log, rows>>
vars == <<net, session, page, status, job, effect, stored>>

NoReading == [address |-> Nobody, xlm |-> FALSE, usdc |-> NoLine]
NoJob == [at |-> "none", by |-> Nobody, on |-> FALSE, asked |-> FALSE,
          before |-> NoLine, tx |-> 0, reading |-> NoReading]
NoEffect == [at |-> "none", reading |-> NoReading, found |-> FALSE]

Init ==
  /\ funded \in [Addresses -> BOOLEAN] /\ held = [a \in Addresses |-> IF a \in Opted /\ funded[a] THEN 0 ELSE NoLine]
  /\ txs = <<>>
  /\ connected = FALSE /\ address = Nobody /\ logins = 0 /\ loggingOut = FALSE
  /\ balances = NoReading /\ signedFor = Nobody /\ confirm = FALSE
  /\ status = [i \in Ids |-> "idle"] /\ job = [i \in Ids |-> NoJob]
  /\ effect = [balances |-> NoEffect, signed |-> NoEffect]
  /\ log = {} /\ rows = [a \in Addresses |-> {}]

-----------------------------------------------------------------------------
(* What a render derives.                                                  *)

current == IF address # Nobody /\ balances.address = address THEN balances ELSE NoReading
hasTrustline == current.usdc # NoLine
hasUsdc == hasTrustline /\ current.usdc > 0
loadingBalances == address # Nobody /\ current = NoReading
\* fault: each button looks at its own entry only
busyNever == FALSE
busy == \E i \in Ids : status[i] = "pending"
showFaucetCheck == ~hasUsdc /\ status["faucet-refresh"] \notin {"success", "info"}

\* A reason read off the balances waits until they are known; the first
\* condition that is not met is the one given.
needsWallet == address = Nobody
needsFunding == needsWallet \/ (~loadingBalances /\ ~current.xlm)
needsTrustline == needsFunding \/ (~loadingBalances /\ ~hasTrustline)

\* Which buttons a press reaches, card by card: a locked card is inert.
SignedOutCard == status["connect"] # "pending"
Bar == address # Nobody /\ status["bar-refresh"] # "pending"
Step1 == ~busy /\ address = Nobody
Step2 == ~needsWallet /\ ~busy /\ address # Nobody
Step3 == ~needsFunding /\ ~busy /\ current.xlm
Step4 == ~needsFunding /\ ~busy /\ current.xlm
Step5 == ~needsTrustline /\ showFaucetCheck /\ ~busy /\ hasTrustline
Step6 == ~needsTrustline /\ ~busy /\ hasTrustline
Step7 == ~needsTrustline /\ ~busy /\ hasTrustline

\* The dialog is over the walkthrough.  Its flag belongs to the page: it is up
\* again after a logout and a login.
MayPress(i) ==
  /\ i \in Ids
  /\ IF i = "connect" THEN ~connected /\ SignedOutCard ELSE connected /\ ~confirm
  /\ CASE i = "connect" -> TRUE
       [] i = "wallet" -> Step1
       [] i = "bar-refresh" -> Bar
       [] i = "fund" -> Step2
       [] i = "sign" -> Step3
       [] i = "trustline" -> Step4
       [] i = "faucet-refresh" -> Step5
       [] i = "contribute" -> Step6
       [] OTHER -> Step7

-----------------------------------------------------------------------------
(* actions.run: pending, then whatever the action does; its note reaches   *)
(* the log when it ends, whoever is signed in by then.                     *)

Run(i, j) ==
  /\ status' = [status EXCEPT ![i] = "pending"]
  /\ job' = [job EXCEPT ![i] = j]

Note(i) == log' = log \cup {job[i].by}

\* Of how an action ended a render reads nothing but the faucet check's tone.
Settled(i, tone) ==
  status' = [status EXCEPT ![i] = IF i = "faucet-refresh" THEN tone ELSE "idle"]

\* What is left of a job: a transaction that may still be applied, a wallet
\* that is still to appear.
Leftover(i) ==
  IF i \in Spending \cup {"wallet"} /\ job[i].tx = 0
  THEN [NoJob EXCEPT !.at = "gone", !.by = job[i].by, !.on = job[i].on, !.asked = job[i].asked]
  ELSE NoJob

\* fault: a failure leaves the entry as it is
EndUnsettled(i, tone) ==
  /\ Note(i)
  /\ IF tone = "error" THEN UNCHANGED status ELSE Settled(i, tone)
  /\ job' = [job EXCEPT ![i] = Leftover(i)]

End(i, tone) ==
  /\ Note(i) /\ Settled(i, tone)
  /\ job' = [job EXCEPT ![i] = Leftover(i)]

Press(i, at, on, asked) ==
  /\ Run(i, [NoJob EXCEPT !.at = at, !.by = address, !.on = on, !.asked = asked,
                         !.before = IF i = "faucet-refresh" THEN current.usdc ELSE NoLine])
  /\ UNCHANGED <<net, session, effect, stored>>

onConnect == MayPress("connect") /\ Press("connect", "call", FALSE, FALSE) /\ UNCHANGED page
onCreateWallet == MayPress("wallet") /\ Press("wallet", "call", FALSE, FALSE) /\ UNCHANGED page
onFund == MayPress("fund") /\ Press("fund", "call", FALSE, FALSE) /\ UNCHANGED page
onSendPayment == MayPress("sign") /\ Press("sign", "call", FALSE, FALSE) /\ UNCHANGED page
onContribute(i) ==
  /\ i \in {"contribute", "fail-unchecked"} /\ MayPress(i)
  /\ Press(i, "call", FALSE, FALSE) /\ UNCHANGED page
onRefreshBalances == MayPress("bar-refresh") /\ Press("bar-refresh", "refresh", FALSE, FALSE) /\ UNCHANGED page
onCheckFaucet == MayPress("faucet-refresh") /\ Press("faucet-refresh", "refresh", FALSE, FALSE) /\ UNCHANGED page

runToggleTrustline(next, asked) == Press("trustline", "call", next, asked)

\* fault: the dialog comes up but the switch goes through as well
onToggleTrustlineAtOnce ==
  /\ MayPress("trustline")
  /\ confirm' = (hasTrustline /\ hasUsdc) /\ UNCHANGED <<balances, signedFor>>
  /\ runToggleTrustline(~hasTrustline, FALSE)

\* The switch asks for what it is not showing; a balance stops to ask.
onToggleTrustline ==
  /\ MayPress("trustline")
  /\ IF hasTrustline /\ hasUsdc
     THEN /\ confirm' = TRUE
          /\ UNCHANGED <<net, session, balances, signedFor, status, job, effect, stored>>
     ELSE runToggleTrustline(~hasTrustline, FALSE) /\ UNCHANGED page

onConfirm ==
  /\ confirm /\ connected /\ confirm' = FALSE /\ UNCHANGED <<balances, signedFor>>
  /\ runToggleTrustline(FALSE, TRUE)

onCancel ==
  /\ confirm /\ connected /\ confirm' = FALSE
  /\ UNCHANGED <<net, session, balances, signedFor, status, job, effect, stored>>

-----------------------------------------------------------------------------
(* Jobs.                                                                   *)

Kind(i) == IF i = "fail-unchecked" THEN "contribute" ELSE i

LineAfter(i) ==
  LET a == job[i].by IN
  CASE Kind(i) = "contribute" -> [held EXCEPT ![a] = @ - 1]
    [] i = "trustline" /\ job[i].on -> [held EXCEPT ![a] = IF @ = NoLine THEN 0 ELSE @]
    [] i = "trustline" /\ ~job[i].on -> [held EXCEPT ![a] = NoLine]
    [] OTHER -> held

\* The transaction of the job is applied, perhaps after it was given up.
Land(i) ==
  LET a == job[i].by IN
  /\ i \in Spending /\ job[i].at \in {"call", "gone"} /\ job[i].tx = 0
  /\ Len(txs) < MaxTxs /\ a \in Addresses /\ funded[a]
  /\ Kind(i) = "contribute" => held[a] # NoLine /\ held[a] > 0
  /\ txs' = Append(txs, [by |-> a, kind |-> Kind(i)])
  /\ held' = LineAfter(i)
  /\ job' = [job EXCEPT ![i] = IF @.at = "gone" THEN NoJob ELSE [@ EXCEPT !.tx = Len(txs) + 1]]
  /\ UNCHANGED <<funded, session, page, status, effect, stored>>

\* fault: the address on the screen now instead of the one that was pressed
RowOfTheScreen(i) ==
  IF i = "trustline" \/ address = Nobody THEN rows
  ELSE [rows EXCEPT ![address] = @ \cup {[tx |-> job[i].tx, kind |-> Kind(i)]}]

\* recordSent, under the address the job closed over.
RowOf(i) ==
  IF i = "trustline" THEN rows
  ELSE [rows EXCEPT ![job[i].by] = @ \cup {[tx |-> job[i].tx, kind |-> Kind(i)]}]

\* fault: an answer is taken for an acceptance
AnsweredAtAll(i) == job[i].at = "call" /\ i \in Spending
Accepted(i) == job[i].at = "call" /\ i \in Spending /\ job[i].tx # 0

\* The call resolves: the tick, the row, then a refresh of its address.
CallResolves(i) ==
  /\ Accepted(i)
  /\ signedFor' = IF i = "sign" THEN job[i].by ELSE signedFor
  /\ rows' = RowOf(i)
  /\ job' = [job EXCEPT ![i].at = "refresh"]
  /\ UNCHANGED <<net, session, balances, confirm, status, effect, log>>

\* fault: the failure's kind is taken for its tone
JobRejectsByKind(i) ==
  /\ job[i].at \in {"call", "refresh", "answered"}
  /\ End(i, "unexpected")
  /\ UNCHANGED <<net, session, page, effect, rows>>

\* It rejects, or a request of the refresh after it does.
JobRejects(i) ==
  /\ job[i].at \in {"call", "refresh", "answered"}
  /\ End(i, "error")
  /\ UNCHANGED <<net, session, page, effect, rows>>

FundResolves ==
  /\ "fund" \in Ids /\ job["fund"].at = "call"
  /\ funded' = [funded EXCEPT ![job["fund"].by] = TRUE]
  /\ job' = [job EXCEPT !["fund"].at = "refresh",
                        !["fund"].on = ~funded[job["fund"].by]]
  /\ UNCHANGED <<held, txs, session, page, status, effect, stored>>

\* Two requests: no account reads as no XLM, and a failed one for the line as no line.
ReadingsOf(a) ==
  {[address |-> a, xlm |-> funded[a], usdc |-> line] : line \in {held[a], NoLine}}

\* refresh: the network answers, and the page hears of it later.
RefreshAnswered(i) ==
  /\ job[i].at = "refresh" /\ job[i].by \in Addresses
  /\ \E reading \in ReadingsOf(job[i].by) :
       job' = [job EXCEPT ![i].at = "answered", ![i].reading = reading]
  /\ UNCHANGED <<net, session, page, status, effect, stored>>

Outcome(i) ==
  LET reading == job[i].reading  before == job[i].before IN
  CASE i = "fund" /\ ~job[i].on -> "error"
    [] i = "faucet-refresh" /\ reading.usdc \notin {NoLine, 0}
         /\ before # NoLine /\ reading.usdc > before -> "success"
    [] i = "faucet-refresh" -> "info"
    [] OTHER -> "success"

RefreshSet(i) ==
  /\ job[i].at = "answered"
  /\ balances' = job[i].reading
  /\ End(i, Outcome(i))
  /\ UNCHANGED <<net, session, signedFor, confirm, effect, rows>>

-----------------------------------------------------------------------------
(* The session, and the effects its address starts.                        *)

Start(a) == IF a = Nobody THEN [balances |-> NoEffect, signed |-> NoEffect]
            ELSE [k \in {"balances", "signed"} |-> [NoEffect EXCEPT !.at = "asked",
                                                      !.reading.address = a]]

SessionIs(c, a) ==
  /\ connected' = c /\ address' = a /\ logins' = IF c THEN logins + 1 ELSE logins
  /\ effect' = IF a = address THEN effect ELSE Start(a)

\* The Kit's connect returns the account; Privy's only that its modal is up.
ConnectResolves ==
  /\ "connect" \in Ids /\ job["connect"].at = "call"
  /\ IF CreatesWallet THEN UNCHANGED <<connected, address, logins, effect>>
     ELSE logins < MaxLogins /\ \E a \in Addresses : SessionIs(TRUE, a)
  /\ Settled("connect", "success")
  /\ job' = [job EXCEPT !["connect"] = NoJob]
  /\ UNCHANGED <<net, loggingOut, page, stored>>

\* Somebody has finished with Privy's modal, and may or may not have a wallet.
SessionArrives ==
  /\ CreatesWallet /\ ~connected /\ logins < MaxLogins
  /\ \E a \in Addresses \cup {Nobody} : SessionIs(TRUE, a)
  /\ UNCHANGED <<net, loggingOut, page, status, job, stored>>

WalletCreated ==
  /\ "wallet" \in Ids /\ job["wallet"].at = "call"
  /\ End("wallet", "success")
  /\ UNCHANGED <<net, session, page, effect, rows>>

\* The user object of the session shows the wallet, before or after that.
WalletAppears ==
  /\ "wallet" \in Ids /\ job["wallet"].at \in {"call", "gone"} /\ connected /\ address = Nobody
  /\ \E a \in Addresses : address' = a /\ effect' = Start(a)
  /\ job' = [job EXCEPT !["wallet"] = IF @.at = "gone" THEN NoJob ELSE @]
  /\ UNCHANGED <<net, connected, logins, loggingOut, page, status, stored>>

onLogout ==
  /\ connected /\ ~loggingOut /\ ~confirm
  /\ loggingOut' = TRUE
  /\ UNCHANGED <<net, connected, address, logins, page, status, job, effect, stored>>

LoggedOut ==
  /\ loggingOut /\ loggingOut' = FALSE
  /\ SessionIs(FALSE, Nobody)
  /\ log' = {} /\ UNCHANGED <<net, page, status, job, rows>>

\* What the page makes of a failed request: nothing is held, no payment is found.
Unread(a) == [NoReading EXCEPT !.address = a]

\* Of the payments the last 200 are looked at.
EffectAnswered(k) ==
  LET a == effect[k].reading.address
      paid == \E n \in DOMAIN txs : txs[n] = [by |-> a, kind |-> "sign"]
  IN
  /\ effect[k].at = "asked"
  /\ \E reading \in {Unread(a)} \cup (IF k = "balances" THEN ReadingsOf(a) ELSE {}),
        found \in {FALSE, k = "signed" /\ paid} :
       effect' = [effect EXCEPT ![k] = [at |-> "answered", reading |-> reading, found |-> found]]
  /\ UNCHANGED <<net, session, page, status, job, stored>>

\* fault: the address is recorded only when the account was found
BalancesEffectIfFunded ==
  /\ effect.balances.at = "answered"
  /\ balances' = IF effect.balances.reading.xlm THEN effect.balances.reading ELSE balances
  /\ effect' = [effect EXCEPT !.balances = NoEffect]
  /\ UNCHANGED <<net, session, signedFor, confirm, status, job, stored>>

\* An account nobody has funded, or that could not be read, is recorded as holding
\* nothing.
BalancesEffect ==
  /\ effect.balances.at = "answered"
  /\ balances' = effect.balances.reading
  /\ effect' = [effect EXCEPT !.balances = NoEffect]
  /\ UNCHANGED <<net, session, signedFor, confirm, status, job, stored>>

SignedEffect ==
  /\ effect.signed.at = "answered"
  /\ signedFor' = IF effect.signed.found THEN effect.signed.reading.address ELSE signedFor
  /\ effect' = [effect EXCEPT !.signed = NoEffect]
  /\ UNCHANGED <<net, session, balances, confirm, status, job, stored>>

\* A reload keeps the session and what is in storage, and forgets the jobs.
Reload ==
  /\ logins < MaxLogins /\ logins' = logins + 1
  /\ balances' = NoReading /\ signedFor' = Nobody /\ confirm' = FALSE
  /\ status' = [i \in Ids |-> "idle"] /\ job' = [i \in Ids |-> NoJob]
  /\ loggingOut' = FALSE
  /\ effect' = Start(address)
  /\ UNCHANGED <<net, connected, address, stored>>

\* The faucet, or anybody, sends some.
Receive(a) ==
  /\ held[a] # NoLine /\ held[a] < MaxUsdc
  /\ held' = [held EXCEPT ![a] = @ + 1]
  /\ UNCHANGED <<funded, txs, session, page, status, job, effect, stored>>

-----------------------------------------------------------------------------
(* The wallets-kit page; PrivyPage puts together the other.                *)

Buttons ==
  \/ onConnect \/ onFund \/ onSendPayment \/ onToggleTrustline
  \/ onConfirm \/ onCancel \/ onRefreshBalances \/ onCheckFaucet \/ onLogout
  \/ \E i \in Ids : onContribute(i)

JobStep(i) ==
  CallResolves(i) \/ JobRejects(i) \/ RefreshAnswered(i) \/ RefreshSet(i)

Answers ==
  \/ \E i \in Ids : JobStep(i) \/ Land(i)
  \/ FundResolves \/ ConnectResolves \/ LoggedOut
  \/ \E k \in {"balances", "signed"} : EffectAnswered(k)
  \/ BalancesEffect \/ SignedEffect

Next == Buttons \/ Answers \/ Reload \/ \E a \in Addresses : Receive(a)

Spec == Init /\ [][Next]_vars

-----------------------------------------------------------------------------
(* Properties, of either page.                                             *)

\* sent.ts: the history shown for an address is of transactions that were
\* applied, from that address and of that kind, though the wallet may have
\* been switched, or the session ended, between the press and the answer.
RowsAreReal ==
  \A a \in Addresses : \A r \in rows[a] :
    r.tx \in DOMAIN txs /\ txs[r.tx] = [by |-> a, kind |-> r.kind]

\* One action that moves money is under way at a time: the page is busy across a
\* logout and a login as another, so it starts no transaction while it awaits
\* another.  One that was given up, or that a reload forgot, may still land.
OneSpendAtATime ==
  Cardinality({i \in Ids \cap Spending : job[i].at \in {"call", "refresh", "answered"}}) <= 1

\* The tick of step 3 is earned: whoever it is shown for has paid the payee
\* (page.tsx:73-76).
TickIsEarned ==
  signedFor # Nobody => \E n \in DOMAIN txs : txs[n] = [by |-> signedFor, kind |-> "sign"]

\* A balance that the page shows is asked about before the trustline goes
\* (page.tsx:273-275): what is burned unasked is only what the page, at the
\* moment of the press, did not know of.
ShownBalanceIsAskedAbout ==
  [][/\ "trustline" \in Ids /\ hasUsdc
     /\ job["trustline"].at # "call" /\ job'["trustline"].at = "call"
     /\ ~job'["trustline"].on
     => job'["trustline"].asked]_vars
=============================================================================
