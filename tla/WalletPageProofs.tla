-------------------------- MODULE WalletPageProofs --------------------------
(***************************************************************************)
(* Proofs about the page of the onboarding applications: the history is of *)
(* transactions that were applied, the tick is earned, one action moves    *)
(* money at a time, and a balance that is shown is asked about.  They hold *)
(* for either page and for every set of wallets, buttons and bounds.       *)
(***************************************************************************)
EXTENDS WalletPage, FiniteSetTheorems, TLAPS

\* The steps of either page: PrivyPage has these four as well.
PageNext ==
  Next \/ onCreateWallet \/ WalletCreated \/ SessionArrives \/ WalletAppears

PageSpec == Init /\ [][PageNext]_vars

-----------------------------------------------------------------------------
(***************************************************************************)
(* Types.                                                                  *)
(***************************************************************************)
Wallets == Addresses \cup {Nobody}
Lines == Nat \cup {NoLine}
Stages == {"none", "call", "refresh", "answered", "gone"}
Kinds == {"sign", "trustline", "contribute"}
Tones == {"idle", "pending", "success", "info", "error"}
Readings == [address : Wallets, xlm : BOOLEAN, usdc : Lines]
Jobs == [at : Stages, by : Wallets, on : BOOLEAN, asked : BOOLEAN, before : Lines,
         tx : Nat, reading : Readings]
Effects == [at : {"none", "asked", "answered"}, reading : Readings, found : BOOLEAN]

Typed ==
  /\ funded \in [Addresses -> BOOLEAN] /\ held \in [Addresses -> Lines]
  /\ txs \in Seq([by : Addresses, kind : Kinds])
  /\ connected \in BOOLEAN /\ address \in Wallets /\ logins \in Nat
  /\ loggingOut \in BOOLEAN
  /\ balances \in Readings /\ signedFor \in Wallets
  /\ confirm \in BOOLEAN /\ (confirm => "trustline" \in Ids)
  /\ status \in [Ids -> Tones] /\ job \in [Ids -> Jobs]
  /\ effect \in [{"balances", "signed"} -> Effects]
  /\ \A k \in {"balances", "signed"} :
       effect[k].at # "none" => effect[k].reading.address \in Addresses
  /\ log \subseteq Wallets
  /\ rows \in [Addresses -> SUBSET [tx : Nat, kind : Kinds]]

Paid(n, a, kind) == n \in DOMAIN txs /\ txs[n] = [by |-> a, kind |-> kind]

\* An effect has found only what is there.
EffectFindsWhatIs ==
  effect["signed"].found =>
    \E n \in DOMAIN txs : Paid(n, effect["signed"].reading.address, "sign")

\* A job holds the number of its own transaction.
JobsOwnTheirTx == \A i \in Ids : job[i].tx # 0 => Paid(job[i].tx, job[i].by, Kind(i))

Active(i) == job[i].at \in {"call", "refresh", "answered"}

\* What moves money is pending while it is under way, and alone; and nothing of
\* it is under way behind the dialog, which starts another.
OneSpends ==
  /\ \A i \in Ids \cap Spending : Active(i) => status[i] = "pending" /\ ~confirm
  /\ \A i, j \in Ids \cap Spending : Active(i) /\ Active(j) => i = j

-----------------------------------------------------------------------------
(***************************************************************************)
(* What the parts of a step make of the types.                             *)
(***************************************************************************)

LEMMA NoneTyped ==
  /\ NoReading \in Readings /\ NoJob \in Jobs /\ NoEffect \in Effects
<1>1. Nobody \in Wallets /\ NoLine \in Lines
  BY DEF Wallets, Lines
<1>2. NoReading \in Readings
  BY <1>1 DEF NoReading, Readings
<1>3. NoJob \in Jobs
  BY <1>1, <1>2 DEF NoJob, Jobs, Stages
<1>4. NoEffect \in Effects
  BY <1>2 DEF NoEffect, Effects
<1> QED BY <1>2, <1>3, <1>4

LEMMA CurrentTyped == Typed => current \in Readings /\ current.usdc \in Lines
  BY NoneTyped DEF Typed, current, Readings

LEMMA ReadingTyped ==
  ASSUME Typed, NEW a \in Addresses
  PROVE  /\ \A reading \in ReadingsOf(a) : reading \in Readings /\ reading.address = a
         /\ Unread(a) \in Readings /\ Unread(a).address = a
<1>1. NoLine \in Lines /\ held[a] \in Lines /\ a \in Wallets
  BY DEF Typed, Lines, Wallets
<1>2. \A reading \in ReadingsOf(a) : reading \in Readings /\ reading.address = a
  BY <1>1 DEF Typed, ReadingsOf, Readings
<1>3. Unread(a) \in Readings /\ Unread(a).address = a
  BY <1>1, NoneTyped DEF Unread, Readings
<1> QED BY <1>2, <1>3

\* What an effect hears: a reading of its address, and of a payment only what is there.
EffectHears(k, reading, found) ==
  LET a == effect[k].reading.address IN
  /\ effect' = [effect EXCEPT ![k] = [at |-> "answered", reading |-> reading, found |-> found]]
  /\ reading \in {Unread(a)} \cup ReadingsOf(a)
  /\ found \in BOOLEAN
  /\ found => \E n \in DOMAIN txs : txs[n] = [by |-> a, kind |-> "sign"]

LEMMA EffectHeard ==
  ASSUME NEW k \in {"balances", "signed"}, EffectAnswered(k)
  PROVE  \E reading, found : EffectHears(k, reading, found)
  BY DEF EffectAnswered, EffectHears

LEMMA StartTyped ==
  ASSUME NEW a \in Wallets
  PROVE  /\ Start(a) \in [{"balances", "signed"} -> Effects]
         /\ \A k \in {"balances", "signed"} :
              /\ ~Start(a)[k].found
              /\ Start(a)[k].at # "none" => Start(a)[k].reading.address \in Addresses
<1> DEFINE asking == [NoEffect EXCEPT !.at = "asked", !.reading.address = a]
<1>1. CASE a = Nobody
  <2>1. Start(a) = [balances |-> NoEffect, signed |-> NoEffect]
    BY <1>1 DEF Start
  <2>2. /\ Start(a) \in [{"balances", "signed"} -> Effects]
        /\ \A k \in {"balances", "signed"} : Start(a)[k] = NoEffect
    BY <2>1, NoneTyped
  <2> QED BY <2>2 DEF NoEffect
<1>2. CASE a # Nobody
  <2>1. Start(a) = [k \in {"balances", "signed"} |-> asking]
    BY <1>2 DEF Start
  <2>2. asking \in Effects /\ ~asking.found /\ asking.reading.address = a
    BY NoneTyped DEF NoEffect, NoReading, Effects, Readings
  <2> HIDE DEF asking
  <2> QED BY <1>2, <2>1, <2>2 DEF Wallets
<1> QED BY <1>1, <1>2

LEMMA PressTyped ==
  ASSUME Typed, NEW i \in Ids, NEW at \in Stages, NEW on \in BOOLEAN, NEW asked \in BOOLEAN,
         Press(i, at, on, asked)
  PROVE  /\ status' \in [Ids -> Tones] /\ job' \in [Ids -> Jobs]
         /\ status' = [status EXCEPT ![i] = "pending"]
         /\ \A j \in Ids : j # i => job'[j] = job[j]
         /\ job'[i].at = at /\ job'[i].tx = 0 /\ job'[i].on = on /\ job'[i].asked = asked
         /\ UNCHANGED <<net, session, effect, stored>>
<1> DEFINE before == IF i = "faucet-refresh" THEN current.usdc ELSE NoLine
           new == [NoJob EXCEPT !.at = at, !.by = address, !.on = on, !.asked = asked,
                                !.before = before]
<1>1. before \in Lines
  BY CurrentTyped DEF Lines
<1>2. new \in Jobs /\ new.at = at /\ new.tx = 0 /\ new.on = on /\ new.asked = asked
  BY <1>1, NoneTyped DEF Typed, Jobs, NoJob, Readings
<1>3. job' = [job EXCEPT ![i] = new] /\ status' = [status EXCEPT ![i] = "pending"]
  BY DEF Press, Run
<1> HIDE DEF new
<1> QED BY <1>2, <1>3 DEF Typed, Press, Tones

LEMMA EndTyped ==
  ASSUME Typed, NEW i \in Ids, NEW tone \in Tones, End(i, tone)
  PROVE  /\ status' \in [Ids -> Tones] /\ job' \in [Ids -> Jobs] /\ log' \subseteq Wallets
         /\ \A j \in Ids : j # i => job'[j] = job[j] /\ status'[j] = status[j]
         /\ job'[i].at \in {"gone", "none"} /\ job'[i].tx = 0
<1>1. Leftover(i) \in Jobs /\ Leftover(i).at \in {"gone", "none"} /\ Leftover(i).tx = 0
  <2>1. job[i] \in Jobs /\ NoJob.at = "none" /\ NoJob.tx = 0
    BY DEF Typed, NoJob
  <2> DEFINE left == [NoJob EXCEPT !.at = "gone", !.by = job[i].by, !.on = job[i].on,
                                   !.asked = job[i].asked]
  <2>2. left \in Jobs /\ left.at = "gone" /\ left.tx = 0
    BY <2>1, NoneTyped DEF NoJob, Jobs, Stages
  <2>3. Leftover(i) \in {left, NoJob}
    BY DEF Leftover
  <2> HIDE DEF left
  <2> QED BY <2>1, <2>2, <2>3, NoneTyped
<1>2. job[i].by \in Wallets
  BY DEF Typed, Jobs
<1> QED BY <1>1, <1>2 DEF Typed, End, Note, Settled, Tones

\* How any press begins: the buttons, the dialog and the step that creates a
\* wallet.  Another page button is never pressed behind the dialog.
LEMMA EveryPress ==
  ASSUME Typed,
         \/ onConnect \/ onCreateWallet \/ onFund \/ onSendPayment
         \/ \E i \in Ids : onContribute(i)
         \/ onRefreshBalances \/ onCheckFaucet
         \/ onToggleTrustline /\ ~(hasTrustline /\ hasUsdc)
         \/ onConfirm
  PROVE  \E i \in Ids, at \in {"call", "refresh"}, on, asked \in BOOLEAN :
           /\ Press(i, at, on, asked)
           /\ UNCHANGED <<balances, signedFor>>
           /\ i \in Spending => ~confirm' /\ (confirm \/ ~busy)
           /\ confirm' => confirm
<1>1. ASSUME NEW i \in Ids \cap Spending, MayPress(i)
      PROVE  ~busy /\ ~confirm
  BY <1>1 DEF MayPress, Spending, Step3, Step4, Step6, Step7
<1>2. (~hasTrustline) \in BOOLEAN
  BY DEF hasTrustline
<1>3. CASE onConnect
  BY <1>3 DEF onConnect, MayPress, page, Spending
<1>4. CASE onCreateWallet
  BY <1>4 DEF onCreateWallet, MayPress, page, Spending
<1>5. CASE onFund
  BY <1>5 DEF onFund, MayPress, page, Spending
<1>6. CASE onSendPayment
  <2>1. MayPress("sign") /\ "sign" \in Ids \cap Spending
    BY <1>6 DEF onSendPayment, MayPress, Spending
  <2> QED BY <1>1, <1>6, <2>1 DEF onSendPayment, page
<1>7. CASE \E i \in Ids : onContribute(i)
  <2>1. PICK i \in Ids : onContribute(i)
    BY <1>7
  <2>2. MayPress(i) /\ i \in Ids \cap Spending
    BY <2>1 DEF onContribute, Spending
  <2> QED BY <1>1, <2>1, <2>2 DEF onContribute, page
<1>8. CASE onRefreshBalances
  BY <1>8 DEF onRefreshBalances, MayPress, page, Spending
<1>9. CASE onCheckFaucet
  BY <1>9 DEF onCheckFaucet, MayPress, page, Spending
<1>10. CASE onToggleTrustline /\ ~(hasTrustline /\ hasUsdc)
  <2>1. MayPress("trustline") /\ "trustline" \in Ids \cap Spending
    BY <1>10 DEF onToggleTrustline, MayPress, Spending
  <2>2. Press("trustline", "call", ~hasTrustline, FALSE) /\ UNCHANGED page
    BY <1>10 DEF onToggleTrustline, runToggleTrustline
  <2> QED BY <1>1, <1>2, <2>1, <2>2 DEF page
<1>11. CASE onConfirm
  BY <1>11 DEF onConfirm, runToggleTrustline, Typed
<1> QED BY <1>3, <1>4, <1>5, <1>6, <1>7, <1>8, <1>9, <1>10, <1>11

LEMMA TypedInitially == Init => Typed
<1> SUFFICES ASSUME Init PROVE Typed
  OBVIOUS
<1>1. /\ held \in [Addresses -> Lines] /\ txs \in Seq([by : Addresses, kind : Kinds])
      /\ Nobody \in Wallets
  BY DEF Init, Lines, Wallets
<1>2. /\ effect \in [{"balances", "signed"} -> Effects]
      /\ \A k \in {"balances", "signed"} : effect[k].at = "none"
  <2>1. /\ effect \in [{"balances", "signed"} -> Effects]
        /\ \A k \in {"balances", "signed"} : effect[k] = NoEffect
    BY NoneTyped DEF Init
  <2> QED BY <2>1 DEF NoEffect
<1> QED BY <1>1, <1>2, NoneTyped DEF Init, Typed, Tones

LEMMA LineAfterTyped ==
  ASSUME Typed, NEW i \in Ids, Land(i)
  PROVE  held' \in [Addresses -> Lines]
<1> DEFINE a == job[i].by
<1>1. held \in [Addresses -> Lines] /\ a \in Addresses /\ held' = LineAfter(i)
  BY DEF Typed, Land
<1>2. CASE Kind(i) = "contribute"
  <2>1. held[a] - 1 \in Lines
    BY <1>1, <1>2 DEF Land, Lines
  <2>2. held' = [held EXCEPT ![a] = held[a] - 1]
    <3>1. i # "trustline"
      BY <1>2 DEF Kind
    <3> QED BY <1>1, <1>2, <3>1 DEF LineAfter
  <2> QED BY <1>1, <2>1, <2>2
<1>3. CASE Kind(i) # "contribute"
  <2>1. 0 \in Lines /\ NoLine \in Lines
    BY DEF Lines
  <2> QED BY <1>1, <1>3, <2>1 DEF LineAfter
<1> QED BY <1>2, <1>3

LEMMA SessionTyped ==
  ASSUME Typed, NEW c \in BOOLEAN, NEW a \in Wallets, SessionIs(c, a)
  PROVE  /\ connected' \in BOOLEAN /\ address' \in Wallets /\ logins' \in Nat
         /\ effect' \in [{"balances", "signed"} -> Effects]
         /\ \A k \in {"balances", "signed"} :
              /\ effect'[k].at # "none" => effect'[k].reading.address \in Addresses
              /\ effect' = effect \/ ~effect'[k].found
  BY StartTyped DEF SessionIs, Typed

\* Every step keeps the types.
LEMMA TypedStep ==
  ASSUME Typed, [PageNext]_vars
  PROVE  Typed'
<1> USE DEF net, session, page, stored
<1>1. ASSUME NEW i \in Ids, NEW at \in {"call", "refresh"}, NEW on \in BOOLEAN,
             NEW asked \in BOOLEAN, Press(i, at, on, asked),
             UNCHANGED <<balances, signedFor>>, confirm' \in BOOLEAN, confirm' => confirm
      PROVE  Typed'
  <2>1. /\ status' \in [Ids -> Tones] /\ job' \in [Ids -> Jobs]
        /\ UNCHANGED <<net, session, effect, stored>>
    BY <1>1, PressTyped DEF Stages
  <2> QED BY <1>1, <2>1 DEF Typed
<1>2. ASSUME \/ onConnect \/ onCreateWallet \/ onFund \/ onSendPayment
             \/ \E i \in Ids : onContribute(i)
             \/ onRefreshBalances \/ onCheckFaucet
             \/ onToggleTrustline /\ ~(hasTrustline /\ hasUsdc)
             \/ onConfirm
      PROVE  Typed'
  <2>1. PICK i \in Ids, at \in {"call", "refresh"}, on, asked \in BOOLEAN :
          /\ Press(i, at, on, asked) /\ UNCHANGED <<balances, signedFor>>
          /\ confirm' => confirm
    BY <1>2, EveryPress
  <2>2. confirm' \in BOOLEAN
    BY <1>2 DEF Typed, onConnect, onCreateWallet, onFund, onSendPayment, onContribute,
                onRefreshBalances, onCheckFaucet, onToggleTrustline, onConfirm
  <2> QED BY <1>1, <2>1, <2>2
<1>3. ASSUME onToggleTrustline, hasTrustline, hasUsdc
      PROVE  Typed'
  BY <1>3 DEF onToggleTrustline, MayPress, Typed
<1>4. CASE onCancel
  BY <1>4 DEF onCancel, Typed
<1>5. CASE onLogout
  BY <1>5 DEF onLogout, Typed
<1>6. ASSUME NEW i \in Ids, CallResolves(i)
      PROVE  Typed'
  <2>1. job[i] \in Jobs /\ job[i].by \in Wallets /\ job[i].tx \in Nat /\ i \in Spending
    BY <1>6 DEF Typed, Jobs, CallResolves, Accepted
  <2>2. job' \in [Ids -> Jobs]
    BY <1>6, <2>1 DEF CallResolves, Typed, Jobs, Stages
  <2>3. Kind(i) \in Kinds \/ i = "trustline"
    BY <2>1 DEF Kind, Kinds, Spending
  <2>4. rows' \in [Addresses -> SUBSET [tx : Nat, kind : Kinds]]
    <3>1. CASE i = "trustline"
      BY <1>6, <3>1 DEF CallResolves, RowOf, Typed
    <3>2. CASE i # "trustline"
      <4>1. [tx |-> job[i].tx, kind |-> Kind(i)] \in [tx : Nat, kind : Kinds]
        BY <2>1, <2>3, <3>2
      <4> QED BY <1>6, <2>1, <3>2, <4>1 DEF CallResolves, RowOf, Typed
    <3> QED BY <3>1, <3>2
  <2>5. signedFor' \in Wallets
    BY <1>6, <2>1 DEF CallResolves, Typed
  <2> QED BY <1>6, <2>2, <2>4, <2>5 DEF CallResolves, Typed
<1>7. ASSUME NEW i \in Ids, JobRejects(i)
      PROVE  Typed'
  <2>1. /\ status' \in [Ids -> Tones] /\ job' \in [Ids -> Jobs] /\ log' \subseteq Wallets
    BY <1>7, EndTyped DEF JobRejects, Tones
  <2> QED BY <1>7, <2>1 DEF JobRejects, Typed
<1>8. ASSUME NEW i \in Ids, RefreshAnswered(i)
      PROVE  Typed'
  <2>1. PICK reading \in ReadingsOf(job[i].by) :
               job' = [job EXCEPT ![i].at = "answered", ![i].reading = reading]
    BY <1>8 DEF RefreshAnswered
  <2>2. reading \in Readings
    BY <1>8, ReadingTyped DEF RefreshAnswered
  <2>3. job' \in [Ids -> Jobs]
    BY <2>1, <2>2 DEF Typed, Jobs, Stages
  <2> QED BY <1>8, <2>3 DEF RefreshAnswered, Typed
<1>9. ASSUME NEW i \in Ids, RefreshSet(i)
      PROVE  Typed'
  <2>1. Outcome(i) \in Tones
    BY DEF Outcome, Tones
  <2>2. /\ status' \in [Ids -> Tones] /\ job' \in [Ids -> Jobs] /\ log' \subseteq Wallets
    BY <1>9, <2>1, EndTyped DEF RefreshSet
  <2>3. balances' \in Readings
    BY <1>9 DEF RefreshSet, Typed, Jobs
  <2> QED BY <1>9, <2>2, <2>3 DEF RefreshSet, Typed
<1>10. ASSUME NEW i \in Ids, Land(i)
       PROVE  Typed'
  <2>1. held' \in [Addresses -> Lines]
    BY <1>10, LineAfterTyped
  <2>2. Kind(i) \in Kinds
    BY <1>10 DEF Land, Kind, Kinds, Spending
  <2>3. txs' \in Seq([by : Addresses, kind : Kinds]) /\ Len(txs) + 1 \in Nat
    BY <1>10, <2>2 DEF Land, Typed
  <2>4. job[i] \in Jobs /\ [job[i] EXCEPT !.tx = Len(txs) + 1] \in Jobs
    BY <2>3 DEF Typed, Jobs
  <2>5. job' \in [Ids -> Jobs]
    BY <1>10, <2>4, NoneTyped DEF Land, Typed
  <2> QED BY <1>10, <2>1, <2>3, <2>5 DEF Land, Typed
<1>11. CASE FundResolves
  <2>1. "fund" \in Ids /\ job["fund"] \in Jobs
    BY <1>11 DEF FundResolves, Typed
  <2>2. funded' \in [Addresses -> BOOLEAN]
    BY <1>11 DEF FundResolves, Typed
  <2>3. (~funded[job["fund"].by]) \in BOOLEAN
    OBVIOUS
  <2>4. job' \in [Ids -> Jobs]
    BY <1>11, <2>1, <2>3 DEF FundResolves, Typed, Jobs, Stages
  <2> QED BY <1>11, <2>2, <2>4 DEF FundResolves, Typed
<1>12. CASE ConnectResolves
  <2>1. /\ job' \in [Ids -> Jobs] /\ status' \in [Ids -> Tones]
    BY <1>12, NoneTyped DEF ConnectResolves, Settled, Typed, Tones
  <2>2. /\ connected' \in BOOLEAN /\ address' \in Wallets /\ logins' \in Nat
        /\ effect' \in [{"balances", "signed"} -> Effects]
        /\ \A k \in {"balances", "signed"} :
             effect'[k].at # "none" => effect'[k].reading.address \in Addresses
    <3>1. CASE CreatesWallet
      BY <1>12, <3>1 DEF ConnectResolves, Typed
    <3>2. CASE ~CreatesWallet
      <4>1. PICK a \in Addresses : SessionIs(TRUE, a)
        BY <1>12, <3>2 DEF ConnectResolves
      <4> QED BY <4>1, SessionTyped DEF Wallets
    <3> QED BY <3>1, <3>2
  <2> QED BY <1>12, <2>1, <2>2 DEF ConnectResolves, Typed
<1>13. CASE LoggedOut
  <2>1. /\ connected' \in BOOLEAN /\ address' \in Wallets /\ logins' \in Nat
        /\ effect' \in [{"balances", "signed"} -> Effects]
        /\ \A k \in {"balances", "signed"} :
             effect'[k].at # "none" => effect'[k].reading.address \in Addresses
    BY <1>13, SessionTyped DEF LoggedOut, Wallets
  <2> QED BY <1>13, <2>1 DEF LoggedOut, Typed
<1>14. ASSUME NEW k \in {"balances", "signed"}, EffectAnswered(k)
       PROVE  Typed'
  <2>1. effect[k].reading.address \in Addresses
    BY <1>14 DEF EffectAnswered, Typed
  <2>2. PICK reading, found : EffectHears(k, reading, found)
    BY <1>14, EffectHeard
  <2> DEFINE told == [at |-> "answered", reading |-> reading, found |-> found]
  <2>3. effect' = [effect EXCEPT ![k] = told]
    BY <2>2 DEF EffectHears
  <2>4. reading \in Readings /\ reading.address \in Addresses /\ found \in BOOLEAN
    BY <2>1, <2>2, ReadingTyped DEF EffectHears
  <2>5. told \in Effects /\ told.reading.address \in Addresses
    BY <2>4 DEF Effects
  <2> HIDE DEF told
  <2>6. /\ effect' \in [{"balances", "signed"} -> Effects]
        /\ \A j \in {"balances", "signed"} :
             effect'[j].at # "none" => effect'[j].reading.address \in Addresses
    BY <2>3, <2>5 DEF Typed
  <2> QED BY <1>14, <2>6 DEF EffectAnswered, Typed
<1>15. CASE BalancesEffect
  <2>1. /\ balances' \in Readings /\ effect' \in [{"balances", "signed"} -> Effects]
        /\ \A k \in {"balances", "signed"} :
             effect'[k].at # "none" => effect'[k].reading.address \in Addresses
    BY <1>15, NoneTyped DEF BalancesEffect, Typed, NoEffect, Effects
  <2> QED BY <1>15, <2>1 DEF BalancesEffect, Typed
<1>16. CASE SignedEffect
  <2>1. /\ signedFor' \in Wallets /\ effect' \in [{"balances", "signed"} -> Effects]
        /\ \A k \in {"balances", "signed"} :
             effect'[k].at # "none" => effect'[k].reading.address \in Addresses
    BY <1>16, NoneTyped DEF SignedEffect, Typed, NoEffect, Effects, Readings
  <2> QED BY <1>16, <2>1 DEF SignedEffect, Typed
<1>17. CASE Reload
  <2>1. /\ job' \in [Ids -> Jobs] /\ status' \in [Ids -> Tones] /\ balances' \in Readings
        /\ logins' \in Nat /\ Nobody \in Wallets
    BY <1>17, NoneTyped DEF Reload, Typed, Tones, Wallets
  <2>2. /\ effect' \in [{"balances", "signed"} -> Effects]
        /\ \A k \in {"balances", "signed"} :
             effect'[k].at # "none" => effect'[k].reading.address \in Addresses
    BY <1>17, StartTyped DEF Reload, Typed
  <2> QED BY <1>17, <2>1, <2>2 DEF Reload, Typed
<1>18. ASSUME NEW a \in Addresses, Receive(a)
       PROVE  Typed'
  <2>1. held' \in [Addresses -> Lines]
    BY <1>18 DEF Receive, Typed, Lines
  <2> QED BY <1>18, <2>1 DEF Receive, Typed
<1>19. CASE WalletCreated
  <2>1. /\ status' \in [Ids -> Tones] /\ job' \in [Ids -> Jobs] /\ log' \subseteq Wallets
    BY <1>19, EndTyped DEF WalletCreated, Tones
  <2> QED BY <1>19, <2>1 DEF WalletCreated, Typed
<1>20. CASE SessionArrives
  <2>1. /\ connected' \in BOOLEAN /\ address' \in Wallets /\ logins' \in Nat
        /\ effect' \in [{"balances", "signed"} -> Effects]
        /\ \A k \in {"balances", "signed"} :
             effect'[k].at # "none" => effect'[k].reading.address \in Addresses
    BY <1>20, SessionTyped DEF SessionArrives, Wallets
  <2> QED BY <1>20, <2>1 DEF SessionArrives, Typed
<1>21. CASE WalletAppears
  <2>1. /\ address' \in Wallets /\ effect' \in [{"balances", "signed"} -> Effects]
        /\ \A k \in {"balances", "signed"} :
             effect'[k].at # "none" => effect'[k].reading.address \in Addresses
    BY <1>21, StartTyped DEF WalletAppears, Wallets
  <2>2. job' \in [Ids -> Jobs]
    BY <1>21, NoneTyped DEF WalletAppears, Typed
  <2> QED BY <1>21, <2>1, <2>2 DEF WalletAppears, Typed
<1>22. CASE UNCHANGED vars
  BY <1>22 DEF vars, Typed
<1> QED
  BY <1>2, <1>3, <1>4, <1>5, <1>6, <1>7, <1>8, <1>9, <1>10, <1>11, <1>12, <1>13, <1>14,
     <1>15, <1>16, <1>17, <1>18, <1>19, <1>20, <1>21, <1>22
     DEF PageNext, Next, Buttons, Answers, JobStep

LEMMA TypeCorrect == PageSpec => []Typed
<1>1. Typed /\ [PageNext]_vars => Typed'
  BY TypedStep
<1> QED BY <1>1, TypedInitially, PTL DEF PageSpec

-----------------------------------------------------------------------------
(***************************************************************************)
(* Rows, ticks and spends.  None is inductive alone: a row is written by a *)
(* job from what the job holds, a tick by a job or by the effect that has  *)
(* looked for a payment, and only the status of a job keeps the next one   *)
(* from starting.                                                          *)
(***************************************************************************)

Earned ==
  EffectFindsWhatIs /\ JobsOwnTheirTx /\ OneSpends /\ RowsAreReal /\ TickIsEarned

LEMMA EarnedInitially == Init => Earned
<1> SUFFICES ASSUME Init PROVE Earned
  OBVIOUS
<1>1. /\ effect["signed"] = NoEffect /\ signedFor = Nobody
      /\ \A i \in Ids : job[i] = NoJob
      /\ \A a \in Addresses : rows[a] = {}
  BY DEF Init
<1>2. ~NoEffect.found /\ NoJob.tx = 0 /\ NoJob.at = "none"
  BY DEF NoEffect, NoJob
<1> QED BY <1>1, <1>2 DEF Earned, EffectFindsWhatIs, JobsOwnTheirTx, OneSpends, Active,
                          RowsAreReal, TickIsEarned

\* A step that applies nothing, writes no row and no tick, and starts nothing
\* that moves money.
LEMMA NothingNew ==
  ASSUME Earned, UNCHANGED <<txs, rows>>, signedFor' \in {signedFor, Nobody},
         confirm' => confirm,
         effect'["signed"] = effect["signed"] \/ ~effect'["signed"].found,
         \A i \in Ids :
           /\ job'[i].tx = 0 \/ (job'[i].tx = job[i].tx /\ job'[i].by = job[i].by)
           /\ i \in Spending /\ Active(i)' => Active(i) /\ status'[i] = status[i]
  PROVE  Earned'
<1>1. EffectFindsWhatIs'
  BY DEF Earned, EffectFindsWhatIs, Paid
<1>2. JobsOwnTheirTx'
  BY DEF Earned, JobsOwnTheirTx, Paid, Kind
<1>3. OneSpends'
  BY DEF Earned, OneSpends
<1>4. RowsAreReal'
  BY DEF Earned, RowsAreReal
<1>5. TickIsEarned'
  BY DEF Earned, TickIsEarned
<1> QED BY <1>1, <1>2, <1>3, <1>4, <1>5 DEF Earned

\* A press of what moves money finds nothing else that does under way.
LEMMA PressEarned ==
  ASSUME Typed, Earned, NEW i \in Ids, NEW at \in {"call", "refresh"},
         NEW on \in BOOLEAN, NEW asked \in BOOLEAN, Press(i, at, on, asked),
         UNCHANGED <<balances, signedFor>>, confirm' => confirm,
         i \in Spending => ~confirm' /\ (confirm \/ ~busy)
  PROVE  Earned'
<1>1. /\ \A j \in Ids : j # i => job'[j] = job[j] /\ status'[j] = status[j]
      /\ status'[i] = "pending" /\ job'[i].tx = 0
      /\ UNCHANGED <<txs, rows, effect>>
  BY PressTyped DEF Stages, Typed, net, stored
<1>2. CASE i \notin Spending
  BY <1>1, <1>2, NothingNew DEF Active
<1>3. CASE i \in Spending
  <2>1. \A j \in Ids \cap Spending : ~Active(j)
    BY <1>3 DEF Earned, OneSpends, busy
  <2>2. OneSpends'
    BY <1>1, <1>3, <2>1 DEF OneSpends, Active
  <2>3. EffectFindsWhatIs' /\ RowsAreReal' /\ TickIsEarned'
    BY <1>1 DEF Earned, EffectFindsWhatIs, RowsAreReal, TickIsEarned, Paid
  <2>4. JobsOwnTheirTx'
    BY <1>1 DEF Earned, JobsOwnTheirTx, Paid, Kind
  <2> QED BY <2>2, <2>3, <2>4 DEF Earned
<1> QED BY <1>2, <1>3

\* A transaction is applied: it is the next one, and its job's.
LEMMA LandEarned ==
  ASSUME Typed, Earned, NEW i \in Ids, Land(i)
  PROVE  Earned'
<1> DEFINE tx == [by |-> job[i].by, kind |-> Kind(i)]
<1>1. /\ txs \in Seq([by : Addresses, kind : Kinds]) /\ txs' = Append(txs, tx)
      /\ UNCHANGED <<rows, signedFor, confirm, effect, status>>
  BY DEF Land, Typed, page, stored
<1>2. \A n, a, kind : Paid(n, a, kind) => Paid(n, a, kind)'
  BY <1>1 DEF Paid
<1>3. Len(txs) + 1 \in DOMAIN txs' /\ txs'[Len(txs) + 1] = tx
  BY <1>1
<1>4. /\ \A j \in Ids : j # i => job'[j] = job[j]
      /\ \/ job'[i] = NoJob /\ job[i].at = "gone"
         \/ job'[i] = [job[i] EXCEPT !.tx = Len(txs) + 1] /\ job[i].at = "call"
  BY DEF Land, Typed
<1>5. /\ job'[i] = NoJob \/ (job'[i].tx = Len(txs) + 1 /\ job'[i].by = job[i].by)
      /\ job'[i].at = "none" \/ job'[i].at = job[i].at
  BY <1>4 DEF Typed, Jobs, NoJob
<1>6. JobsOwnTheirTx'
  <2>1. SUFFICES ASSUME NEW j \in Ids, job'[j].tx # 0
                 PROVE  Paid(job[j].tx, job[j].by, Kind(j))'
    BY DEF JobsOwnTheirTx
  <2>2. CASE j = i
    BY <1>3, <1>5, <2>1, <2>2 DEF NoJob, Paid, Kind
  <2>3. CASE j # i
    BY <1>2, <1>4, <2>1, <2>3 DEF Earned, JobsOwnTheirTx, Paid, Kind
  <2> QED BY <2>2, <2>3
<1>7. EffectFindsWhatIs'
  BY <1>1, <1>2 DEF Earned, EffectFindsWhatIs, Paid
<1>8. OneSpends'
  BY <1>1, <1>4, <1>5 DEF Earned, OneSpends, Active
<1>9. RowsAreReal'
  <2>1. SUFFICES ASSUME NEW a \in Addresses, NEW r \in rows[a]
                 PROVE  Paid(r.tx, a, r.kind)'
    BY <1>1 DEF RowsAreReal, Paid
  <2>2. Paid(r.tx, a, r.kind)
    BY <2>1 DEF Earned, RowsAreReal, Paid
  <2> QED BY <1>2, <2>2
<1>10. TickIsEarned'
  BY <1>1, <1>2 DEF Earned, TickIsEarned, Paid
<1> QED BY <1>6, <1>7, <1>8, <1>9, <1>10 DEF Earned

\* An accepted call writes the row of its own transaction, and the tick.
LEMMA ResolveEarned ==
  ASSUME Typed, Earned, NEW i \in Ids, CallResolves(i)
  PROVE  Earned'
<1> DEFINE a == job[i].by
<1>1. Paid(job[i].tx, a, Kind(i)) /\ i \in Spending /\ Active(i)
  BY DEF CallResolves, Accepted, Earned, JobsOwnTheirTx, Active
<1>2. /\ UNCHANGED <<txs, confirm, status, effect>>
      /\ signedFor' = IF i = "sign" THEN a ELSE signedFor
      /\ \/ rows' = rows
         \/ rows' = [rows EXCEPT ![a] = @ \cup {[tx |-> job[i].tx, kind |-> Kind(i)]}]
  BY DEF CallResolves, RowOf, net
<1>3. /\ \A j \in Ids : j # i => job'[j] = job[j]
      /\ job'[i].tx = job[i].tx /\ job'[i].by = a
  BY DEF CallResolves, Typed, Jobs
<1>4. RowsAreReal'
  <2>1. SUFFICES ASSUME NEW b \in Addresses, NEW r \in rows'[b]
                 PROVE  r.tx \in DOMAIN txs /\ txs[r.tx] = [by |-> b, kind |-> r.kind]
    BY <1>2 DEF RowsAreReal
  <2>2. CASE r \in rows[b]
    BY <2>2 DEF Earned, RowsAreReal
  <2>3. CASE r \notin rows[b]
    <3>1. b = a /\ r = [tx |-> job[i].tx, kind |-> Kind(i)]
      BY <1>2, <2>1, <2>3 DEF Typed
    <3> QED BY <1>1, <3>1 DEF Paid
  <2> QED BY <2>2, <2>3
<1>5. TickIsEarned'
  <2>1. Kind("sign") = "sign"
    BY DEF Kind
  <2> QED BY <1>1, <1>2, <2>1 DEF Earned, TickIsEarned, Paid
<1>6. JobsOwnTheirTx'
  BY <1>2, <1>3 DEF Earned, JobsOwnTheirTx, Paid, Kind
<1>7. OneSpends'
  BY <1>1, <1>2, <1>3 DEF Earned, OneSpends, Active
<1>8. EffectFindsWhatIs'
  BY <1>2 DEF Earned, EffectFindsWhatIs, Paid
<1> QED BY <1>4, <1>5, <1>6, <1>7, <1>8 DEF Earned

LEMMA EndEarned ==
  ASSUME Typed, Earned, NEW i \in Ids, NEW tone \in Tones, End(i, tone),
         UNCHANGED <<txs, rows, effect, signedFor, confirm>>
  PROVE  Earned'
  BY EndTyped, NothingNew DEF Active

\* A new session, or none, starts effects that have found nothing.
LEMMA SessionEarned ==
  ASSUME Typed, Earned, NEW c \in BOOLEAN, NEW a \in Wallets, SessionIs(c, a),
         UNCHANGED <<txs, rows, signedFor, confirm>>,
         UNCHANGED job \/ ("connect" \in Ids /\ job' = [job EXCEPT !["connect"] = NoJob]),
         \A i \in Ids \cap Spending : status'[i] = status[i]
  PROVE  Earned'
<1>1. effect'["signed"] = effect["signed"] \/ ~effect'["signed"].found
  BY SessionTyped
<1>2. \A i \in Ids : job'[i] = job[i] \/ (job'[i] = NoJob /\ i \notin Spending)
  BY DEF Typed, Spending
<1>3. NoJob.tx = 0
  BY DEF NoJob
<1> QED BY <1>1, <1>2, <1>3, NothingNew DEF Active

LEMMA EarnedStep ==
  ASSUME Typed, Earned, [PageNext]_vars
  PROVE  Earned'
<1> USE DEF net, session, page, stored
<1>1. ASSUME \/ onConnect \/ onCreateWallet \/ onFund \/ onSendPayment
             \/ \E i \in Ids : onContribute(i)
             \/ onRefreshBalances \/ onCheckFaucet
             \/ onToggleTrustline /\ ~(hasTrustline /\ hasUsdc)
             \/ onConfirm
      PROVE  Earned'
  BY <1>1, EveryPress, PressEarned
<1>2. ASSUME onToggleTrustline, hasTrustline, hasUsdc
      PROVE  Earned'
  <2>1. /\ ~busy /\ UNCHANGED <<txs, rows, signedFor, status, job, effect>>
    BY <1>2 DEF onToggleTrustline, MayPress, Step4
  <2>2. OneSpends'
    BY <2>1 DEF Earned, OneSpends, Active, busy
  <2> QED BY <2>1, <2>2 DEF Earned, EffectFindsWhatIs, JobsOwnTheirTx, RowsAreReal,
                            TickIsEarned, Paid, Kind
<1>3. CASE onCancel
  BY <1>3, NothingNew DEF onCancel, Active
<1>4. CASE onLogout
  BY <1>4, NothingNew DEF onLogout, Active
<1>5. ASSUME NEW i \in Ids, CallResolves(i)
      PROVE  Earned'
  BY <1>5, ResolveEarned
<1>6. ASSUME NEW i \in Ids, JobRejects(i)
      PROVE  Earned'
  BY <1>6, EndEarned DEF JobRejects, Tones
<1>7. ASSUME NEW i \in Ids, RefreshAnswered(i)
      PROVE  Earned'
  <2>1. /\ \A j \in Ids : j # i => job'[j] = job[j]
        /\ job'[i].tx = job[i].tx /\ job'[i].by = job[i].by /\ Active(i)
    BY <1>7 DEF RefreshAnswered, Typed, Jobs, Active
  <2>2. UNCHANGED <<txs, rows, signedFor, confirm, effect, status>>
    BY <1>7 DEF RefreshAnswered
  <2> QED BY <2>1, <2>2, NothingNew DEF Active
<1>8. ASSUME NEW i \in Ids, RefreshSet(i)
      PROVE  Earned'
  <2>1. Outcome(i) \in Tones
    BY DEF Outcome, Tones
  <2> QED BY <1>8, <2>1, EndEarned DEF RefreshSet
<1>9. ASSUME NEW i \in Ids, Land(i)
      PROVE  Earned'
  BY <1>9, LandEarned
<1>10. CASE FundResolves
  <2>1. /\ "fund" \in Ids /\ "fund" \notin Spending
        /\ \A j \in Ids : j # "fund" => job'[j] = job[j]
        /\ job'["fund"].tx = job["fund"].tx /\ job'["fund"].by = job["fund"].by
    BY <1>10 DEF FundResolves, Typed, Jobs, Spending
  <2>2. UNCHANGED <<txs, rows, signedFor, confirm, effect, status>>
    BY <1>10 DEF FundResolves
  <2> QED BY <2>1, <2>2, NothingNew DEF Active
<1>11. CASE ConnectResolves
  <2>1. /\ "connect" \in Ids /\ job' = [job EXCEPT !["connect"] = NoJob]
        /\ UNCHANGED <<txs, rows, signedFor, confirm>>
    BY <1>11 DEF ConnectResolves
  <2>2. \A i \in Ids \cap Spending : status'[i] = status[i]
    BY <1>11 DEF ConnectResolves, Settled, Typed, Spending
  <2>3. CASE CreatesWallet
    <3>1. \A i \in Ids : job'[i] = job[i] \/ (job'[i] = NoJob /\ i \notin Spending)
      BY <2>1 DEF Typed, Spending
    <3> QED BY <1>11, <2>1, <2>2, <2>3, <3>1, NothingNew DEF ConnectResolves, Active, NoJob
  <2>4. CASE ~CreatesWallet
    <3>1. PICK a \in Addresses : SessionIs(TRUE, a)
      BY <1>11, <2>4 DEF ConnectResolves
    <3> QED BY <2>1, <2>2, <3>1, SessionEarned DEF Wallets
  <2> QED BY <2>3, <2>4
<1>12. CASE LoggedOut
  BY <1>12, SessionEarned DEF LoggedOut, Wallets
<1>13. ASSUME NEW k \in {"balances", "signed"}, EffectAnswered(k)
       PROVE  Earned'
  <2>1. UNCHANGED <<txs, rows, signedFor, confirm, job, status>>
    BY <1>13 DEF EffectAnswered
  <2>2. CASE k = "balances"
    <3>1. effect'["signed"] = effect["signed"]
      BY <1>13, <2>2 DEF EffectAnswered, Typed
    <3> QED BY <2>1, <3>1, NothingNew DEF Active
  <2>3. CASE k = "signed"
    <3> DEFINE a == effect["signed"].reading.address
    <3>a. a \in Addresses
      BY <1>13, <2>3 DEF EffectAnswered, Typed
    <3>b. PICK reading, found : EffectHears("signed", reading, found)
      BY <1>13, <2>3, EffectHeard
    <3>c. reading.address = a
      BY <3>a, <3>b, ReadingTyped DEF EffectHears, Earned
    <3>1. effect'["signed"].found = found /\ effect'["signed"].reading.address = a
      BY <3>b, <3>c DEF EffectHears, Typed
    <3>2. EffectFindsWhatIs'
      BY <2>1, <3>1, <3>b DEF EffectHears, EffectFindsWhatIs, Paid
    <3> QED BY <2>1, <3>2 DEF Earned, OneSpends, Active, JobsOwnTheirTx, RowsAreReal,
                              TickIsEarned, Paid, Kind
  <2> QED BY <2>2, <2>3
<1>14. CASE BalancesEffect
  BY <1>14, NothingNew DEF BalancesEffect, Typed, Active
<1>15. CASE SignedEffect
  <2>1. /\ UNCHANGED <<txs, rows, confirm, job, status>>
        /\ effect'["signed"] = NoEffect
        /\ \/ signedFor' = signedFor
           \/ effect["signed"].found /\ signedFor' = effect["signed"].reading.address
    BY <1>15 DEF SignedEffect, Typed
  <2>2. TickIsEarned'
    BY <2>1 DEF Earned, TickIsEarned, EffectFindsWhatIs, Paid
  <2>3. EffectFindsWhatIs'
    BY <2>1 DEF EffectFindsWhatIs, NoEffect
  <2> QED BY <2>1, <2>2, <2>3 DEF Earned, OneSpends, Active, JobsOwnTheirTx, RowsAreReal,
                                  Paid, Kind
<1>16. CASE Reload
  <2>1. /\ UNCHANGED <<txs, rows>> /\ signedFor' = Nobody /\ ~confirm'
        /\ \A i \in Ids : job'[i] = NoJob
        /\ effect' = Start(address)
    BY <1>16 DEF Reload
  <2>2. ~effect'["signed"].found
    BY <2>1, StartTyped DEF Typed
  <2>3. NoJob.tx = 0 /\ NoJob.at = "none"
    BY DEF NoJob
  <2> QED BY <2>1, <2>2, <2>3, NothingNew DEF Active
<1>17. ASSUME NEW a \in Addresses, Receive(a)
       PROVE  Earned'
  BY <1>17, NothingNew DEF Receive, Active
<1>18. CASE WalletCreated
  BY <1>18, EndEarned DEF WalletCreated, Tones
<1>19. CASE SessionArrives
  BY <1>19, SessionEarned DEF SessionArrives, Wallets
<1>20. CASE WalletAppears
  <2>1. /\ UNCHANGED <<txs, rows, signedFor, confirm, status>>
        /\ \A i \in Ids : job'[i] = job[i] \/ (job'[i] = NoJob /\ i \notin Spending)
    BY <1>20 DEF WalletAppears, Typed, Spending
  <2>2. ~effect'["signed"].found
    BY <1>20, StartTyped DEF WalletAppears, Wallets
  <2>3. NoJob.tx = 0
    BY DEF NoJob
  <2> QED BY <2>1, <2>2, <2>3, NothingNew DEF Active
<1>21. CASE UNCHANGED vars
  BY <1>21, NothingNew DEF vars, Active
<1> QED
  BY <1>1, <1>2, <1>3, <1>4, <1>5, <1>6, <1>7, <1>8, <1>9, <1>10, <1>11, <1>12, <1>13, <1>14,
     <1>15, <1>16, <1>17, <1>18, <1>19, <1>20, <1>21
     DEF PageNext, Next, Buttons, Answers, JobStep

LEMMA EarnedAlways == PageSpec => [](Typed /\ Earned)
<1>1. Init => Typed /\ Earned
  BY TypedInitially, EarnedInitially
<1>2. Typed /\ Earned /\ [PageNext]_vars => (Typed /\ Earned)'
  BY TypedStep, EarnedStep
<1> QED BY <1>1, <1>2, PTL DEF PageSpec

\* The history of an address holds what that address has sent and nothing else,
\* whatever wallet the page had moved on to when the answer came (sent.ts).
THEOREM RowsAlwaysReal == PageSpec => []RowsAreReal
<1>1. Earned => RowsAreReal
  BY DEF Earned
<1> QED BY <1>1, EarnedAlways, PTL

\* Nobody is shown the tick of step 3 who has not paid (page.tsx:73-76).
THEOREM TickAlwaysEarned == PageSpec => []TickIsEarned
<1>1. Earned => TickIsEarned
  BY DEF Earned
<1> QED BY <1>1, EarnedAlways, PTL

\* No two actions that move money are under way at a time, the one behind the
\* dialog, another session's and a retry included (use-actions.ts, busy).
THEOREM AlwaysOneSpend == PageSpec => []OneSpendAtATime
<1>1. Earned => OneSpendAtATime
  <2>1. SUFFICES ASSUME Earned PROVE OneSpendAtATime
    OBVIOUS
  <2> DEFINE busyWith == {i \in Ids \cap Spending : Active(i)}
  <2>2. Cardinality(busyWith) <= 1
    <3>1. CASE busyWith = {}
      BY <3>1, FS_EmptySet
    <3>2. CASE busyWith # {}
      <4>1. PICK i \in busyWith : TRUE
        BY <3>2
      <4>2. busyWith = {i}
        BY <2>1, <4>1 DEF Earned, OneSpends
      <4>3. Cardinality({i}) = 1
        BY FS_Singleton
      <4> QED BY <4>2, <4>3
    <3> QED BY <3>1, <3>2
  <2> QED BY <2>2 DEF OneSpendAtATime, Active
<1> QED BY <1>1, EarnedAlways, PTL

-----------------------------------------------------------------------------
(***************************************************************************)
(* The switch.                                                             *)
(***************************************************************************)

\* Only a press starts a call.
LEMMA OnlyPressesCall ==
  ASSUME Typed, [PageNext]_vars, "trustline" \in Ids,
         job["trustline"].at # "call", job'["trustline"].at = "call"
  PROVE  \/ onToggleTrustline /\ ~(hasTrustline /\ hasUsdc)
         \/ onConfirm
<1> DEFINE t == "trustline"
<1> USE DEF net, session, page, stored
<1>1. job \in [Ids -> Jobs] /\ NoJob.at = "none"
  BY DEF Typed, NoJob
<1>2. ASSUME NEW i \in Ids, NEW at \in {"call", "refresh"}, NEW on \in BOOLEAN,
             NEW asked \in BOOLEAN, Press(i, at, on, asked), i # t
      PROVE  FALSE
  BY <1>2, PressTyped DEF Stages
<1>3. ASSUME \/ onConnect \/ onCreateWallet \/ onFund \/ onSendPayment
             \/ \E i \in Ids : onContribute(i)
             \/ onRefreshBalances \/ onCheckFaucet
      PROVE  FALSE
  BY <1>2, <1>3 DEF onConnect, onCreateWallet, onFund, onSendPayment, onContribute,
                    onRefreshBalances, onCheckFaucet, MayPress
<1>4. ASSUME \/ onCancel \/ onLogout \/ LoggedOut \/ BalancesEffect \/ SignedEffect
             \/ SessionArrives \/ UNCHANGED vars
             \/ \E k \in {"balances", "signed"} : EffectAnswered(k)
             \/ \E a \in Addresses : Receive(a)
             \/ onToggleTrustline /\ hasTrustline /\ hasUsdc
      PROVE  job' = job
  BY <1>4 DEF onCancel, onLogout, LoggedOut, BalancesEffect, SignedEffect, SessionArrives,
              EffectAnswered, Receive, onToggleTrustline, vars
<1>5. ASSUME NEW i \in Ids, NEW tone \in Tones, End(i, tone)
      PROVE  FALSE
  BY <1>5, EndTyped
<1>6. ASSUME NEW i \in Ids, JobStep(i) \/ Land(i)
      PROVE  FALSE
  <2>1. CASE CallResolves(i)
    BY <1>1, <2>1 DEF CallResolves, Jobs
  <2>2. CASE JobRejects(i)
    BY <1>5, <2>2 DEF JobRejects, Tones
  <2>3. CASE RefreshAnswered(i)
    BY <1>1, <2>3 DEF RefreshAnswered, Jobs
  <2>4. CASE RefreshSet(i)
    BY <1>5, <2>4 DEF RefreshSet, Outcome, Tones
  <2>5. CASE Land(i)
    BY <1>1, <2>5 DEF Land, Jobs
  <2> QED BY <1>6, <2>1, <2>2, <2>3, <2>4, <2>5 DEF JobStep
<1>7. ASSUME FundResolves \/ ConnectResolves \/ WalletAppears \/ WalletCreated \/ Reload
      PROVE  FALSE
  <2>1. CASE FundResolves
    BY <1>1, <2>1 DEF FundResolves
  <2>2. CASE ConnectResolves
    BY <1>1, <2>2 DEF ConnectResolves
  <2>3. CASE WalletAppears
    BY <1>1, <2>3 DEF WalletAppears
  <2>4. CASE WalletCreated
    BY <1>5, <2>4 DEF WalletCreated, Tones
  <2>5. CASE Reload
    BY <1>1, <2>5 DEF Reload
  <2> QED BY <1>7, <2>1, <2>2, <2>3, <2>4, <2>5
<1> QED
  BY <1>3, <1>4, <1>6, <1>7 DEF PageNext, Next, Buttons, Answers

\* The page never takes away a line with a balance it is showing unless its
\* owner was asked: the switch stops at the dialog, and the dialog's own press
\* is the only other way (page.tsx:273-279).
THEOREM ShownBalanceAlwaysAskedAbout == PageSpec => ShownBalanceIsAskedAbout
<1>1. Typed /\ [PageNext]_vars =>
        [/\ "trustline" \in Ids /\ hasUsdc
         /\ job["trustline"].at # "call" /\ job'["trustline"].at = "call"
         /\ ~job'["trustline"].on
         => job'["trustline"].asked]_vars
  <2>1. SUFFICES ASSUME Typed, [PageNext]_vars, "trustline" \in Ids, hasUsdc,
                        job["trustline"].at # "call", job'["trustline"].at = "call"
                 PROVE  job'["trustline"].asked
    OBVIOUS
  <2>2. onConfirm
    BY <2>1, OnlyPressesCall DEF hasUsdc
  <2>3. Press("trustline", "call", FALSE, TRUE)
    BY <2>2 DEF onConfirm, runToggleTrustline
  <2> QED BY <2>1, <2>3, PressTyped DEF Stages
<1> QED BY <1>1, TypeCorrect, PTL DEF PageSpec, ShownBalanceIsAskedAbout

-----------------------------------------------------------------------------
(***************************************************************************)
(* Both pages.                                                             *)
(***************************************************************************)

Privy == INSTANCE PrivyPage

\* The wallets-kit page takes steps of the page.
THEOREM KitPageIsOne == Spec => PageSpec
<1>1. [Next]_vars => [PageNext]_vars
  BY DEF PageNext
<1> QED BY <1>1, PTL DEF Spec, PageSpec

\* What the handlers are made of is the same on both pages.
LEMMA PrivyParts ==
  /\ Privy!Page!NoReading = NoReading /\ Privy!Page!NoJob = NoJob
  /\ Privy!Page!NoEffect = NoEffect /\ Privy!Page!Spending = Spending
  /\ Privy!Page!hasTrustline = hasTrustline /\ Privy!Page!hasUsdc = hasUsdc
  /\ \A i : (Privy!Page!MayPress(i) <=> MayPress(i)) /\ Privy!Page!Kind(i) = Kind(i)
  /\ \A i, tone : Privy!Page!End(i, tone) <=> End(i, tone)
  /\ \A i, at, on, asked : Privy!Page!Press(i, at, on, asked) <=> Press(i, at, on, asked)
  /\ \A c, a : Privy!Page!SessionIs(c, a) <=> SessionIs(c, a)
  /\ \A a : Privy!Page!Start(a) = Start(a) /\ Privy!Page!ReadingsOf(a) = ReadingsOf(a)
  /\ \A a : Privy!Page!Unread(a) = Unread(a)
  BY DEF NoReading, Privy!Page!NoReading, NoJob, Privy!Page!NoJob, NoEffect,
         Privy!Page!NoEffect, Spending, Privy!Page!Spending, session, Privy!Page!session,
         onLogout, Privy!Page!onLogout, net, Privy!Page!net, page, Privy!Page!page, stored,
         Privy!Page!stored, hasTrustline, Privy!Page!hasTrustline, current,
         Privy!Page!current, hasUsdc, Privy!Page!hasUsdc, MayPress, Privy!Page!MayPress,
         SignedOutCard, Privy!Page!SignedOutCard, Step1, Privy!Page!Step1, busy,
         Privy!Page!busy, Bar, Privy!Page!Bar, Step2, Privy!Page!Step2, needsWallet,
         Privy!Page!needsWallet, Step3, Privy!Page!Step3, needsFunding,
         Privy!Page!needsFunding, loadingBalances, Privy!Page!loadingBalances, Step4,
         Privy!Page!Step4, Step5, Privy!Page!Step5, needsTrustline,
         Privy!Page!needsTrustline, showFaucetCheck, Privy!Page!showFaucetCheck, Step6,
         Privy!Page!Step6, Step7, Privy!Page!Step7, Kind, Privy!Page!Kind, End,
         Privy!Page!End, Note, Privy!Page!Note, Settled, Privy!Page!Settled, Leftover,
         Privy!Page!Leftover, Press, Privy!Page!Press, Run, Privy!Page!Run, SessionIs,
         Privy!Page!SessionIs, Start, Privy!Page!Start, ReadingsOf, Privy!Page!ReadingsOf,
         Unread, Privy!Page!Unread

\* A step of the Privy page, where a session may have no wallet, is one of the page.
LEMMA PrivyStep ==
  ASSUME CreatesWallet = TRUE, Privy!Next
  PROVE  PageNext
<1>1. /\ Privy!Page!onConnect => onConnect
      /\ Privy!Page!onCreateWallet => onCreateWallet
      /\ Privy!Page!WalletCreated => WalletCreated
      /\ Privy!Page!onFund => onFund
      /\ Privy!Page!FundResolves => FundResolves
      /\ Privy!Page!onSendPayment => onSendPayment
  BY PrivyParts DEF onConnect, Privy!Page!onConnect, page, Privy!Page!page, onCreateWallet,
                    Privy!Page!onCreateWallet, WalletCreated, Privy!Page!WalletCreated, net,
                    Privy!Page!net, session, Privy!Page!session, onFund, Privy!Page!onFund,
                    FundResolves, Privy!Page!FundResolves, stored, Privy!Page!stored,
                    onSendPayment, Privy!Page!onSendPayment
<1>2. /\ Privy!Page!onToggleTrustline => onToggleTrustline
      /\ Privy!Page!onConfirm => onConfirm
      /\ Privy!Page!onCancel => onCancel
      /\ Privy!Page!onRefreshBalances => onRefreshBalances
      /\ Privy!Page!onCheckFaucet => onCheckFaucet
  BY PrivyParts DEF onToggleTrustline, Privy!Page!onToggleTrustline, net, Privy!Page!net,
                    session, Privy!Page!session, stored, Privy!Page!stored,
                    runToggleTrustline, Privy!Page!runToggleTrustline, page,
                    Privy!Page!page, onConfirm, Privy!Page!onConfirm, onCancel,
                    Privy!Page!onCancel, onRefreshBalances, Privy!Page!onRefreshBalances,
                    onCheckFaucet, Privy!Page!onCheckFaucet
<1>3. /\ Privy!Page!onLogout => onLogout
      /\ Privy!Page!LoggedOut => LoggedOut
      /\ Privy!Page!BalancesEffect => BalancesEffect
      /\ Privy!Page!SignedEffect => SignedEffect
  BY PrivyParts DEF onLogout, Privy!Page!onLogout, net, Privy!Page!net, page,
                    Privy!Page!page, stored, Privy!Page!stored, LoggedOut,
                    Privy!Page!LoggedOut, BalancesEffect, Privy!Page!BalancesEffect,
                    session, Privy!Page!session, SignedEffect, Privy!Page!SignedEffect
<1>4. /\ Privy!Page!SessionArrives => SessionArrives
      /\ Privy!Page!WalletAppears => WalletAppears
      /\ Privy!Page!Reload => Reload
      /\ Privy!Page!ConnectResolves => ConnectResolves
  BY PrivyParts DEF SessionArrives, Privy!Page!SessionArrives, net, Privy!Page!net, page,
                    Privy!Page!page, stored, Privy!Page!stored, WalletAppears,
                    Privy!Page!WalletAppears, Reload, Privy!Page!Reload, ConnectResolves,
                    Privy!Page!ConnectResolves, Settled, Privy!Page!Settled
<1>5. /\ \A i : Privy!Page!onContribute(i) => onContribute(i)
      /\ \A i : Privy!Page!CallResolves(i) => CallResolves(i)
      /\ \A i : Privy!Page!JobRejects(i) => JobRejects(i)
  BY PrivyParts DEF onContribute, Privy!Page!onContribute, page, Privy!Page!page,
                    CallResolves, Privy!Page!CallResolves, Accepted, Privy!Page!Accepted,
                    RowOf, Privy!Page!RowOf, net, Privy!Page!net, session,
                    Privy!Page!session, JobRejects, Privy!Page!JobRejects
<1>6. /\ \A i : Privy!Page!RefreshAnswered(i) => RefreshAnswered(i)
      /\ \A i : Privy!Page!RefreshSet(i) => RefreshSet(i)
      /\ \A i : Privy!Page!Land(i) => Land(i)
  BY PrivyParts DEF RefreshAnswered, Privy!Page!RefreshAnswered, net, Privy!Page!net,
                    session, Privy!Page!session, page, Privy!Page!page, stored,
                    Privy!Page!stored, RefreshSet, Privy!Page!RefreshSet, Outcome,
                    Privy!Page!Outcome, Land, Privy!Page!Land, LineAfter,
                    Privy!Page!LineAfter
<1>7. /\ \A k : Privy!Page!EffectAnswered(k) => EffectAnswered(k)
  BY PrivyParts DEF EffectAnswered, Privy!Page!EffectAnswered, net, Privy!Page!net, session,
                    Privy!Page!session, page, Privy!Page!page, stored, Privy!Page!stored
<1>8. /\ \A a : Privy!Page!Receive(a) => Receive(a)
  BY PrivyParts DEF Receive, Privy!Page!Receive, session, Privy!Page!session, page,
                    Privy!Page!page, stored, Privy!Page!stored
<1>9. CASE Privy!onConnect \/ Privy!onCreateWallet \/ Privy!WalletCreated \/ Privy!onFund
           \/ Privy!FundResolves \/ Privy!onSendPayment
  BY <1>1, <1>9 DEF Privy!onConnect, Privy!onCreateWallet, Privy!WalletCreated, Privy!onFund,
                    Privy!FundResolves, Privy!onSendPayment, PageNext, Next, Buttons, Answers
<1>10. CASE Privy!onToggleTrustline \/ Privy!Dialog \/ Privy!onRefreshBalances
            \/ Privy!onCheckFaucet
  BY <1>2, <1>10 DEF Privy!onToggleTrustline, Privy!Dialog, Privy!onRefreshBalances,
                     Privy!onCheckFaucet, PageNext, Next, Buttons
<1>11. CASE Privy!PaymentResolves \/ Privy!ToggleResolves \/ Privy!ContributeResolves
            \/ Privy!Refresh
  BY <1>5, <1>6, <1>11 DEF Privy!PaymentResolves, Privy!ToggleResolves,
                           Privy!ContributeResolves, Privy!Refresh, PageNext, Next, Answers,
                           JobStep
<1>12. CASE Privy!onContribute
  <2>1. PICK i \in {"contribute", "fail-unchecked"} : Privy!Page!onContribute(i)
    BY <1>12 DEF Privy!onContribute
  <2>2. onContribute(i) /\ i \in Ids
    BY <1>5, <2>1 DEF onContribute, MayPress
  <2> QED BY <2>2 DEF PageNext, Next, Buttons
<1>13. CASE Privy!onLogout \/ Privy!BalancesEffect \/ Privy!SignedEffect
  BY <1>3, <1>7, <1>13 DEF Privy!onLogout, Privy!BalancesEffect, Privy!SignedEffect, PageNext,
                           Next, Buttons, Answers
<1>14. CASE Privy!SessionArrives \/ Privy!findStellarWallet \/ Privy!Environment
  BY <1>4, <1>5, <1>6, <1>8, <1>14 DEF Privy!SessionArrives, Privy!findStellarWallet,
                                       Privy!Environment, PageNext, Next, Answers, JobStep
<1> QED
  BY <1>9, <1>10, <1>11, <1>12, <1>13, <1>14 DEF Privy!Next

\* The Privy page takes steps of the page.
THEOREM PrivyPageIsOne ==
  ASSUME CreatesWallet = TRUE
  PROVE  Privy!Spec => PageSpec
<1>1. Privy!Init => Init
  BY DEF Privy!Init, Init, Privy!Page!Init, NoReading, Privy!Page!NoReading, NoJob,
                     Privy!Page!NoJob, NoEffect, Privy!Page!NoEffect
<1>2. [Privy!Next]_(Privy!vars) => [PageNext]_vars
  <2>1. Privy!Next => PageNext
    BY PrivyStep
  <2>2. UNCHANGED Privy!vars => UNCHANGED vars
    BY DEF Privy!vars, vars, net, session, page, stored
  <2> QED BY <2>1, <2>2
<1> QED BY <1>1, <1>2, PTL DEF Privy!Spec, PageSpec
=============================================================================
