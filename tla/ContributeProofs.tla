-------------------------- MODULE ContributeProofs --------------------------
(***************************************************************************)
(* Proofs about the calls that move money: each for any number of callers  *)
(* and accounts, any amounts, and a network that does as it likes between  *)
(* two steps of a call.                                                    *)
(***************************************************************************)
EXTENDS MCContribute, TLAPS

-----------------------------------------------------------------------------
(***************************************************************************)
(* What the state is made of.                                              *)
(***************************************************************************)

Lines == Nat \cup {NoLine}
Outcomes == {"none", "success", "failed"}
Transaction == [content : Content, signature : [by : Accounts, over : Content]]
Task == [at : Steps, op : {"contribute", "trust", "untrust"}, donor : Accounts, amount : Nat,
         checked : BOOLEAN, seen : {<<>>} \cup (Lines \X Lines),
         built : Content \cup {NoContent}, since : Nat, id : Nat, tries : Nat, result : Results]

NetTyped ==
  /\ line \in [Holders -> Lines] /\ seq \in [Accounts -> Nat]
  /\ sent \in Seq(Transaction) /\ outcome \in Seq(Outcomes) /\ Len(outcome) = Len(sent)
  /\ queue \subseteq 1 .. Len(sent) /\ now \in Nat
TaskTyped == task \in [Callers -> Task \cup {NoTask}]

-----------------------------------------------------------------------------
(***************************************************************************)
(* The inductive invariant.                                                *)
(***************************************************************************)

\* What waits in the queue is undecided.
QueuedIsOpen == \A i \in queue : outcome[i] = "none"

\* No transaction is two callers'.
OneEach == \A c, d \in Callers : task[c].id = task[d].id /\ task[c].id # 0 => c = d

\* A caller holds on to the transaction it handed over, and says ok only of one
\* that landed.
HoldsOn(t) ==
  /\ t.at \notin {"idle", "done"} => t.result = "none"
  /\ t.id # 0 => /\ t.at \in {"poll", "wait", "done"}
                 /\ t.id \in 1 .. Len(sent) /\ sent[t.id] = Signed(t)
  /\ t.at = "done" /\ t.result = "ok" => t.id # 0 /\ outcome[t.id] = "success"

\* What a pair of lines, as they were read, has to be for a contribution to settle.
Suffices(seen, amount) ==
  /\ seen \in Lines \X Lines
  /\ seen[1] # NoLine /\ seen[1] >= amount
  /\ seen[2] # NoLine \/ PoolIsContract

\* Which steps are whose.
OwnSteps(t) ==
  /\ t.at \in {"donor", "pool", "simulate", "send"} \/ t.checked => t.op = "contribute"
  /\ t.at = "submit" => t.op # "contribute"

\* What was read fits what is built of it.
ReadsFit(t) ==
  /\ t.at = "pool" => t.seen \in Lines \X Lines /\ t.seen[1] # NoLine /\ t.seen[1] >= t.amount
  /\ t.checked /\ t.at \in {"load", "simulate"} => Suffices(t.seen, t.amount)
  /\ t.at \in {"simulate", "sign", "send", "submit"} \/ t.id # 0 =>
       /\ t.built \in Content /\ t.built.source = t.donor /\ t.built.op = t.op
       /\ t.built.until <= t.since + Timeout
  /\ t.op = "contribute" /\ (t.at \in {"simulate", "sign", "send"} \/ t.id # 0) =>
       t.built.amount = t.amount
  /\ t.op = "contribute" /\ (t.at \in {"sign", "send"} \/ t.id # 0) =>
       t.built.prepared /\ Suffices(t.seen, t.amount)
  /\ t.op = "untrust" /\ (t.at \in {"sign", "submit"} \/ t.id # 0) =>
       /\ t.seen \in Lines \X Lines
       /\ t.built.amount = IF t.seen[1] = NoLine THEN 0 ELSE t.seen[1]

Follows(t) == HoldsOn(t) /\ OwnSteps(t) /\ ReadsFit(t)

Sound ==
  /\ NetTyped /\ TaskTyped /\ QueuedIsOpen /\ OneEach
  /\ \A c \in Callers : Follows(task[c])

-----------------------------------------------------------------------------
(***************************************************************************)
(* What a step does to the network and to the tasks.                       *)
(***************************************************************************)

LEMMA Initially == Init => Sound
<1> SUFFICES ASSUME Init PROVE Sound
  OBVIOUS
<1>1. NetTyped
  BY NetworkAssumption DEF Init, NetInit, NetTyped, Lines, Holders
<1>2. TaskTyped /\ \A c \in Callers : task[c] = NoTask
  BY DEF Init, TaskTyped
<1>3. NoTask.at = "idle" /\ NoTask.id = 0 /\ NoTask.op = "none" /\ ~NoTask.checked
  BY DEF NoTask
<1>4. Follows(NoTask)
  BY <1>3 DEF Follows, HoldsOn, OwnSteps, ReadsFit
<1>5. QueuedIsOpen /\ OneEach
  BY <1>2, <1>3 DEF Init, NetInit, QueuedIsOpen, OneEach
<1> QED BY <1>1, <1>2, <1>4, <1>5 DEF Sound

LEMMA Sets ==
  ASSUME TaskTyped, NEW c \in Callers, NEW u \in Task, Set(c, u)
  PROVE  /\ TaskTyped' /\ task'[c] = u
         /\ \A d \in Callers \ {c} : task'[d] = task[d]
  BY DEF TaskTyped, Set

LEMMA Appending ==
  ASSUME NEW S, NEW s \in Seq(S), NEW x \in S
  PROVE  /\ Append(s, x) \in Seq(S) /\ Len(Append(s, x)) = Len(s) + 1
         /\ Append(s, x)[Len(s) + 1] = x
         /\ \A i \in 1 .. Len(s) : Append(s, x)[i] = s[i]
  OBVIOUS

\* What the network takes goes to the end of what was sent, undecided.
LEMMA Enqueued ==
  ASSUME NetTyped, QueuedIsOpen, NEW tx \in Transaction, Enqueue(tx)
  PROVE  /\ NetTyped' /\ QueuedIsOpen'
         /\ Len(sent') = Len(sent) + 1 /\ sent'[Len(sent) + 1] = tx
         /\ outcome'[Len(sent) + 1] = "none"
         /\ \A i \in 1 .. Len(sent) : sent'[i] = sent[i] /\ outcome'[i] = outcome[i]
<1>1. /\ sent' \in Seq(Transaction) /\ Len(sent') = Len(sent) + 1
      /\ sent'[Len(sent) + 1] = tx /\ \A i \in 1 .. Len(sent) : sent'[i] = sent[i]
  BY Appending DEF NetTyped, Enqueue
<1>2. /\ outcome' \in Seq(Outcomes) /\ Len(outcome') = Len(sent) + 1
      /\ outcome'[Len(sent) + 1] = "none"
      /\ \A i \in 1 .. Len(sent) : outcome'[i] = outcome[i]
  BY Appending DEF NetTyped, Enqueue, Outcomes
<1>3. Len(sent) \in Nat
  BY DEF NetTyped
<1>4. queue' \subseteq 1 .. Len(sent')
  <2> DEFINE n == Len(sent)
             m == Len(sent')
  <2>1. n \in Nat /\ m = n + 1 /\ queue \subseteq 1 .. n /\ queue' = queue \cup {n + 1}
    BY <1>1, <1>3 DEF NetTyped, Enqueue
  <2> HIDE DEF n, m
  <2>2. queue' \subseteq 1 .. m
    BY <2>1
  <2> QED BY <2>2 DEF m
<1>6. NetTyped'
  BY <1>1, <1>2, <1>4 DEF NetTyped, Enqueue, chainVars
<1>5. QueuedIsOpen'
  BY <1>2, <1>3 DEF QueuedIsOpen, NetTyped, Enqueue
<1> QED BY <1>1, <1>2, <1>5, <1>6

\* A settled transaction moves lines and sequences, and decides itself alone.
LEMMA Applied ==
  ASSUME NetTyped, QueuedIsOpen, NEW i \in queue, ApplyQueued(i)
  PROVE  /\ NetTyped' /\ QueuedIsOpen' /\ UNCHANGED sent /\ outcome[i] = "none"
         /\ outcome'[i] \in {"success", "failed"}
         /\ \A j \in 1 .. Len(sent) : j # i => outcome'[j] = outcome[j]
<1> DEFINE t == sent[i].content
<1>1. i \in 1 .. Len(sent) /\ t \in Content
  <2>1. i \in 1 .. Len(sent)
    BY DEF NetTyped
  <2>2. sent[i] \in Transaction
    BY <2>1 DEF NetTyped
  <2> QED BY <2>1, <2>2 DEF Transaction
<1>2. outcome' \in Seq(Outcomes) /\ Len(outcome') = Len(outcome)
  BY <1>1 DEF ApplyQueued, NetTyped, Outcomes
<1>3. line' \in [Holders -> Lines]
  <2>1. t.source \in Holders /\ Pool \in Holders /\ t.source # Pool /\ t.amount \in Nat
    BY <1>1, NetworkAssumption DEF Content, Holders
  <2>2. \A h \in Holders : Held(h) \in Nat
    BY DEF Held, NetTyped, Lines
  <2>3. CASE Settles(t) /\ t.op = "contribute"
    <3>1. line[t.source] \in Nat /\ line[t.source] - t.amount \in Nat
      BY <2>1, <2>3 DEF Settles, NetTyped, Lines
    <3> QED BY <2>1, <2>2, <2>3, <3>1 DEF ApplyQueued, LineAfter, NetTyped, Lines
  <2>4. CASE ~(Settles(t) /\ t.op = "contribute")
    BY <2>1, <2>2, <2>4 DEF ApplyQueued, LineAfter, NetTyped, Lines
  <2> QED BY <2>3, <2>4
<1>4. seq' \in [Accounts -> Nat]
  BY <1>1 DEF ApplyQueued, NetTyped, Content
<1>5. NetTyped'
  BY <1>2, <1>3, <1>4 DEF NetTyped, ApplyQueued
<1>6. /\ outcome'[i] \in {"success", "failed"}
      /\ \A j \in 1 .. Len(sent) : j # i => outcome'[j] = outcome[j]
  BY <1>1 DEF ApplyQueued, NetTyped
<1> QED BY <1>5, <1>6 DEF QueuedIsOpen, ApplyQueued, NetTyped

-----------------------------------------------------------------------------
(***************************************************************************)
(* Steps of a caller.                                                      *)
(***************************************************************************)

Acts(c) == Press(c) \/ Step(c) \/ Reject(c) \/ AnswerLost(c)

\* The network is left alone, or is handed the transaction of the call.
Quiet(c) ==
  UNCHANGED netVars /\ (task'[c].id = task[c].id \/ (Press(c) /\ task'[c].id = 0))
HandsOver(c) ==
  /\ task[c].at \in {"send", "submit"} /\ task[c].id = 0
  /\ Signed(task[c]) \in Transaction /\ Enqueue(Signed(task[c]))
  /\ task'[c].id = Len(sent) + 1

Moves(c) ==
  /\ TaskTyped' /\ \A d \in Callers \ {c} : task'[d] = task[d]
  /\ Follows(task[c])' /\ task'[c].at # "idle"
  /\ Quiet(c) \/ HandsOver(c)

LEMMA QuietMoves ==
  ASSUME Sound, NEW c \in Callers, NEW u \in Task, Set(c, u), UNCHANGED netVars, Follows(u),
         u.at # "idle", u.id = task[c].id \/ (Press(c) /\ u.id = 0)
  PROVE  Moves(c)
<1>1. TaskTyped' /\ task'[c] = u /\ \A d \in Callers \ {c} : task'[d] = task[d]
  BY Sets DEF Sound
<1>2. Follows(task[c])'
  BY <1>1 DEF Follows, HoldsOn, OwnSteps, ReadsFit, Suffices, Signed, netVars
<1> QED BY <1>1, <1>2 DEF Moves, Quiet

\* A call may end without success at any moment.
LEMMA Ending ==
  ASSUME Sound, NEW c \in Callers, NEW result \in Results, Finish(c, result),
         task[c].at \notin {"idle", "done"},
         result = "ok" => task[c].id # 0 /\ outcome[task[c].id] = "success",
         UNCHANGED netVars
  PROVE  Moves(c)
<1> DEFINE t == task[c]
           u == [t EXCEPT !.at = "done", !.result = result]
<1>1. t \in Task /\ Follows(t)
  BY DEF Sound, TaskTyped, NoTask
<1>2. u \in Task /\ Set(c, u)
  BY <1>1 DEF Task, Finish, Steps
<1>3. /\ u.at = "done" /\ u.result = result /\ u.id = t.id /\ u.op = t.op /\ u.donor = t.donor
      /\ u.amount = t.amount /\ u.checked = t.checked /\ u.seen = t.seen /\ u.built = t.built
      /\ u.since = t.since
  BY <1>1 DEF Task
<1> HIDE DEF t, u
<1>4. Follows(u)
  BY <1>1, <1>3 DEF Follows, HoldsOn, OwnSteps, ReadsFit, Signed, t
<1> QED BY <1>2, <1>3, <1>4, QuietMoves DEF t

LEMMA Presses ==
  ASSUME Sound, NEW c \in Callers, NEW op \in {"contribute", "trust", "untrust"},
         NEW donor \in Accounts, NEW amount \in Nat, NEW skip \in BOOLEAN,
         Begin(c, op, donor, amount, skip), Press(c)
  PROVE  Moves(c)
<1> DEFINE check == op = "contribute" /\ ~skip
           u == [NoTask EXCEPT !.op = op, !.donor = donor, !.amount = amount,
                               !.checked = check, !.at = IF check THEN "donor" ELSE "load"]
<1>1. Set(c, u) /\ UNCHANGED netVars
  BY DEF Begin
<1>2. /\ u.at = IF check THEN "donor" ELSE "load"
      /\ u.op = op /\ u.checked = check /\ u.id = 0 /\ u.result = "none"
  BY DEF NoTask
<1>3. u \in Task
  BY DEF NoTask, Task, Steps, Results
<1> HIDE DEF u
<1>4. Follows(u)
  BY <1>2 DEF Follows, HoldsOn, OwnSteps, ReadsFit
<1> QED BY <1>1, <1>2, <1>3, <1>4, QuietMoves

LEMMA HandingOver ==
  ASSUME Sound, NEW c \in Callers, NEW at \in {"poll", "wait", "done"},
         NEW result \in Results \ {"ok"}, task[c].at \in {"send", "submit"},
         at # "done" => result = "none", Enqueue(Signed(task[c])),
         Set(c, [task[c] EXCEPT !.at = at, !.result = result, !.id = Len(sent) + 1])
  PROVE  Moves(c)
<1> DEFINE t == task[c]
           n == Len(sent) + 1
           u == [t EXCEPT !.at = at, !.result = result, !.id = n]
<1>1. t \in Task /\ Follows(t) /\ t.id = 0 /\ n \in Nat /\ n # 0
  BY DEF Sound, TaskTyped, NoTask, Follows, HoldsOn, NetTyped
<1>2. t.built \in Content /\ t.built.source = t.donor
  BY <1>1 DEF Follows, ReadsFit
<1>3. Signed(t) \in Transaction
  BY <1>1, <1>2 DEF Signed, Transaction, Task
<1>4. u \in Task /\ Set(c, u)
  BY <1>1 DEF Task, Steps
<1>5. /\ u.at = at /\ u.result = result /\ u.id = n /\ u.op = t.op /\ u.donor = t.donor
      /\ u.amount = t.amount /\ u.checked = t.checked /\ u.seen = t.seen /\ u.built = t.built
      /\ u.since = t.since
  BY <1>1 DEF Task
<1> HIDE DEF u
<1>6. n \in 1 .. Len(sent') /\ sent'[n] = Signed(t)
  BY <1>1, <1>3, Enqueued DEF Sound
<1>7. TaskTyped' /\ task'[c] = u /\ \A d \in Callers \ {c} : task'[d] = task[d]
  BY <1>4, Sets DEF Sound
<1>8. HoldsOn(task[c])' /\ OwnSteps(task[c])'
  BY <1>1, <1>5, <1>6, <1>7 DEF Follows, HoldsOn, OwnSteps, Signed
<1>9. ReadsFit(task[c])'
  BY <1>1, <1>5, <1>7 DEF Follows, OwnSteps, ReadsFit, Suffices
<1> QED BY <1>1, <1>3, <1>5, <1>7, <1>8, <1>9 DEF Moves, HandsOver, Follows

LEMMA Preflights ==
  ASSUME Sound, NEW c \in Callers, PreflightDonor(c) \/ PreflightPool(c)
  PROVE  Moves(c)
<1> DEFINE t == task[c]
<1>1. t \in Task /\ Follows(t) /\ t.at \in {"donor", "pool"} /\ UNCHANGED netVars
  BY DEF Sound, TaskTyped, NoTask, PreflightDonor, PreflightPool
<1>2. t.id = 0 /\ t.result = "none" /\ t.op = "contribute"
  BY <1>1 DEF Follows, HoldsOn, OwnSteps
<1>3. t.donor \in Holders /\ Pool \in Holders /\ line[t.donor] \in Lines /\ line[Pool] \in Lines
  BY <1>1 DEF Task, Sound, NetTyped, Holders
<1>4. CASE \E result \in {"unexpected", "missing-trustline", "insufficient-balance"} :
             Finish(c, result)
  BY <1>1, <1>4, Ending DEF Results
<1>5. CASE /\ PreflightDonor(c) /\ findUsdcLine(t.donor) /\ ~(line[t.donor] < t.amount)
           /\ Set(c, [t EXCEPT !.at = IF PoolIsContract THEN "load" ELSE "pool",
                               !.seen = <<line[t.donor], line[Pool]>>])
  <2> DEFINE seen == <<line[t.donor], line[Pool]>>
             u == [t EXCEPT !.at = IF PoolIsContract THEN "load" ELSE "pool", !.seen = seen]
  <2>1. seen \in Lines \X Lines /\ seen[1] # NoLine /\ seen[1] >= t.amount
    BY <1>1, <1>3, <1>5 DEF findUsdcLine, Task, Lines
  <2> HIDE DEF seen
  <2>2. u \in Task /\ Set(c, u)
    BY <1>1, <1>5, <2>1 DEF Task, Steps, seen
  <2>3. /\ u.at = IF PoolIsContract THEN "load" ELSE "pool"
        /\ u.seen = seen /\ u.id = 0 /\ u.result = "none" /\ u.op = "contribute"
        /\ u.amount = t.amount /\ u.checked = t.checked
    BY <1>1, <1>2 DEF Task
  <2> HIDE DEF u, t
  <2>4. Follows(u)
    BY <1>1, <1>2, <2>1, <2>3 DEF Follows, HoldsOn, OwnSteps, ReadsFit, Suffices
  <2> QED BY <1>1, <1>2, <2>2, <2>3, <2>4, QuietMoves DEF t
<1>6. CASE /\ PreflightPool(c) /\ findUsdcLine(Pool)
           /\ Set(c, [t EXCEPT !.at = "load", !.seen[2] = line[Pool]])
  <2> DEFINE seen == [t.seen EXCEPT ![2] = line[Pool]]
             u == [t EXCEPT !.at = "load", !.seen = seen]
  <2>1. t.seen \in Lines \X Lines /\ t.seen[1] # NoLine /\ t.seen[1] >= t.amount
    BY <1>1, <1>6 DEF Follows, ReadsFit, PreflightPool
  <2>2. seen \in Lines \X Lines /\ seen[1] = t.seen[1] /\ seen[2] # NoLine
    BY <1>3, <1>6, <2>1 DEF findUsdcLine
  <2> HIDE DEF seen
  <2>3. u \in Task /\ Set(c, u)
    BY <1>1, <1>6, <2>2 DEF Task, Steps, seen
  <2>4. /\ u.at = "load" /\ u.seen = seen /\ u.id = 0 /\ u.result = "none"
        /\ u.op = "contribute" /\ u.amount = t.amount /\ u.checked = t.checked
    BY <1>1, <1>2 DEF Task
  <2> HIDE DEF u, t
  <2>5. Follows(u)
    BY <1>1, <1>2, <2>1, <2>2, <2>4 DEF Follows, HoldsOn, OwnSteps, ReadsFit, Suffices
  <2> QED BY <1>1, <1>2, <2>3, <2>4, <2>5, QuietMoves DEF t
<1> QED BY <1>4, <1>5, <1>6 DEF PreflightDonor, PreflightPool

LEMMA Loads ==
  ASSUME Sound, NEW c \in Callers, Load(c)
  PROVE  Moves(c)
<1> DEFINE t == task[c]
           seen == IF t.op = "contribute" THEN t.seen ELSE <<line[t.donor], line[Pool]>>
           at == IF t.op = "contribute" THEN "simulate" ELSE "sign"
           built(until) == [source |-> t.donor, op |-> t.op, amount |-> AmountOf(t),
                            seq |-> seq[t.donor] + 1, prepared |-> FALSE, until |-> until]
           loaded(until) == [t EXCEPT !.built = built(until), !.since = now, !.seen = seen,
                                      !.at = at]
<1>1. t \in Task /\ Follows(t) /\ t.at = "load" /\ UNCHANGED netVars /\ now \in Nat
  <2>1. t.at = "load" /\ UNCHANGED netVars
    BY DEF Load
  <2> QED BY <2>1 DEF Sound, NetTyped, TaskTyped, NoTask
<1>2. t.id = 0 /\ t.result = "none"
  BY <1>1 DEF Follows, HoldsOn
<1>3. t.donor \in Holders /\ Pool \in Holders /\ line[t.donor] \in Lines /\ line[Pool] \in Lines
  BY <1>1 DEF Task, Sound, NetTyped, Holders
<1>4. CASE Finish(c, "unexpected")
  BY <1>1, <1>4, Ending DEF Results
<1>5. ASSUME NEW until \in TimeBounds, Set(c, loaded(until))
      PROVE  Moves(c)
  <2> DEFINE tx == built(until)
             u == [t EXCEPT !.built = tx, !.since = now, !.seen = seen, !.at = at]
  <2>13. Set(c, u)
    BY <1>5
  <2>1. AmountOf(t) \in Nat
    BY <1>1, <1>3 DEF AmountOf, Held, Task, Lines
  <2>2. until \in Nat /\ until <= now + Timeout
    BY <1>1, TimeoutAssumption DEF TimeBounds
  <2>12. tx \in Content
    BY <1>1, <2>1, <2>2 DEF Content, Task, Op, Sound, NetTyped
  <2>3. seen \in {<<>>} \cup (Lines \X Lines)
    BY <1>1, <1>3 DEF Task
  <2>4. t.op # "contribute" =>
          seen \in Lines \X Lines /\ seen[1] = line[t.donor]
    BY <1>3
  <2>5. tx.source = t.donor /\ tx.op = t.op /\ tx.amount = AmountOf(t) /\ tx.until = until
    OBVIOUS
  <2> HIDE DEF tx, seen, built, loaded
  <2>6. u \in Task
    BY <1>1, <2>12, <2>3 DEF Task, Steps
  <2>7. /\ u.at = at /\ u.seen = seen /\ u.built = tx /\ u.since = now
        /\ u.id = 0 /\ u.result = "none"
        /\ u.op = t.op /\ u.donor = t.donor /\ u.amount = t.amount /\ u.checked = t.checked
    BY <1>1, <1>2 DEF Task
  <2> HIDE DEF u, t
  <2>8. HoldsOn(u) /\ OwnSteps(u)
    BY <1>1, <2>7 DEF Follows, HoldsOn, OwnSteps
  <2>9. t.op \in {"contribute", "trust", "untrust"}
    BY <1>1 DEF Task
  <2>10. CASE t.op = "contribute"
    <3>1. AmountOf(t) = t.amount /\ seen = t.seen
      BY <2>10 DEF AmountOf, seen
    <3> QED
      BY <1>1, <1>2, <2>13, <2>2, <2>12, <2>5, <2>6, <2>7, <2>8, <2>10, <3>1, QuietMoves
         DEF Follows, ReadsFit, t
  <2>11. CASE t.op # "contribute"
    <3>1. t.op = "untrust" => AmountOf(t) = IF seen[1] = NoLine THEN 0 ELSE seen[1]
      BY <2>4, <2>11 DEF AmountOf, Held
    <3>2. ~t.checked
      BY <1>1, <2>11 DEF Follows, OwnSteps
    <3>3. ReadsFit(u)
      BY <2>2, <2>12, <2>4, <2>5, <2>7, <2>11, <3>1, <3>2 DEF ReadsFit
    <3> QED BY <1>1, <1>2, <2>13, <2>6, <2>7, <2>8, <2>11, <3>3, QuietMoves DEF Follows, t
  <2> QED BY <2>10, <2>11
<1> QED BY <1>4, <1>5 DEF Load

LEMMA Simulates ==
  ASSUME Sound, NEW c \in Callers, Simulate(c)
  PROVE  Moves(c)
<1> DEFINE t == task[c]
           seen == <<line[t.donor], line[Pool]>>
           built == [t.built EXCEPT !.prepared = TRUE]
           u == [t EXCEPT !.built = built, !.at = "sign", !.seen = seen]
<1>1. t \in Task /\ Follows(t) /\ t.at = "simulate" /\ UNCHANGED netVars
  BY DEF Sound, TaskTyped, NoTask, Simulate
<1>2. t.id = 0 /\ t.result = "none" /\ t.op = "contribute" /\ t.built \in Content
      /\ t.built.source = t.donor /\ t.built.op = t.op /\ t.built.amount = t.amount
      /\ t.built.until <= t.since + Timeout
  BY <1>1 DEF Follows, HoldsOn, OwnSteps, ReadsFit
<1>3. t.donor \in Holders /\ Pool \in Holders /\ line[t.donor] \in Lines /\ line[Pool] \in Lines
  BY <1>1 DEF Task, Sound, NetTyped, Holders
<1>4. CASE Finish(c, "simulation-failed")
  BY <1>1, <1>4, Ending DEF Results
<1>5. CASE Settles(t.built) /\ Set(c, u)
  <2>1. Suffices(seen, t.amount)
    BY <1>2, <1>3, <1>5 DEF Settles, CanReceive, Suffices
  <2>2. /\ built \in Content /\ built.source = t.donor /\ built.op = t.op
        /\ built.amount = t.amount /\ built.prepared /\ built.until = t.built.until
    BY <1>2 DEF Content
  <2>3. seen \in Lines \X Lines
    BY <1>3
  <2> HIDE DEF seen, built
  <2>4. u \in Task
    BY <1>1, <2>2, <2>3 DEF Task, Steps
  <2>5. /\ u.at = "sign" /\ u.seen = seen /\ u.built = built /\ u.since = t.since /\ u.id = 0
        /\ u.result = "none" /\ u.op = "contribute" /\ u.donor = t.donor /\ u.amount = t.amount
        /\ u.checked = t.checked
    BY <1>1, <1>2 DEF Task
  <2> HIDE DEF u, t
  <2>6. Follows(u)
    BY <1>1, <1>2, <2>1, <2>2, <2>5 DEF Follows, HoldsOn, OwnSteps, ReadsFit
  <2> QED BY <1>1, <1>2, <1>5, <2>4, <2>5, <2>6, QuietMoves DEF t
<1> QED BY <1>1, <1>4, <1>5 DEF Simulate, Task

LEMMA Signs ==
  ASSUME Sound, NEW c \in Callers, Sign(c)
  PROVE  Moves(c)
<1> DEFINE t == task[c]
           u == [t EXCEPT !.at = IF t.op = "contribute" THEN "send" ELSE "submit"]
<1>1. t \in Task /\ Follows(t) /\ t.at = "sign" /\ UNCHANGED netVars /\ Set(c, u)
  BY DEF Sound, TaskTyped, NoTask, Sign
<1>2. t.id = 0 /\ t.result = "none"
  BY <1>1 DEF Follows, HoldsOn
<1>3. u \in Task
  BY <1>1 DEF Task, Steps
<1>4. /\ u.at = IF t.op = "contribute" THEN "send" ELSE "submit"
      /\ u.seen = t.seen /\ u.built = t.built /\ u.since = t.since /\ u.id = 0 /\ u.result = "none"
      /\ u.op = t.op /\ u.donor = t.donor /\ u.amount = t.amount /\ u.checked = t.checked
  BY <1>1, <1>2 DEF Task
<1> HIDE DEF u, t
<1>5. Follows(u)
  BY <1>1, <1>2, <1>4 DEF Follows, HoldsOn, OwnSteps, ReadsFit
<1> QED BY <1>1, <1>2, <1>3, <1>4, <1>5, QuietMoves DEF t

\* Another look, or a transaction the network says to send again.
LEMMA Polling ==
  ASSUME Sound, NEW c \in Callers, NEW tries \in Nat, UNCHANGED netVars,
         task[c].at \in {"send", "poll"},
         Set(c, [task[c] EXCEPT !.at = "poll", !.tries = tries])
  PROVE  Moves(c)
<1> DEFINE t == task[c]
           u == [t EXCEPT !.at = "poll", !.tries = tries]
<1>1. t \in Task /\ Follows(t) /\ Set(c, u)
  BY DEF Sound, TaskTyped, NoTask
<1>2. u \in Task
  BY <1>1 DEF Task, Steps
<1>3. /\ u.at = "poll" /\ u.seen = t.seen /\ u.built = t.built /\ u.since = t.since /\ u.id = t.id
      /\ u.result = t.result /\ u.op = t.op /\ u.donor = t.donor /\ u.amount = t.amount
      /\ u.checked = t.checked
  BY <1>1 DEF Task
<1> HIDE DEF u
<1>4. Follows(u)
  BY <1>1, <1>3 DEF Follows, HoldsOn, OwnSteps, ReadsFit, Signed
<1> QED BY <1>1, <1>2, <1>3, <1>4, QuietMoves

LEMMA Sends ==
  ASSUME Sound, NEW c \in Callers, Send(c)
  PROVE  Moves(c)
<1>1. task[c] \in Task /\ Follows(task[c]) /\ task[c].at = "send"
  BY DEF Sound, TaskTyped, NoTask, Send
<1>2. CASE Finish(c, "submission-failed") /\ UNCHANGED netVars
  BY <1>1, <1>2, Ending DEF Results
<1>3. CASE /\ Enqueue(Signed(task[c]))
           /\ Set(c, [task[c] EXCEPT !.at = "poll", !.id = Len(sent) + 1])
  <2>1. [task[c] EXCEPT !.at = "poll", !.id = Len(sent) + 1]
          = [task[c] EXCEPT !.at = "poll", !.result = "none", !.id = Len(sent) + 1]
    BY <1>1 DEF Task, Follows, HoldsOn
  <2> QED BY <1>1, <1>3, <2>1, HandingOver DEF Results
<1>4. CASE Set(c, [task[c] EXCEPT !.at = "poll"]) /\ UNCHANGED netVars
  <2>1. [task[c] EXCEPT !.at = "poll"]
          = [task[c] EXCEPT !.at = "poll", !.tries = task[c].tries]
    BY <1>1 DEF Task
  <2>2. task[c].tries \in Nat
    BY <1>1 DEF Task
  <2> QED BY <1>1, <1>4, <2>1, <2>2, Polling
<1> QED BY <1>2, <1>3, <1>4 DEF Send, Report

LEMMA Polls ==
  ASSUME Sound, NEW c \in Callers, Poll(c)
  PROVE  Moves(c)
<1>1. task[c] \in Task /\ Follows(task[c]) /\ task[c].at = "poll"
  BY DEF Sound, TaskTyped, NoTask, Poll
<1>2. CASE Seen(c) = "success" /\ Report(c, "ok")
  BY <1>1, <1>2, Ending DEF Results, Report, Seen
<1>3. CASE Report(c, "submission-failed")
  BY <1>1, <1>3, Ending DEF Results, Report
<1>4. CASE Set(c, [task[c] EXCEPT !.tries = @ + 1]) /\ UNCHANGED netVars
  <2>1. [task[c] EXCEPT !.tries = @ + 1]
          = [task[c] EXCEPT !.at = "poll", !.tries = task[c].tries + 1]
    BY <1>1 DEF Task
  <2>2. task[c].tries + 1 \in Nat
    BY <1>1 DEF Task
  <2> QED BY <1>1, <1>4, <2>1, <2>2, Polling
<1> QED BY <1>2, <1>3, <1>4 DEF Poll

LEMMA Submits ==
  ASSUME Sound, NEW c \in Callers, Submit(c) \/ Settled(c) \/ GaveUp(c)
  PROVE  Moves(c)
<1>1. task[c] \in Task /\ Follows(task[c]) /\ task[c].at \in {"submit", "wait"}
  BY DEF Sound, TaskTyped, NoTask, Submit, Settled, GaveUp
<1>2. CASE Finish(c, "submission-failed") /\ UNCHANGED netVars
  BY <1>1, <1>2, Ending DEF Results
<1>3. CASE Submit(c) /\ Enqueue(Signed(task[c]))
           /\ Set(c, [task[c] EXCEPT !.at = "wait", !.id = Len(sent) + 1])
  <2>1. [task[c] EXCEPT !.at = "wait", !.id = Len(sent) + 1]
          = [task[c] EXCEPT !.at = "wait", !.result = "none", !.id = Len(sent) + 1]
    BY <1>1 DEF Task, Follows, HoldsOn
  <2> QED BY <1>1, <1>3, <2>1, HandingOver DEF Results, Submit
<1>4. CASE Seen(c) = "success" /\ Report(c, "ok")
  BY <1>1, <1>4, Ending DEF Results, Report, Seen
<1> QED BY <1>1, <1>2, <1>3, <1>4 DEF Submit, Settled, GaveUp, Report, Task

LEMMA CallersMove ==
  ASSUME Sound, NEW c \in Callers, Acts(c)
  PROVE  Moves(c)
<1>1. CASE Press(c)
  BY <1>1, Presses, AmountsAssumption
     DEF Press, contribute, addTrustline, removeTrustline
<1>2. CASE Reject(c)
  BY <1>2, Ending DEF Reject, Report, Results
<1>3. CASE AnswerLost(c)
  <2> DEFINE result == IF task[c].at = "send" THEN "unexpected" ELSE "submission-failed"
  <2>1. task[c] \in Task
    BY <1>3 DEF Sound, TaskTyped, NoTask, AnswerLost
  <2>2. [task[c] EXCEPT !.id = Len(sent) + 1, !.at = "done", !.result = result]
          = [task[c] EXCEPT !.at = "done", !.result = result, !.id = Len(sent) + 1]
    BY <2>1 DEF Task
  <2> QED BY <1>3, <2>2, HandingOver DEF AnswerLost, Results
<1> QED
  BY <1>1, <1>2, <1>3, Preflights, Loads, Simulates, Signs, Sends, Polls, Submits DEF Acts, Step

-----------------------------------------------------------------------------
(***************************************************************************)
(* The invariant is inductive.                                             *)
(***************************************************************************)

\* What the network does later disturbs nobody who is not acting.
LEMMA StillFollows ==
  ASSUME NetTyped, NEW t, Follows(t),
         \A i \in 1 .. Len(sent) :
           /\ i \in 1 .. Len(sent') /\ sent'[i] = sent[i]
           /\ outcome[i] = "success" => outcome'[i] = "success"
  PROVE  Follows(t)'
<1>1. HoldsOn(t)'
  BY DEF Follows, HoldsOn, Signed
<1> QED BY <1>1 DEF Follows, OwnSteps, ReadsFit, Suffices

LEMMA NetworkMoves ==
  ASSUME Sound, NetworkStep \/ (\E a \in Accounts : Friendbot(a)), UNCHANGED task
  PROVE  Sound'
<1> DEFINE Persists ==
             \A i \in 1 .. Len(sent) :
               /\ i \in 1 .. Len(sent') /\ sent'[i] = sent[i]
               /\ outcome[i] = "success" => outcome'[i] = "success"
<1>1. ASSUME NEW i \in queue, ApplyQueued(i)
      PROVE  NetTyped' /\ QueuedIsOpen' /\ Persists
  BY <1>1, Applied DEF Sound
<1>2. ASSUME NEW i \in queue, DropQueued(i)
      PROVE  NetTyped' /\ QueuedIsOpen' /\ Persists
  BY <1>2 DEF DropQueued, chainVars, Sound, NetTyped, QueuedIsOpen
<1>3. ASSUME NEW a \in Accounts, Receive(a) \/ ElsewhereSpends(a) \/ Friendbot(a)
      PROVE  NetTyped' /\ QueuedIsOpen' /\ Persists
  <2>1. line' \in [Holders -> Lines] /\ seq' \in [Accounts -> Nat]
    <3>1. /\ line \in [Holders -> Lines] /\ seq \in [Accounts -> Nat]
          /\ line[a] \in Nat \/ line[a] = NoLine
      BY DEF Sound, NetTyped, Holders, Lines
    <3>2. CASE Receive(a)
      <4> DEFINE more == line[a] + 1
      <4>1. more \in Lines
        BY <3>1, <3>2 DEF Receive, Lines
      <4>2. line' = [line EXCEPT ![a] = more] /\ seq' = seq
        BY <3>2 DEF Receive
      <4> HIDE DEF more
      <4> QED BY <3>1, <4>1, <4>2
    <3>3. CASE ElsewhereSpends(a)
      <4> DEFINE left == IF line[a] = NoLine THEN 0
                         ELSE IF line[a] = 0 THEN NoLine ELSE line[a] - 1
      <4>1. left \in Lines
        BY <3>1 DEF Lines
      <4>2. line' = [line EXCEPT ![a] = left] /\ seq' = [seq EXCEPT ![a] = @ + 1]
        BY <3>3 DEF ElsewhereSpends
      <4> HIDE DEF left
      <4>3. line' \in [Holders -> Lines]
        BY <3>1, <4>1, <4>2
      <4>4. seq' \in [Accounts -> Nat]
        BY <3>1, <4>2
      <4> QED BY <4>3, <4>4
    <3>4. CASE Friendbot(a)
      <4>1. line' = line /\ seq' = seq
        BY <3>4 DEF Friendbot
      <4> QED BY <3>1, <4>1
    <3> QED BY <1>3, <3>2, <3>3, <3>4
  <2>2. UNCHANGED <<now, sent, queue, outcome>>
    BY <1>3 DEF Receive, ElsewhereSpends, Friendbot
  <2> QED BY <2>1, <2>2 DEF Sound, NetTyped, QueuedIsOpen
<1>6. ASSUME PassTime
      PROVE  NetTyped' /\ QueuedIsOpen' /\ Persists
  BY <1>6 DEF PassTime, Sound, NetTyped, QueuedIsOpen
<1>4. NetTyped' /\ QueuedIsOpen' /\ Persists
  BY <1>1, <1>2, <1>3, <1>6 DEF NetworkStep
<1>5. \A c \in Callers : Follows(task[c])'
  BY <1>4, StillFollows DEF Sound
<1> QED BY <1>4, <1>5 DEF Sound, TaskTyped, OneEach

LEMMA Remains ==
  ASSUME Sound, [Next]_vars
  PROVE  Sound'
<1>1. ASSUME NEW c \in Callers, Acts(c)
      PROVE  Sound'
  <2>1. Moves(c)
    BY <1>1, CallersMove
  <2>2. /\ NetTyped' /\ QueuedIsOpen'
        /\ \A i \in 1 .. Len(sent) :
             /\ i \in 1 .. Len(sent') /\ sent'[i] = sent[i] /\ outcome'[i] = outcome[i]
    <3>1. CASE Quiet(c)
      BY <3>1 DEF Quiet, netVars, Sound, NetTyped, QueuedIsOpen
    <3>2. CASE HandsOver(c)
      <4>1. /\ NetTyped' /\ QueuedIsOpen' /\ Len(sent') = Len(sent) + 1
            /\ \A i \in 1 .. Len(sent) : sent'[i] = sent[i] /\ outcome'[i] = outcome[i]
        BY <3>2, Enqueued DEF HandsOver, Sound
      <4>2. \A i \in 1 .. Len(sent) : i \in 1 .. Len(sent')
        BY <4>1 DEF Sound, NetTyped
      <4> QED BY <4>1, <4>2
    <3> QED BY <2>1, <3>1, <3>2 DEF Moves
  <2>3. \A d \in Callers \ {c} : Follows(task[d])'
    <3>1. ASSUME NEW d \in Callers \ {c}
          PROVE  Follows(task[d])'
      <4>1. task'[d] = task[d]
        BY <2>1 DEF Moves
      <4>2. Follows(task[d])
        BY DEF Sound
      <4> QED
        BY <2>2, <4>1, <4>2 DEF Follows, HoldsOn, OwnSteps, ReadsFit, Suffices, Signed
    <3> QED BY <3>1
  <2>4. OneEach'
    <3>1. \A d \in Callers : task[d].id # 0 => task[d].id \in 1 .. Len(sent)
      BY DEF Sound, Follows, HoldsOn
    <3>2. \A d \in Callers : task'[d].id \in {0, task[d].id, Len(sent) + 1}
      BY <2>1 DEF Moves, Quiet, HandsOver
    <3>3. \A d \in Callers \ {c} : task'[d].id = task[d].id
      BY <2>1 DEF Moves
    <3>4. Len(sent) \in Nat
      BY DEF Sound, NetTyped
    <3>5. \A d \in Callers \ {c} : task'[d].id # 0 => task'[d].id # Len(sent) + 1
      BY <3>1, <3>3, <3>4
    <3>6. task'[c].id \in {0, task[c].id, Len(sent) + 1}
      BY <3>2
    <3> QED BY <3>3, <3>5, <3>6 DEF Sound, OneEach
  <2> QED BY <2>1, <2>2, <2>3, <2>4 DEF Sound, Moves
<1>2. CASE NetworkStep /\ UNCHANGED task
  BY <1>2, NetworkMoves
<1>3. CASE \E a \in Accounts : Friendbot(a) /\ UNCHANGED task
  BY <1>3, NetworkMoves
<1>4. CASE UNCHANGED vars
  BY <1>4
     DEF vars, netVars, Sound, NetTyped, TaskTyped, QueuedIsOpen, OneEach, Follows, HoldsOn,
         OwnSteps, ReadsFit, Suffices, Signed
<1> QED BY <1>1, <1>2, <1>3, <1>4 DEF Next, Acts

LEMMA AlwaysSound == Spec => []Sound
<1>1. Sound /\ [Next]_vars => Sound'
  BY Remains
<1> QED BY <1>1, Initially, PTL DEF Spec

-----------------------------------------------------------------------------
(***************************************************************************)
(* The action properties.                                                  *)
(***************************************************************************)

\* Only its own steps change a task.
LEMMA WhoActs ==
  ASSUME Sound, [Next]_vars, NEW c \in Callers
  PROVE  task'[c] = task[c] \/ Acts(c)
<1>1. ASSUME NEW d \in Callers, Acts(d)
      PROVE  task'[c] = task[c] \/ Acts(c)
  <2>1. \A e \in Callers \ {d} : task'[e] = task[e]
    BY <1>1, CallersMove DEF Moves
  <2> QED BY <1>1, <2>1
<1> QED BY <1>1 DEF Next, Acts, vars

\* A settled result is one the ledger gave, to a transaction in its queue.
LEMMA WhoSettles ==
  ASSUME Sound, [Next]_vars, NEW i \in 1 .. Len(sent), outcome'[i] # outcome[i]
  PROVE  i \in queue /\ ApplyQueued(i)
<1>1. ASSUME NEW d \in Callers, Acts(d)
      PROVE  FALSE
  <2>1. Quiet(d) \/ HandsOver(d)
    BY <1>1, CallersMove DEF Moves
  <2>2. CASE HandsOver(d)
    BY <2>2, Enqueued DEF HandsOver, Sound
  <2> QED BY <2>1, <2>2 DEF Quiet, netVars
<1>2. ASSUME NEW j \in queue, ApplyQueued(j)
      PROVE  i \in queue /\ ApplyQueued(i)
  <2>1. i = j
    BY <1>2, Applied DEF Sound
  <2> QED BY <1>2, <2>1
<1>3. ASSUME NEW a \in Accounts, Receive(a) \/ ElsewhereSpends(a) \/ Friendbot(a)
      PROVE  FALSE
  <2>1. UNCHANGED outcome
    BY <1>3 DEF Receive, ElsewhereSpends, Friendbot
  <2> QED BY <2>1
<1>4. ASSUME (\E j \in queue : DropQueued(j)) \/ PassTime
      PROVE  FALSE
  BY <1>4 DEF DropQueued, PassTime
<1> QED
  BY <1>1, <1>2, <1>3, <1>4 DEF Next, Acts, NetworkStep, vars, netVars

\* A call that passed the preflight is turned down by the simulation only when
\* the donor's or the pool's line changed in between (contribute.ts:140-146).
THEOREM PreflightAlwaysForesees == Spec => PreflightForesees
<1>1. ASSUME Sound, [Next]_vars, NEW c \in Callers,
             task[c].at = "simulate", task[c].checked,
             task'[c].result = "simulation-failed"
      PROVE  Moved(c)
  <2> DEFINE t == task[c]
  <2>1. t \in Task /\ Follows(t)
    BY <1>1 DEF Sound, TaskTyped, NoTask
  <2>2. t.result = "none" /\ t.op = "contribute" /\ Suffices(t.seen, t.amount)
        /\ t.built.source = t.donor /\ t.built.op = t.op /\ t.built.amount = t.amount
    BY <1>1, <2>1 DEF Follows, HoldsOn, OwnSteps, ReadsFit
  <2>3. Acts(c)
    BY <1>1, <2>2, WhoActs
  <2>4. ~Reject(c)
    BY <1>1, <2>1 DEF Reject, Report, Finish, Set, Sound, TaskTyped, Task
  <2>5. Simulate(c)
    BY <1>1, <2>3, <2>4
       DEF Acts, Press, contribute, addTrustline, removeTrustline, Begin, Step, AnswerLost,
           PreflightDonor, PreflightPool, Load, Sign, Send, Poll, Submit, Settled, GaveUp
  <2>6. ~Settles(t.built)
    BY <1>1, <2>1, <2>2, <2>5 DEF Simulate, Set, Sound, TaskTyped, Task
  <2> QED BY <2>2, <2>6 DEF Moved, Settles, Suffices, CanReceive
<1>2. Sound /\ [Next]_vars =>
        \A c \in Callers :
           /\ task[c].at = "simulate" /\ task[c].checked
           /\ task'[c].result = "simulation-failed"
           => Moved(c)
  BY <1>1
<1> QED BY <1>2, AlwaysSound, PTL DEF Spec, PreflightForesees

\* A transaction the code built from what it had read is taken down by the ledger
\* only for what arrived or left in between (contribute.ts:94-98).
THEOREM AlwaysFailsOnlyIfMoved == Spec => FailsOnlyIfMoved
<1>1. ASSUME Sound, [Next]_vars, NEW c \in Callers,
             task[c].id # 0, Seen(c) = "none", outcome'[task[c].id] = "failed",
             task[c].op = "untrust" => task[c].seen[1] # NoLine
      PROVE  Moved(c)
  <2> DEFINE t == task[c]
             i == t.id
  <2>1. t \in Task /\ Follows(t)
    BY <1>1 DEF Sound, TaskTyped, NoTask
  <2>2. /\ i \in 1 .. Len(sent) /\ outcome[i] = "none" /\ sent[i].content = t.built
        /\ t.built.source = t.donor /\ t.built.op = t.op
    BY <1>1, <2>1 DEF Follows, HoldsOn, ReadsFit, Signed, Seen
  <2>3. i \in queue /\ ApplyQueued(i)
    BY <1>1, <2>2, WhoSettles
  <2>4. ~Settles(t.built)
    BY <1>1, <2>2, <2>3 DEF ApplyQueued, Sound, NetTyped
  <2>5. CASE t.op = "contribute"
    BY <1>1, <2>1, <2>2, <2>4, <2>5
       DEF Follows, ReadsFit, Moved, Settles, Suffices, CanReceive
  <2>6. CASE t.op = "untrust"
    BY <1>1, <2>1, <2>2, <2>4, <2>6 DEF Follows, ReadsFit, Moved, Settles
  <2>7. CASE t.op = "trust"
    BY <2>2, <2>4, <2>7 DEF Settles
  <2> QED BY <2>1, <2>5, <2>6, <2>7 DEF Task
<1>2. Sound /\ [Next]_vars =>
        \A c \in Callers :
           /\ task[c].id # 0 /\ Seen(c) = "none" /\ outcome'[task[c].id] = "failed"
           /\ task[c].op = "untrust" => task[c].seen[1] # NoLine
           => Moved(c)
  BY <1>1
<1> QED BY <1>2, AlwaysSound, PTL DEF Spec, FailsOnlyIfMoved

\* What a call handed over lands within the time set when it was built, however
\* late it was signed and sent, whatever the caller was told (contribute.ts:62, 124,
\* 228).
THEOREM AlwaysLandsInTime == Spec => LandsInTime
<1>1. ASSUME Sound, [Next]_vars, NEW c \in Callers,
             task[c].id # 0, Seen(c) = "none", outcome'[task[c].id] = "success"
      PROVE  now <= task[c].since + Timeout
  <2> DEFINE t == task[c]
             i == t.id
  <2>1. t \in Task /\ Follows(t)
    BY <1>1 DEF Sound, TaskTyped, NoTask
  <2>2. /\ i \in 1 .. Len(sent) /\ outcome[i] = "none" /\ sent[i].content = t.built
        /\ t.built \in Content /\ t.built.until <= t.since + Timeout
    BY <1>1, <2>1 DEF Follows, HoldsOn, ReadsFit, Signed, Seen
  <2>3. i \in queue /\ ApplyQueued(i)
    BY <1>1, <2>2, WhoSettles
  <2>4. now <= t.built.until
    BY <2>2, <2>3 DEF ApplyQueued
  <2>5. now \in Nat /\ t.built.until \in Nat /\ t.since \in Nat
    BY <1>1, <2>1, <2>2 DEF Sound, NetTyped, Task, Content
  <2> QED BY <2>2, <2>4, <2>5, TimeoutAssumption
<1>2. Sound /\ [Next]_vars =>
        \A c \in Callers :
           /\ task[c].id # 0 /\ Seen(c) = "none" /\ outcome'[task[c].id] = "success"
           => now <= task[c].since + Timeout
  BY <1>1
<1> QED BY <1>2, AlwaysSound, PTL DEF Spec, LandsInTime

-----------------------------------------------------------------------------
(***************************************************************************)
(* The calls implement the promise of a button that moves money.           *)
(***************************************************************************)

phase == [c \in Callers |-> Phase(task[c])]
armed == [c \in Callers |-> task[c].id # 0]
landed == [c \in Callers |-> Seen(c) = "success"]

LEMMA PromiseStarts == Init => Promise!SpendInit
<1> SUFFICES ASSUME Init PROVE Promise!SpendInit
  OBVIOUS
<1>1. \A c \in Callers : task[c].at = "idle" /\ task[c].id = 0
  BY DEF Init, NoTask
<1>2. \A c \in Callers : Phase(task[c]) = "idle" /\ ~(task[c].id # 0) /\ ~(Seen(c) = "success")
  BY <1>1 DEF Phase, Seen
<1> QED BY <1>2 DEF Promise!SpendInit

\* One caller's part of the promise changes at a time.
Alone(c) ==
  \A d \in Callers \ {c} :
    /\ Phase(task'[d]) = Phase(task[d])
    /\ task'[d].id # 0 <=> task[d].id # 0
    /\ Seen(d)' = "success" <=> Seen(d) = "success"

LEMMA Phases ==
  ASSUME NEW c \in Callers, Alone(c)
  PROVE  /\ phase' = [phase EXCEPT ![c] = Phase(task'[c])]
         /\ \A b \in BOOLEAN : (b <=> task'[c].id # 0) => armed' = [armed EXCEPT ![c] = b]
         /\ \A b \in BOOLEAN : (b <=> Seen(c)' = "success") =>
                                 landed' = [landed EXCEPT ![c] = b]
<1>1. phase' = [phase EXCEPT ![c] = Phase(task'[c])]
  BY DEF phase, Alone
<1>2. ASSUME NEW b \in BOOLEAN, b <=> task'[c].id # 0
      PROVE  armed' = [armed EXCEPT ![c] = b]
  BY <1>2 DEF armed, Alone
<1>3. ASSUME NEW b \in BOOLEAN, b <=> Seen(c)' = "success"
      PROVE  landed' = [landed EXCEPT ![c] = b]
  BY <1>3 DEF landed, Alone
<1> QED BY <1>1, <1>2, <1>3

LEMMA AloneActs ==
  ASSUME Sound, NEW c \in Callers, Acts(c)
  PROVE  Alone(c)
<1>1. Moves(c)
  BY CallersMove
<1>2. ASSUME NEW d \in Callers \ {c}
      PROVE  task'[d] = task[d] /\ Seen(d)' = Seen(d)
  <2>1. task'[d] = task[d]
    BY <1>1 DEF Moves
  <2>2. task[d].id # 0 => task[d].id \in 1 .. Len(sent)
    BY DEF Sound, Follows, HoldsOn
  <2>3. CASE Quiet(c)
    BY <2>1, <2>3 DEF Quiet, netVars, Seen
  <2>4. CASE HandsOver(c)
    BY <2>1, <2>2, <2>4, Enqueued DEF HandsOver, Sound, Seen
  <2> QED BY <1>1, <2>1, <2>3, <2>4 DEF Moves
<1> QED BY <1>2 DEF Alone

\* Only a press starts from a call that is not in progress.
LEMMA Busied ==
  ASSUME Sound, NEW c \in Callers, Acts(c), ~Press(c)
  PROVE  /\ Phase(task[c]) = "working"
         /\ task[c].at \notin {"idle", "done"}
<1>1. task[c].at \notin {"idle", "done"}
  BY DEF Acts, Step, Reject, AnswerLost, PreflightDonor, PreflightPool, Load, Simulate, Sign,
         Send, Poll, Submit, Settled, GaveUp
<1> QED BY <1>1 DEF Phase

LEMMA PressIsPress ==
  ASSUME Sound, NEW c \in Callers, Press(c)
  PROVE  Promise!Press(c)
<1>1. /\ Phase(task[c]) # "working" /\ task[c].at \in {"idle", "done"}
      /\ task'[c].id = 0 /\ task'[c].at \in {"donor", "load"}
  <2>1. PICK op \in {"contribute", "trust", "untrust"}, donor \in Accounts, amount \in Nat,
             skip \in BOOLEAN : Begin(c, op, donor, amount, skip)
    BY AmountsAssumption DEF Press, contribute, addTrustline, removeTrustline
  <2>2. task[c].at \in {"idle", "done"}
    BY <2>1 DEF Begin
  <2>3. task'[c].id = 0 /\ task'[c].at \in {"donor", "load"}
    BY <2>1 DEF Begin, Set, NoTask, Sound, TaskTyped
  <2> QED BY <2>2, <2>3 DEF Phase
<1>2. Phase(task'[c]) = "working" /\ ~(task'[c].id # 0) /\ ~(Seen(c)' = "success")
  BY <1>1 DEF Phase, Seen
<1>3. Alone(c)
  BY AloneActs DEF Acts
<1>4. /\ phase' = [phase EXCEPT ![c] = "working"]
      /\ armed' = [armed EXCEPT ![c] = FALSE] /\ landed' = [landed EXCEPT ![c] = FALSE]
  BY <1>2, <1>3, Phases
<1>5. phase[c] # "working"
  BY <1>1 DEF phase
<1> QED BY <1>4, <1>5 DEF Promise!Press, phase, armed, landed

LEMMA StepIsPromised ==
  ASSUME Sound, Sound', NEW c \in Callers, Acts(c), ~Press(c)
  PROVE  \/ UNCHANGED Promise!spendVars
         \/ Promise!Arm(c) \/ Promise!Succeed(c) \/ Promise!Fail(c)
<1>1. Phase(task[c]) = "working" /\ Moves(c) /\ Alone(c) /\ Follows(task[c])'
  BY Busied, CallersMove, AloneActs DEF Moves
<1>2. Phase(task'[c]) \in {"working", "failed", "ok"}
  BY <1>1 DEF Moves, Phase
<1>3. Phase(task'[c]) = "ok" => task'[c].at = "done" /\ task'[c].result = "ok"
  BY DEF Phase
<1>4. Phase(task'[c]) = "ok" => Seen(c)' = "success"
  BY <1>1, <1>3 DEF Follows, HoldsOn, Seen
<1>5. /\ phase \in [Callers -> {"idle", "working", "ok", "failed"}] /\ phase[c] = "working"
      /\ armed \in [Callers -> BOOLEAN] /\ landed \in [Callers -> BOOLEAN]
      /\ armed[c] <=> task[c].id # 0
      /\ landed[c] <=> Seen(c) = "success"
  BY <1>1 DEF phase, armed, landed, Phase
<1>6. CASE Quiet(c)
  <2>1. task'[c].id = task[c].id /\ Seen(c)' = Seen(c)
    BY <1>6 DEF Quiet, netVars, Seen
  <2>2. armed' = armed /\ landed' = landed
    BY <1>1, <1>5, <2>1 DEF Alone, armed, landed
  <2>3. phase' = [phase EXCEPT ![c] = Phase(task'[c])]
    BY <1>1, Phases
  <2>4. CASE Phase(task'[c]) = "working"
    <3>1. phase' = phase
      BY <1>5, <2>3, <2>4
    <3> QED BY <2>2, <3>1 DEF Promise!spendVars, phase, armed, landed
  <2>5. CASE Phase(task'[c]) = "failed"
    BY <1>5, <2>2, <2>3, <2>5 DEF Promise!Fail, phase, armed, landed
  <2>6. CASE Phase(task'[c]) = "ok"
    <3>1. landed[c]
      BY <1>4, <1>5, <2>1, <2>6
    <3> QED BY <1>5, <2>2, <2>3, <2>6, <3>1 DEF Promise!Succeed, phase, armed, landed
  <2> QED BY <1>2, <2>4, <2>5, <2>6
<1>7. CASE HandsOver(c)
  <2>1. task[c].id = 0 /\ task'[c].id = Len(sent) + 1 /\ Len(sent) \in Nat
    BY <1>7 DEF HandsOver, Sound, NetTyped
  <2>2. outcome'[Len(sent) + 1] = "none"
    BY <1>7, Enqueued DEF HandsOver, Sound
  <2>3. ~armed[c] /\ ~(Seen(c) = "success") /\ ~(Seen(c)' = "success") /\ task'[c].id # 0
    BY <1>5, <2>1, <2>2 DEF Seen
  <2>4. /\ phase' = [phase EXCEPT ![c] = Phase(task'[c])]
        /\ armed' = [armed EXCEPT ![c] = TRUE]
    BY <1>1, <2>3, Phases
  <2>5. landed' = landed
    BY <1>1, <2>3 DEF Alone, landed
  <2>6. CASE Phase(task'[c]) = "working"
    <3>1. phase' = phase
      BY <1>5, <2>4, <2>6
    <3> QED BY <1>5, <2>3, <2>4, <2>5, <3>1 DEF Promise!Arm, phase, armed, landed
  <2>7. CASE Phase(task'[c]) = "failed"
    BY <1>5, <2>4, <2>5, <2>7 DEF Promise!Fail, phase, armed, landed
  <2> QED BY <1>2, <1>4, <2>3, <2>6, <2>7
<1> QED BY <1>1, <1>6, <1>7 DEF Moves

LEMMA LandingIsPromised ==
  ASSUME Sound, NEW i \in queue, ApplyQueued(i), UNCHANGED task
  PROVE  UNCHANGED Promise!spendVars \/ \E c \in Callers : Promise!Land(c)
<1>1. /\ i \in 1 .. Len(sent) /\ outcome[i] = "none" /\ outcome'[i] \in {"success", "failed"}
      /\ \A j \in 1 .. Len(sent) : j # i => outcome'[j] = outcome[j]
  BY Applied DEF Sound, NetTyped
<1>2. \A d \in Callers : task[d].id # 0 => task[d].id \in 1 .. Len(sent)
  BY DEF Sound, Follows, HoldsOn
<1>3. \A d \in Callers : task[d].id # i => Seen(d)' = Seen(d)
  BY <1>1, <1>2 DEF Seen
<1>4. phase' = phase /\ armed' = armed
  BY DEF phase, armed
<1>5. CASE outcome'[i] = "success" /\ \E c \in Callers : task[c].id = i
  <2>1. PICK c \in Callers : task[c].id = i
    BY <1>5
  <2>2. i # 0
    BY <1>1
  <2>3. \A d \in Callers \ {c} : task[d].id # i
    BY <2>1, <2>2 DEF Sound, OneEach
  <2>4. Alone(c)
    BY <1>3, <2>3 DEF Alone
  <2>5. Seen(c)' = "success" /\ Seen(c) = "none" /\ task[c].id # 0
    BY <1>1, <1>5, <2>1, <2>2 DEF Seen
  <2>6. landed' = [landed EXCEPT ![c] = TRUE]
    BY <2>4, <2>5, Phases
  <2>7. phase[c] \in {"working", "failed"}
    BY <2>5 DEF Sound, Follows, HoldsOn, phase, Phase, Seen
  <2>8. armed[c] /\ ~landed[c]
    BY <2>5 DEF armed, landed
  <2> QED BY <1>4, <2>6, <2>7, <2>8 DEF Promise!Land, phase, armed, landed
<1>6. CASE ~(outcome'[i] = "success" /\ \E c \in Callers : task[c].id = i)
  <2>1. \A d \in Callers : Seen(d)' = "success" <=> Seen(d) = "success"
    BY <1>1, <1>3, <1>6 DEF Seen
  <2>2. landed' = landed
    BY <2>1 DEF landed
  <2> QED BY <1>4, <2>2 DEF Promise!spendVars, phase, armed, landed
<1> QED BY <1>5, <1>6

\* contribute, addTrustline and removeTrustline implement the promise of a button
\* that moves money: for a press at most one transaction lands, success is said
\* only of one that landed, and a call that was turned down before it was sent
\* never lands (contribute.ts, use-actions.ts).
THEOREM CallsKeepTheirPromise == Spec => KeepsPromise
<1>1. ASSUME Sound, Sound', [Next]_vars
      PROVE  [Promise!SpendNext]_(Promise!spendVars)
  <2>1. ASSUME NEW c \in Callers, Acts(c)
        PROVE  [Promise!SpendNext]_(Promise!spendVars)
    <3>1. CASE Press(c)
      BY <1>1, <3>1, PressIsPress DEF Promise!SpendNext
    <3>2. CASE ~Press(c)
      BY <1>1, <2>1, <3>2, StepIsPromised DEF Promise!SpendNext
    <3> QED BY <3>1, <3>2
  <2>2. ASSUME NEW i \in queue, ApplyQueued(i), UNCHANGED task
        PROVE  [Promise!SpendNext]_(Promise!spendVars)
    BY <1>1, <2>2, LandingIsPromised DEF Promise!SpendNext
  <2>3. ASSUME UNCHANGED <<task, outcome>>
        PROVE  UNCHANGED Promise!spendVars
    BY <2>3 DEF Promise!spendVars, Seen
  <2>4. ASSUME (\E i \in queue : DropQueued(i)) \/ PassTime
        PROVE  UNCHANGED outcome
    BY <2>4 DEF DropQueued, PassTime
  <2>5. ASSUME NEW a \in Accounts, Receive(a) \/ ElsewhereSpends(a) \/ Friendbot(a)
        PROVE  UNCHANGED outcome
    BY <2>5 DEF Receive, ElsewhereSpends, Friendbot
  <2>6. UNCHANGED vars => UNCHANGED <<task, outcome>>
    BY DEF vars, netVars
  <2> QED BY <1>1, <2>1, <2>2, <2>3, <2>4, <2>5, <2>6 DEF Next, Acts, NetworkStep
<1>2. Sound /\ Sound' /\ [Next]_vars => [Promise!SpendNext]_(Promise!spendVars)
  BY <1>1
<1> QED BY <1>2, PromiseStarts, AlwaysSound, PTL DEF Spec, KeepsPromise, Promise!SpendSpec

=============================================================================
