----------------------------- MODULE Contribute -----------------------------
(***************************************************************************)
(* lib/stellar/contribute.ts of the two wallet applications: contribute,   *)
(* addTrustline and removeTrustline, each a chain of awaits against the    *)
(* network, so that anything may happen to the account between two of      *)
(* them.  `task` is one call in progress per caller; callers share the     *)
(* account when a page has more than one button or tab.                    *)
(***************************************************************************)
EXTENDS StellarNetwork

CONSTANTS
  Callers,   \* those who may have a call in progress
  Amounts,   \* amounts a donor asks to contribute
  Attempts,  \* pollTransaction's { attempts: 30 }
  Timeout    \* setTimeout(180), and by how much the device's clock may be fast

ASSUME AmountsAssumption == Amounts \subseteq Nat
ASSUME TimeoutAssumption == Timeout \in Nat

VARIABLES task

vars == <<netVars, task>>

Steps == {"idle", "donor", "pool", "load", "simulate", "sign", "send", "poll",
          "submit", "wait", "done"}
Results == {"none", "ok", "missing-trustline", "insufficient-balance",
            "simulation-failed", "submission-failed", "unexpected"}

NoContent == [source |-> CHOOSE a \in Accounts : TRUE, op |-> "none",
              amount |-> 0, seq |-> 0, prepared |-> FALSE, until |-> 0]

\* `since` is when what is signed was built, which only the properties look at.
NoTask == [at |-> "idle", op |-> "none", donor |-> CHOOSE a \in Accounts : TRUE,
           amount |-> 0, checked |-> FALSE, seen |-> <<>>, built |-> NoContent,
           since |-> 0, id |-> 0, tries |-> 0, result |-> "none"]

Init == NetInit /\ task = [c \in Callers |-> NoTask]

Set(c, t) == task' = [task EXCEPT ![c] = t]
Finish(c, result) == Set(c, [task[c] EXCEPT !.at = "done", !.result = result])

Busy(c) == task[c].at \notin {"idle", "done"}

-----------------------------------------------------------------------------
\* The press of a button: contribute checks first unless skipPreflight, the
\* other operations load the account and build at once.
Begin(c, op, donor, amount, skip) ==
  /\ task[c].at \in {"idle", "done"}
  /\ Len(sent) + Cardinality({d \in Callers : Busy(d)}) < MaxSent
  /\ Set(c, [NoTask EXCEPT !.op = op, !.donor = donor, !.amount = amount,
                           !.checked = (op = "contribute" /\ ~skip),
                           !.at = IF op = "contribute" /\ ~skip
                                  THEN "donor" ELSE "load"])
  /\ UNCHANGED netVars

findUsdcLine(h) == line[h] # NoLine

\* fault: the recipient's line is never looked at
PreflightDonorOnly(c) ==
  LET t == task[c] IN
  /\ t.at = "donor"
  /\ IF ~exists[t.donor] THEN Finish(c, "unexpected")
     ELSE IF ~findUsdcLine(t.donor) THEN Finish(c, "missing-trustline")
     ELSE IF line[t.donor] < t.amount THEN Finish(c, "insufficient-balance")
     ELSE Set(c, [t EXCEPT !.at = "load", !.seen = <<line[t.donor], line[Pool]>>])
  /\ UNCHANGED netVars

\* preflight, the donor's half: the two conditions of the donor's own line.
PreflightDonor(c) ==
  LET t == task[c] IN
  /\ t.at = "donor"
  /\ IF ~exists[t.donor] THEN Finish(c, "unexpected")
     ELSE IF ~findUsdcLine(t.donor) THEN Finish(c, "missing-trustline")
     ELSE IF line[t.donor] < t.amount THEN Finish(c, "insufficient-balance")
     ELSE Set(c, [t EXCEPT !.at = IF PoolIsContract THEN "load" ELSE "pool",
                           !.seen = <<line[t.donor], line[Pool]>>])
  /\ UNCHANGED netVars

\* ... and the recipient's, for an account that must have opted in.
PreflightPool(c) ==
  LET t == task[c] IN
  /\ t.at = "pool"
  /\ IF findUsdcLine(Pool) THEN Set(c, [t EXCEPT !.at = "load", !.seen[2] = line[Pool]])
     ELSE Finish(c, "missing-trustline")
  /\ UNCHANGED netVars

\* fault: the opt-out alone, whatever is held
BurnsNothing(t) == IF t.op = "untrust" THEN 0 ELSE t.amount

\* removeTrustline sends back what the account holds NOW, not what a page saw.
AmountOf(t) ==
  CASE t.op = "untrust" -> Held(t.donor)
    [] OTHER -> t.amount

\* fault: setTimeout(0), which the builder takes for no bound at all
TimeBoundsNone == {MaxTime}

\* setTimeout counts from the device's clock, which may be slow.
TimeBounds == now .. now + Timeout

\* horizon.loadAccount and TransactionBuilder.build: one more than the
\* sequence number read.
Load(c) ==
  LET t == task[c]
      tx(u) == [source |-> t.donor, op |-> t.op, amount |-> AmountOf(t),
                seq |-> seq[t.donor] + 1, prepared |-> FALSE, until |-> u] IN
  /\ t.at = "load"
  /\ IF ~exists[t.donor] THEN Finish(c, "unexpected")
     ELSE \E u \in TimeBounds :
          Set(c, [t EXCEPT !.built = tx(u), !.since = now,
                           !.seen = IF t.op = "contribute" THEN @
                                    ELSE <<line[t.donor], line[Pool]>>,
                           !.at = IF t.op = "contribute" THEN "simulate" ELSE "sign"])
  /\ UNCHANGED netVars

\* simulateTransaction, then assembleTransaction, whose result is another
\* transaction than the one simulated, with the time bound it had.
Simulate(c) ==
  /\ task[c].at = "simulate"
  /\ IF Settles(task[c].built)
     THEN Set(c, [task[c] EXCEPT !.built.prepared = TRUE, !.at = "sign",
                                 !.seen = <<line[task[c].donor], line[Pool]>>])
     ELSE Finish(c, "simulation-failed")
  /\ UNCHANGED netVars

\* signer.signTransaction: what goes on is what the signer returns.
Sign(c) ==
  /\ task[c].at = "sign"
  /\ Set(c, [task[c] EXCEPT
       !.at = IF task[c].op = "contribute" THEN "send" ELSE "submit"])
  /\ UNCHANGED netVars

\* The transaction as its signer leaves it.
Signed(t) == [content |-> t.built,
              signature |-> [by |-> t.donor, over |-> t.built]]

Report(c, result) == Finish(c, result) /\ UNCHANGED netVars

\* soroban.sendTransaction: ERROR is a refusal, for a sequence number, a time, a
\* fee or whatever else; PENDING a place in the queue; TRY_AGAIN_LATER neither,
\* and the code polls for it all the same.
Send(c) ==
  LET tx == Signed(task[c]) IN
  /\ task[c].at = "send"
  /\ \/ Report(c, "submission-failed")
     \/ /\ Enqueue(tx)
        /\ Set(c, [task[c] EXCEPT !.at = "poll", !.id = Len(sent) + 1])
     \/ /\ Set(c, [task[c] EXCEPT !.at = "poll"])
        /\ UNCHANGED netVars

Seen(c) == IF task[c].id = 0 THEN "none" ELSE outcome[task[c].id]

\* fault: attempts are not counted
PollForEver(c) ==
  /\ task[c].at = "poll"
  /\ CASE Seen(c) = "success" -> Report(c, "ok")
       [] Seen(c) = "failed" -> Report(c, "submission-failed")
       [] OTHER -> UNCHANGED vars

\* fault: anything but FAILED counts as success
PollTrusting(c) ==
  /\ task[c].at = "poll"
  /\ IF Seen(c) = "failed" THEN Report(c, "submission-failed") ELSE Report(c, "ok")

\* pollTransaction: thirty looks, and only SUCCESS is a success.
Poll(c) ==
  /\ task[c].at = "poll"
  /\ CASE Seen(c) = "success" -> Report(c, "ok")
       [] Seen(c) = "failed" -> Report(c, "submission-failed")
       [] Seen(c) = "none" /\ task[c].tries + 1 < Attempts ->
            Set(c, [task[c] EXCEPT !.tries = @ + 1]) /\ UNCHANGED netVars
       [] OTHER -> Report(c, "submission-failed")

-----------------------------------------------------------------------------
\* horizon.submitTransaction of the two trustline operations: held open until the
\* transaction settles or the server gives up.  A refusal at the door and a
\* request that does not get there end in the same catch.
Submit(c) ==
  LET tx == Signed(task[c]) IN
  /\ task[c].at = "submit"
  /\ \/ Report(c, "submission-failed")
     \/ /\ Enqueue(tx)
        /\ Set(c, [task[c] EXCEPT !.at = "wait", !.id = Len(sent) + 1])

Settled(c) ==
  /\ task[c].at = "wait" /\ Seen(c) # "none"
  /\ Report(c, IF Seen(c) = "success" THEN "ok" ELSE "submission-failed")

\* The server gives up waiting; horizonErrorDetail words it as a failure.
GaveUp(c) ==
  /\ task[c].at = "wait" /\ Seen(c) = "none" /\ Report(c, "submission-failed")

\* A request of any step, or the wallet asked to sign, may reject.
Reject(c) ==
  /\ task[c].at \in {"donor", "pool", "load", "simulate", "sign", "send", "poll"}
  /\ Report(c, "unexpected")

\* The request arrives and its answer does not.
AnswerLost(c) ==
  /\ task[c].at \in {"send", "submit"} /\ Enqueue(Signed(task[c]))
  /\ Set(c, [task[c] EXCEPT !.id = Len(sent) + 1, !.at = "done",
       !.result = IF task[c].at = "send" THEN "unexpected" ELSE "submission-failed"])

Step(c) ==
  \/ PreflightDonor(c) \/ PreflightPool(c) \/ Load(c) \/ Simulate(c) \/ Sign(c)
  \/ Send(c) \/ Poll(c) \/ Submit(c) \/ Settled(c) \/ GaveUp(c)

contribute(c, donor, amount, skip) == Begin(c, "contribute", donor, amount, skip)
addTrustline(c, a) == Begin(c, "trust", a, 0, FALSE)
removeTrustline(c, a) == Begin(c, "untrust", a, 0, FALSE)

Press(c) ==
  \E a \in Accounts : \/ \E n \in Amounts, skip \in BOOLEAN : contribute(c, a, n, skip)
                      \/ addTrustline(c, a) \/ removeTrustline(c, a)

Next ==
  \/ \E c \in Callers : Press(c) \/ Step(c) \/ Reject(c) \/ AnswerLost(c)
  \/ NetworkStep /\ UNCHANGED task
  \/ \E a \in Accounts : Friendbot(a) /\ UNCHANGED task

\* A call in progress goes on: every await is answered or rejects.
Spec == Init /\ [][Next]_vars /\ \A c \in Callers : WF_vars(Step(c))
=============================================================================
