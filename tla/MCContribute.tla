---------------------------- MODULE MCContribute ----------------------------
(* Instances of Contribute and the properties its runs check. *)
EXTENDS Contribute

-----------------------------------------------------------------------------
Phase(t) == CASE t.at = "idle" -> "idle"
              [] t.at = "done" -> IF t.result = "ok" THEN "ok" ELSE "failed"
              [] OTHER -> "working"

Promise == INSTANCE SpendCall WITH
  phase <- [c \in Callers |-> Phase(task[c])],
  armed <- [c \in Callers |-> task[c].id # 0],
  landed <- [c \in Callers |-> Seen(c) = "success"]

\* contribute, addTrustline and removeTrustline implement the promise of a
\* button that moves money: at most one transaction lands for a press, success
\* is said only of one that landed, and a call the wallet declined or a check
\* turned down never lands.
KeepsPromise == Promise!SpendSpec

\* The lines of the call's two accounts differ from what the call last read.
Moved(c) == task[c].seen # <<line[task[c].donor], line[Pool]>>

\* preflight (contribute.ts:140-146) leaves nothing for simulation to discover:
\* a call that passed it is turned down by the simulation only when the donor's
\* or the pool's line changed in between.
PreflightForesees ==
  [][\A c \in Callers :
       /\ task[c].at = "simulate" /\ task[c].checked
       /\ task'[c].result = "simulation-failed"
       => Moved(c)]_vars

\* A transaction is taken down by the ledger only for what arrived or left
\* between the last read and the settlement (contribute.ts:94-98); what the
\* code built fitted the account it had read.
FailsOnlyIfMoved ==
  [][\A c \in Callers :
       /\ task[c].id # 0 /\ Seen(c) = "none" /\ outcome'[task[c].id] = "failed"
       /\ task[c].op = "untrust" => task[c].seen[1] # NoLine
       => Moved(c)]_vars

\* A call that was reported as failed may still land, because its answer was
\* lost, the server gave up or the polls ran out; but it lands within the time
\* set when it was built (contribute.ts:62, 124, 228), however long simulating,
\* signing and sending took.  Pressing again after that cannot pay twice.
LandsInTime ==
  [][\A c \in Callers :
       /\ task[c].id # 0 /\ Seen(c) = "none" /\ outcome'[task[c].id] = "success"
       => now <= task[c].since + Timeout]_vars

\* Every press is answered: the poll gives up after its thirty attempts even
\* if the transaction is never found.
CallsEnd == \A c \in Callers : task[c].at # "idle" ~> task[c].at = "done"
=============================================================================
