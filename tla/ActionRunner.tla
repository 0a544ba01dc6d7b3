---------------------------- MODULE ActionRunner ----------------------------
(***************************************************************************)
(* lib/ui/use-actions.ts: every button has a status and a result, and a    *)
(* result fades on a timer unless it carries the link to a transaction.    *)
(***************************************************************************)
EXTENDS Naturals

CONSTANTS Ids  \* the buttons

Success == {"link", "success", "info"}                 \* what an action hands back
toFailure == {"contribution", "action", "unexpected"}  \* kinds of what it throws
NoResult == "none"

VARIABLES
  status,   \* of each button
  result,   \* the line shown under each button
  timer,    \* whether a timer to clear it is running
  mounted   \* whether the page is there

vars == <<status, result, timer, mounted>>

Init ==
  /\ status = [i \in Ids |-> "idle"]
  /\ result = [i \in Ids |-> NoResult]
  /\ timer = [i \in Ids |-> FALSE]
  /\ mounted = TRUE

\* A button is pressed; it is disabled while its own action runs, and most are
\* while any does, but not the one of the bar or the one that connects.
run(i) ==
  /\ mounted /\ status[i] # "pending"
  /\ status' = [status EXCEPT ![i] = "pending"]
  /\ result' = [result EXCEPT ![i] = NoResult]
  /\ timer' = [timer EXCEPT ![i] = FALSE]
  /\ UNCHANGED mounted

\* Fault: a result with a link is timed out like any other.
NeverExpiresNot(r) == FALSE

NeverExpires(r) == r = "link"

settle(i, s, r) ==
  /\ status[i] = "pending"
  /\ status' = [status EXCEPT ![i] = s]
  /\ result' = [result EXCEPT ![i] = r]
  /\ timer' = [timer EXCEPT ![i] = ~NeverExpires(r)]
  /\ UNCHANGED mounted

Resolves(i) == \E r \in Success :
  settle(i, IF r = "info" THEN "info" ELSE "success", r)
Rejects(i) == \E r \in toFailure : settle(i, "error", r)

\* The timer drops the line and keeps the status.
Fade(i) ==
  /\ timer[i]
  /\ timer' = [timer EXCEPT ![i] = FALSE]
  /\ result' = [result EXCEPT ![i] = NoResult]
  /\ UNCHANGED <<status, mounted>>

Unmount ==
  /\ mounted /\ mounted' = FALSE
  /\ timer' = [i \in Ids |-> FALSE]
  /\ UNCHANGED <<status, result>>

Next ==
  \/ \E i \in Ids : run(i) \/ Resolves(i) \/ Rejects(i) \/ Fade(i)
  \/ Unmount

Spec == Init /\ [][Next]_vars

-----------------------------------------------------------------------------
\* use-actions.ts:91-93: a result with a link is the only route to that
\* transaction; no timer, of this result or of an earlier one of the button,
\* takes it away: it stays until the button is pressed again.
LinksStay ==
  [][\A i \in Ids : result[i] = "link" => result'[i] = "link" \/ status'[i] = "pending"]_vars
=============================================================================
