----------------------------- MODULE SpendCall -----------------------------
(***************************************************************************)
(* What a button that moves money owes the one who pressed it: a call      *)
(* lands at most once, says it succeeded only when it has landed, and a    *)
(* call that ended without being sent never lands.  Failing does NOT       *)
(* promise that nothing landed: a call the network was slow about may      *)
(* land after it was reported as refused.                                  *)
(***************************************************************************)
CONSTANTS Callers

VARIABLES
  phase,   \* "idle", "working", "ok", "failed" per caller
  armed,   \* the network has been handed something of this call
  landed   \* and it has taken effect

spendVars == <<phase, armed, landed>>

SpendInit ==
  /\ phase = [c \in Callers |-> "idle"]
  /\ armed = [c \in Callers |-> FALSE] /\ landed = [c \in Callers |-> FALSE]

Press(c) ==
  /\ phase[c] # "working"
  /\ phase' = [phase EXCEPT ![c] = "working"]
  /\ armed' = [armed EXCEPT ![c] = FALSE]
  /\ landed' = [landed EXCEPT ![c] = FALSE]

Arm(c) ==
  /\ phase[c] = "working" /\ ~armed[c]
  /\ armed' = [armed EXCEPT ![c] = TRUE]
  /\ UNCHANGED <<phase, landed>>

Land(c) ==
  /\ armed[c] /\ ~landed[c] /\ phase[c] \in {"working", "failed"}
  /\ landed' = [landed EXCEPT ![c] = TRUE]
  /\ UNCHANGED <<phase, armed>>

Succeed(c) ==
  /\ phase[c] = "working" /\ landed[c]
  /\ phase' = [phase EXCEPT ![c] = "ok"]
  /\ UNCHANGED <<armed, landed>>

\* The answer may be lost after the network took the transaction.
Fail(c) ==
  /\ phase[c] = "working"
  /\ phase' = [phase EXCEPT ![c] = "failed"]
  /\ armed' \in {armed, [armed EXCEPT ![c] = TRUE]}
  /\ UNCHANGED landed

SpendNext ==
  \E c \in Callers : Press(c) \/ Arm(c) \/ Land(c) \/ Succeed(c) \/ Fail(c)

SpendSpec == SpendInit /\ [][SpendNext]_spendVars
=============================================================================
