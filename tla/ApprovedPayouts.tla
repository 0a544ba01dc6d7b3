--------------------------- MODULE ApprovedPayouts ---------------------------
(***************************************************************************)
(* What a gated pool promises, without ledgers, accounts or signatures: a  *)
(* pot per category that contributions fill, and a numbered slot at a time *)
(* that one approval for it may empty into.  An approval pays at most      *)
(* once, from the pot it names, never more than the pot holds.             *)
(***************************************************************************)
EXTENDS Integers

CONSTANTS Pools, Category, Approvals

VARIABLES
  pots,      \* pots[p][c]: what category c of pool p may still pay
  slot,      \* slot[p]: the number the next approval of p must carry
  approved,  \* the approvals a quorum of their pool stands behind
  spent      \* the approvals that have paid

vars == <<pots, slot, approved, spent>>

Init ==
  /\ pots = [p \in Pools |-> [c \in Category |-> 0]]
  /\ slot = [p \in Pools |-> 0]
  /\ approved = {}
  /\ spent = {}

\* A contribution raises some pots of one pool and lowers none.
Fund(p) ==
  /\ \A c \in Category : pots'[p][c] >= pots[p][c]
  /\ pots' = [pots EXCEPT ![p] = pots'[p]]
  /\ UNCHANGED <<slot, approved, spent>>

\* Approvals accumulate: none is ever withdrawn.
Approve ==
  /\ approved \subseteq approved'
  /\ UNCHANGED <<pots, slot, spent>>

Pay(a) ==
  /\ a \in approved \ spent
  /\ a.sequence = slot[a.pool]
  /\ a.amount <= pots[a.pool][a.category]
  /\ pots' = [pots EXCEPT ![a.pool][a.category] = @ - a.amount]
  /\ slot' = [slot EXCEPT ![a.pool] = @ + 1]
  /\ spent' = spent \cup {a}
  /\ UNCHANGED approved

Next ==
  \/ \E p \in Pools : Fund(p)
  \/ Approve
  \/ \E a \in Approvals : Pay(a)

Spec == Init /\ [][Next]_vars
=============================================================================
