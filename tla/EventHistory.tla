---------------------------- MODULE EventHistory ----------------------------
(***************************************************************************)
(* What an indexer promises, without pages, processes or servers: a copy   *)
(* of the wanted events that grows at its end, in order, and never goes    *)
(* back.  It passes over an event only if that was out of reach before,    *)
(* and what is once out of reach stays on record.                          *)
(***************************************************************************)
EXTENDS Integers

VARIABLES
  wanted,     \* the events to copy
  history,    \* the copy
  upto,       \* the last event id the copy has been brought up to
  outOfReach  \* the events that their source may no longer give

vars == <<wanted, history, upto, outOfReach>>

Init == wanted = {} /\ history = {} /\ upto = -1 /\ outOfReach = {}

\* The copy is set up, before anything is in it.
Open ==
  /\ wanted = {} /\ history = {} /\ upto = -1
  /\ UNCHANGED <<history, upto, outOfReach>>

Deliver ==
  LET next == {e \in wanted : upto < e /\ e <= upto'} IN
  /\ upto' >= upto
  /\ \E delivered \in SUBSET next :
        /\ next \ outOfReach \subseteq delivered
        /\ history' = history \cup delivered
  /\ outOfReach \subseteq outOfReach'
  /\ UNCHANGED wanted

Lose ==
  /\ outOfReach \subseteq outOfReach'
  /\ UNCHANGED <<wanted, history, upto>>

Next == Open \/ Deliver \/ Lose

Spec == Init /\ [][Next]_vars
=============================================================================
