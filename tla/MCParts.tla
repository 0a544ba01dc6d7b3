------------------------------ MODULE MCParts ------------------------------
(* A small instance of every part. *)
EXTENDS Parts

CONSTANTS e1, e2  \* entries

\* e1 has an id of its own and the others share one, e3 not being there at first
\* (NoEntry written out: Meta is instantiated with Began).
MCId == [e \in Entries |-> IF e = e1 THEN "own" ELSE "shared"]
MCBegan ==
  [e \in Entries |-> IF e = e1 THEN [rendered |-> 0, other |-> 0]
                     ELSE IF e = e2 THEN [rendered |-> 0, other |-> 1]
                     ELSE [rendered |-> 2, other |-> 2]]
=============================================================================
