---------------------------- MODULE MCMetaTrace ----------------------------
(* An entry in the archive and one in the ledger, each with an id of its own. *)
EXTENDS MetaTrace

CONSTANT archived  \* an entry

MCId == [e \in Entries |-> e]
MCBegan ==
  [e \in Entries |-> IF e = archived THEN NoEntry ELSE [rendered |-> 0, other |-> 0]]
=============================================================================
