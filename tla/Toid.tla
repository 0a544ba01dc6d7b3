-------------------------------- MODULE Toid --------------------------------
(***************************************************************************)
(* Event ids and cursors.  Both pack a ledger above a position within it,  *)
(* so that their order is the order of the events; the position with every *)
(* bit set belongs to no event and stands for the end of the ledger.       *)
(***************************************************************************)
EXTENDS Integers

CONSTANT LedgerSize  \* positions in a ledger, the last one reserved

ASSUME LedgerSizeAssumption == LedgerSize \in Nat \ {0}

LedgerOf(id) == id \div LedgerSize

CursorForLedger(n) == n * LedgerSize + LedgerSize - 1

EventIds == {id \in Nat : id # CursorForLedger(LedgerOf(id))}
=============================================================================
