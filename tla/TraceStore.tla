----------------------------- MODULE TraceStore -----------------------------
(***************************************************************************)
(* The SQLite database of an indexer.  Each operation is one transaction,  *)
(* committed in full or not at all, so a killed process leaves it as the   *)
(* last operation made it.                                                 *)
(***************************************************************************)
EXTENDS Integers, FiniteSets, FiniteSetsExt

CONSTANT NoState  \* what readState finds in a new database

VARIABLES
  state,   \* the ingest_state row: start ledger, cursor, filter fingerprint
  stored,  \* the events table, by id
  gaps     \* the ingest_gaps table

storeVars == <<state, stored, gaps>>

StoreInit == state = NoState /\ stored = {} /\ gaps = {}

Begin(startLedger, filters, noCursor) ==
  /\ state = NoState
  /\ state' = [startLedger |-> startLedger, cursor |-> noCursor,
               filters |-> filters]
  /\ UNCHANGED <<stored, gaps>>

CommitPage(events, cursor) ==
  /\ stored' = stored \cup events
  /\ state' = [state EXCEPT !.cursor = cursor]
  /\ UNCHANGED gaps

-----------------------------------------------------------------------------
(***************************************************************************)
(* Gaps.                                                                   *)
(***************************************************************************)

InGap(ledger) == \E g \in gaps : ledger \in g.fromLedger .. g.toLedger

\* Fault: gaps are merged only where they overlap.
TouchingOverlap(gap) ==
  {g \in gaps : g.fromLedger <= gap.toLedger /\ g.toLedger >= gap.fromLedger}

\* The recorded gaps that overlap or abut another.
Touching(gap) ==
  {g \in gaps : g.fromLedger <= gap.toLedger + 1 /\ g.toLedger >= gap.fromLedger - 1}

Merged(gap) ==
  LET parts == Touching(gap) \cup {gap}
  IN  [fromLedger |-> Min({g.fromLedger : g \in parts}),
       toLedger   |-> Max({g.toLedger : g \in parts})]

RecordGap(gap) ==
  /\ gaps' = (gaps \ Touching(gap)) \cup {Merged(gap)}
  /\ UNCHANGED <<state, stored>>
=============================================================================
