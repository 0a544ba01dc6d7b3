----------------------------- MODULE MetaTrace -----------------------------
(***************************************************************************)
(* src/meta: a transaction's progression of states, put together from the  *)
(* flat lists of ledger entry changes in its meta.  The network writes the *)
(* lists: the entry as it was, then what became of it, not always side by  *)
(* side; the decoder pairs them.  An archived entry that a transaction     *)
(* restores is written as restored, and then, if it changes, as it becomes.*)
(***************************************************************************)
EXTENDS Naturals, Sequences, SequencesExt

CONSTANTS
  Entries,    \* ledger entries
  Id,         \* describeKey: the id an entry is paired by
  Began,      \* the entries before the transaction
  MaxChanges  \* bound on the changes of a transaction

\* An entry as its fields: those describeEntry renders and those it does not.
Contents == [rendered : 0 .. 1, other : 0 .. 1]
NoEntry == [rendered |-> 2, other |-> 2]
Versions == 0 .. 5

VARIABLES
  version,  \* of the meta
  status,   \* SUCCESS or FAILED
  ledger,   \* the entries now
  phases,   \* the phases begun, each with its list of changes
  open,     \* the entries written as they were and not yet as they became
  restored, \* the entries the transaction has restored
  trace     \* what the decoder made of it

vars == <<version, status, ledger, phases, open, restored, trace>>

NoTrace == [is |-> "none", steps |-> <<>>]
MetaError == [is |-> "error", steps |-> <<>>]

Init ==
  /\ version = 4 /\ status = "SUCCESS"
  /\ ledger = Began /\ phases = <<>> /\ open = {} /\ restored = {} /\ trace = NoTrace

-----------------------------------------------------------------------------
(***************************************************************************)
(* The network.                                                            *)
(***************************************************************************)

Applies ==
  /\ phases = <<>> /\ trace = NoTrace /\ version' \in Versions /\ status' \in {"SUCCESS", "FAILED"}
  /\ phases' = <<[kind |-> "setup", changes |-> <<>>]>>
  /\ UNCHANGED <<ledger, open, restored, trace>>

phase == phases[Len(phases)].kind

\* What the version has a list for: v0 has the operations', v1 the first too.
Writable ==
  /\ phases # <<>> /\ trace = NoTrace
  /\ phase = "setup" => version > 0
  /\ phase = "teardown" => version > 1

\* No entry is left as it was; a restored one need not become anything else.
Settled == open \subseteq restored

NextPhase ==
  /\ phases # <<>> /\ Settled /\ trace = NoTrace /\ phase # "teardown"
  /\ \E kind \in IF status = "SUCCESS" THEN {"operation", "teardown"} ELSE {"teardown"} :
       phases' = Append(phases, [kind |-> kind, changes |-> <<>>])
  /\ Len(phases) < 3
  /\ open' = {} /\ UNCHANGED <<version, status, ledger, restored, trace>>

Written == FoldLeft(LAMBDA n, p : n + Len(p.changes), 0, phases)

Writes(change) ==
  /\ Writable /\ Written < MaxChanges
  /\ phases' = [phases EXCEPT ![Len(phases)].changes = Append(@, change)]
  /\ UNCHANGED <<version, status, trace>>

State(e) ==
  /\ ledger[e] # NoEntry /\ e \notin open
  /\ Written + 1 + Cardinality(open) < MaxChanges
  /\ Writes([kind |-> "state", entry |-> e, is |-> ledger[e]])
  /\ open' = open \cup {e} /\ UNCHANGED <<ledger, restored>>

Closes(e, kind, is) ==
  /\ e \in open /\ open' = open \ {e}
  /\ Writes([kind |-> kind, entry |-> e, is |-> is])
  /\ ledger' = [ledger EXCEPT ![e] = is] /\ UNCHANGED restored

Updated(e) == \E is \in Contents : Closes(e, "updated", is)
Removed(e) == Closes(e, "removed", NoEntry)

Created(e) ==
  /\ ledger[e] = NoEntry /\ \E is \in Contents :
       /\ Writes([kind |-> "created", entry |-> e, is |-> is])
       /\ ledger' = [ledger EXCEPT ![e] = is]
  /\ Written + Cardinality(open) < MaxChanges
  /\ UNCHANGED <<open, restored>>

\* From the archive, by an operation; it may change without being written again as
\* it was.
Restored(e) ==
  /\ version = 4 /\ phases # <<>> /\ phase = "operation"
  /\ Began[e] = NoEntry /\ ledger[e] = NoEntry /\ e \notin restored /\ \E is \in Contents :
       /\ Writes([kind |-> "restored", entry |-> e, is |-> is])
       /\ ledger' = [ledger EXCEPT ![e] = is]
  /\ Written + Cardinality(open) < MaxChanges
  /\ open' = open \cup {e} /\ restored' = restored \cup {e}

-----------------------------------------------------------------------------
(***************************************************************************)
(* The decoder.                                                            *)
(***************************************************************************)

diffFields(before, after) == before.rendered # after.rendered

Row(kind, e, before, after) ==
  [kind |-> kind, entry |-> e, before |-> before, after |-> after,
   changed |-> diffFields(before, after), identical |-> kind = "updated" /\ before = after]

\* Fault: whatever state was read last is anybody's "before".
KeyOfAll(e) == "entry"

\* describeKey(...).id, by which an entry is told from the others.
key(e) == Id[e]

\* The states read and not yet paired, and the rows so far.
Unpaired == [pending |-> [k \in {key(e) : e \in Entries} |-> NoEntry], rows |-> <<>>]

\* A change of a kind the switch does not name, a restored entry's, is passed over.
PairOne(paired, change) ==
  LET e == change.entry
      before == paired.pending[key(e)]
  IN  CASE change.kind = "restored" -> paired
        [] change.kind = "state" ->
             [paired EXCEPT !.pending[key(e)] = change.is]
        [] change.kind = "created" ->
             [paired EXCEPT !.rows = Append(@, Row("created", e, NoEntry, change.is))]
        [] OTHER ->
             [paired EXCEPT !.pending[key(e)] = NoEntry,
                            !.rows = Append(@, Row(change.kind, e, before, change.is))]

Paired(changes) ==
  LET paired[n \in 0 .. Len(changes)] ==
        IF n = 0 THEN Unpaired ELSE PairOne(paired[n - 1], changes[n])
  IN  paired[Len(changes)]

pairChanges(changes) == Paired(changes).rows

\* The steps, one per operation, and the others where anything changed.
PushStep(steps, p) ==
  LET changes == pairChanges(p.changes)
  IN  IF p.kind = "operation" \/ changes # <<>>
      THEN Append(steps, [phase |-> p.kind, changes |-> changes])
      ELSE steps

readSteps(meta) ==
  LET steps[n \in 0 .. Len(meta)] ==
        IF n = 0 THEN <<>> ELSE PushStep(steps[n - 1], meta[n])
  IN  steps[Len(meta)]

\* The server may have left the meta out of its answer.
decodeTransaction ==
  /\ phases # <<>> /\ Settled /\ trace = NoTrace
  /\ \/ trace' = MetaError
     \/ trace' = IF version = 5 THEN MetaError ELSE [is |-> "trace", steps |-> readSteps(phases)]
  /\ UNCHANGED <<version, status, ledger, phases, open, restored>>

-----------------------------------------------------------------------------
Next ==
  \/ Applies \/ NextPhase \/ decodeTransaction
  \/ \E e \in Entries : State(e) \/ Updated(e) \/ Removed(e) \/ Created(e) \/ Restored(e)

Spec == Init /\ [][Next]_vars

-----------------------------------------------------------------------------
(***************************************************************************)
(* What a reader of the trace is told.                                     *)
(***************************************************************************)

\* A row says how its entry was and became, or that it is the same byte for
\* byte, or that nothing rendered has changed.
Tells(row, now) ==
  /\ row.before = now[row.entry]
  /\ row.identical => row.after = now[row.entry]
  /\ ~row.changed => row.after.rendered = now[row.entry].rendered

Follows(told, row) ==
  [now |-> [told.now EXCEPT ![row.entry] = row.after],
   truth |-> [told.truth EXCEPT ![row.entry] = @ /\ Tells(row, told.now)]]

ReadRows(told, rows) ==
  LET after[n \in 0 .. Len(rows)] == IF n = 0 THEN told ELSE Follows(after[n - 1], rows[n])
  IN  after[Len(rows)]

ReadSteps(steps) ==
  LET after[n \in 0 .. Len(steps)] ==
        IF n = 0 THEN [now |-> Began, truth |-> [e \in Entries |-> TRUE]]
        ELSE ReadRows(after[n - 1], steps[n].changes)
  IN  after[Len(steps)]

\* What is told of an entry is so at every row, and ends in the entry as it is.
Faithful(e) ==
  LET told == ReadSteps(trace.steps)
  IN  told.truth[e] /\ told.now[e] = ledger[e]

\* describeKey cuts the key of a contract's data off, so two entries may share an id.
HasOwnId(e) == \A f \in Entries : Id[f] = Id[e] => f = e

\* decode.ts:218-223, page.ts:4-8: reading the steps in order from the ledger
\* as it was tells the truth, at every row and in the end, of every entry that has
\* an id of its own and was not restored by the transaction, however the network
\* interleaved the changes of these and of any others.
TraceIsFaithful ==
  trace.is = "trace" => \A e \in Entries \ restored : HasOwnId(e) => Faithful(e)

\* decode.ts:217: "one record per entry touched", those restored among them.
RestoredIsTold ==
  trace.is = "trace" => \A e \in restored : HasOwnId(e) => Faithful(e)
=============================================================================
