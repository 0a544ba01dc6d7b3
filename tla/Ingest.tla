------------------------------- MODULE Ingest -------------------------------
(***************************************************************************)
(* The ingest loop of stellar-trace: indexer processes that page through   *)
(* the events of a server and commit each page with its cursor to one      *)
(* database.  A process may be interrupted, may lose a request and may be  *)
(* killed between any two steps; the database survives.                    *)
(*                                                                         *)
(* Code between two awaits is one step.  A request is two: the server      *)
(* answers it from the window it has at that moment, and the process acts  *)
(* on the answer later.                                                    *)
(***************************************************************************)
EXTENDS EventServer, TraceStore

CONSTANTS
  Processes,     \* the indexer processes
  Options,       \* the command lines they may be started with
  Testnet,       \* NETWORK_PASSPHRASE
  PageLimit,     \* config.pageLimit
  MinPageLimit,  \* MIN_PAGE_LIMIT
  MaxInterrupts  \* bound on the interrupts of a run

NoLedger == -1  \* no --end-ledger

ASSUME OptionsAssumption ==
  Options \subseteq
    [server : Servers, filters : Filters, endLedger : Nat \cup {NoLedger},
     once : BOOLEAN, acknowledgeGap : BOOLEAN]

ASSUME NoStateAssumption ==
  NoState \notin [startLedger : Nat, cursor : Int, filters : Filters]

ASSUME LimitAssumption ==
  PageLimit \in Nat /\ MinPageLimit \in Nat \ {0} /\ MaxInterrupts \in Nat

VARIABLES
  pc,         \* where a process is: down, asking, answered or sleeping
  options,    \* the command line it runs with
  position,   \* Resume: where its next request starts
  limit,      \* the page size it asks for
  answer,     \* the answer it has yet to act on
  interrupts, \* the interrupts it has had
  stoppedBecause \* why its last run ended

procVars == <<pc, options, position, limit, answer, interrupts, stoppedBecause>>
vars == <<serverVars, storeVars, procVars>>

Idle == [kind |-> "none"]
NoOptions == "none"
Nowhere == [cursor |-> NoCursor, startLedger |-> 0]

\* Fault: the loop watches the signal that only the second interrupt raises.
AbortedBySecond(p) == interrupts[p] > 1

Aborted(p) == interrupts[p] > 0

\* The end of a process: what it held in memory is gone.
Stop(p, because) ==
  /\ pc' = [pc EXCEPT ![p] = "down"]
  /\ stoppedBecause' = [stoppedBecause EXCEPT ![p] = because]
  /\ options' = [options EXCEPT ![p] = NoOptions]
  /\ position' = [position EXCEPT ![p] = Nowhere]
  /\ limit' = [limit EXCEPT ![p] = PageLimit]
  /\ answer' = [answer EXCEPT ![p] = Idle]
  /\ interrupts' = [interrupts EXCEPT ![p] = 0]

-----------------------------------------------------------------------------
(***************************************************************************)
(* Starting: preflight, then resumeOrBegin.  A refused start changes       *)
(* nothing, and neither does a start that loses the race to begin.         *)
(***************************************************************************)

\* Fault: the passphrase is reported but not compared.
ServesTestnetUnchecked(o) == TRUE

ServesTestnet(o) == Networks[o.server] = Testnet

\* Fault: an old cursor is taken over by whatever filters come.
SameFiltersUnchecked(o) == TRUE

SameFilters(o) == state.filters = o.filters

Enter(p, o, where) ==
  /\ pc[p] = "down"
  /\ pc' = [pc EXCEPT ![p] = "asking"]
  /\ options' = [options EXCEPT ![p] = o]
  /\ position' = [position EXCEPT ![p] = where]
  /\ stoppedBecause' = [stoppedBecause EXCEPT ![p] = "running"]
  /\ UNCHANGED <<serverVars, limit, answer, interrupts>>

StartFresh(p, o, startLedger) ==
  /\ ServesTestnet(o)
  /\ startLedger \in oldest[o.server] .. latest[o.server]
  /\ Begin(startLedger, o.filters, NoCursor)
  /\ Enter(p, o, [cursor |-> NoCursor, startLedger |-> startLedger])

Resume(p, o) ==
  /\ ServesTestnet(o)
  /\ state # NoState
  /\ SameFilters(o)
  /\ Enter(p, o, [cursor |-> state.cursor, startLedger |-> state.startLedger])
  /\ UNCHANGED storeVars

-----------------------------------------------------------------------------
(***************************************************************************)
(* The loop.                                                               *)
(***************************************************************************)

\* The loop guard, read before each request.
StopOnSignal(p) ==
  /\ pc[p] = "asking" /\ Aborted(p)
  /\ Stop(p, "signal")
  /\ UNCHANGED <<serverVars, storeVars>>

Asking(p) == pc[p] = "asking" /\ ~Aborted(p)

Answered(p, a) ==
  /\ answer' = [answer EXCEPT ![p] = a]
  /\ pc' = [pc EXCEPT ![p] = "answered"]
  /\ UNCHANGED <<serverVars, storeVars, options, position, limit, interrupts, stoppedBecause>>

AskForPage(p) ==
  LET s == options[p].server IN
  /\ Asking(p) /\ InWindow(s, position[p])
  /\ Answered(p, [kind |-> "page",
                  page |-> GetEvents(s, options[p].filters, position[p], limit[p])])

AskTooMuch(p) ==
  /\ Asking(p) /\ MayRefuse(options[p].server, limit[p])
  /\ Answered(p, [kind |-> "refused"])

AskOutsideWindow(p) ==
  LET s == options[p].server IN
  /\ Asking(p) /\ ~InWindow(s, position[p])
  /\ Answered(p, [kind |-> "outside", oldest |-> oldest[s]])

-----------------------------------------------------------------------------
(***************************************************************************)
(* Acting on a page.                                                       *)
(***************************************************************************)

WasFull(page, asked) == Cardinality(page.events) >= asked

(* --end-ledger: what truncateAtEnd keeps of a page that runs past it.     *)

RunsPast(page, endLedger) ==
  endLedger # NoLedger /\ LedgerOf(page.cursor) > endLedger

KeptEvents(page, endLedger) ==
  IF RunsPast(page, endLedger) THEN {e \in page.events : LedgerOf(e) <= endLedger}
  ELSE page.events

\* Fault: the overshoot is dropped but the server's cursor is kept.
ServerCursor(page, endLedger) == page.cursor

KeptCursor(page, endLedger) ==
  IF RunsPast(page, endLedger) THEN CursorForLedger(endLedger) ELSE page.cursor

\* Fault: a full page that stops on the end ledger is taken for the end.
ReachedEndEvenIfFull(page, full, endLedger) ==
  endLedger # NoLedger /\ LedgerOf(page.cursor) >= endLedger

ReachedEnd(page, full, endLedger) ==
  RunsPast(page, endLedger) \/ (LedgerOf(page.cursor) = endLedger /\ ~full)

\* Fault: the limit climbs past the configured one.
RaisedUncapped(asked) == 2 * asked

Raised(asked) == Min({PageLimit, 2 * asked})

\* Fault: an empty page is taken for the tip.
CaughtUpWhenEmpty(page, full, storedLedger) == page.events = {}

CaughtUp(page, full, storedLedger) == ~full /\ storedLedger >= page.latestLedger

TakePage(p) ==
  LET o      == options[p]
      page   == answer[p].page
      full   == WasFull(page, limit[p])
      cursor == KeptCursor(page, o.endLedger)
      tip    == CaughtUp(page, full, LedgerOf(cursor))
  IN
  /\ pc[p] = "answered" /\ answer[p].kind = "page"
  /\ CommitPage(KeptEvents(page, o.endLedger), cursor)
  /\ IF ReachedEnd(page, full, o.endLedger) THEN Stop(p, "end-ledger")
     ELSE IF tip /\ o.once THEN Stop(p, "caught-up")
     ELSE /\ pc' = [pc EXCEPT ![p] = IF tip THEN "sleeping" ELSE "asking"]
          /\ position' = [position EXCEPT ![p] =
                            [cursor |-> cursor, startLedger |-> 0]]
          /\ limit' = [limit EXCEPT ![p] = Raised(@)]
          /\ answer' = [answer EXCEPT ![p] = Idle]
          /\ UNCHANGED <<options, interrupts, stoppedBecause>>
  /\ UNCHANGED serverVars

Wake(p) ==
  /\ pc[p] = "sleeping"
  /\ pc' = [pc EXCEPT ![p] = "asking"]
  /\ UNCHANGED <<serverVars, storeVars, options, position, limit, answer,
                 interrupts, stoppedBecause>>

-----------------------------------------------------------------------------
(***************************************************************************)
(* Acting on an error.  Every error of an interrupted run ends it quietly. *)
(***************************************************************************)

\* No answer comes: the request failed for good, or the second interrupt
\* abandoned it.
RequestFails(p) ==
  /\ pc[p] = "answered"
  /\ Stop(p, IF Aborted(p) THEN "signal" ELSE "error")
  /\ UNCHANGED <<serverVars, storeVars>>

\* An answer the loop does not go on from.
GiveUp(p) ==
  /\ \/ answer[p].kind \in {"refused", "outside"} /\ Aborted(p)
     \/ answer[p].kind = "refused" /\ limit[p] <= MinPageLimit
     \/ answer[p].kind = "outside" /\ ~options[p].acknowledgeGap
  /\ RequestFails(p)

\* Fault: the page that was refused is asked for again.
LoweredNever(asked) == asked

Lowered(asked) == Max({MinPageLimit, asked \div 2})

AskForLess(p) ==
  /\ pc[p] = "answered" /\ answer[p].kind = "refused" /\ ~Aborted(p)
  /\ limit[p] > MinPageLimit
  /\ limit' = [limit EXCEPT ![p] = Lowered(@)]
  /\ answer' = [answer EXCEPT ![p] = Idle]
  /\ pc' = [pc EXCEPT ![p] = "asking"]
  /\ UNCHANGED <<serverVars, storeVars, options, position, interrupts, stoppedBecause>>

\* Fault: a cursor is read as "up to", not "up to and including".
LostFromInclusive(where) ==
  IF where.cursor = NoCursor THEN where.startLedger ELSE LedgerOf(where.cursor)

\* Fault: the ledger after the cursor's is taken to be still there.
LostFromOneLater(where) ==
  IF where.cursor = NoCursor THEN where.startLedger ELSE LedgerOf(where.cursor) + 2

LostFrom(where) ==
  IF where.cursor = NoCursor THEN where.startLedger ELSE LedgerOf(where.cursor) + 1

\* Only with --acknowledge-gap.
SkipPastRetention(p) ==
  LET first == answer[p].oldest IN
  /\ pc[p] = "answered" /\ answer[p].kind = "outside" /\ ~Aborted(p)
  /\ options[p].acknowledgeGap
  /\ RecordGap([fromLedger |-> LostFrom(position[p]), toLedger |-> first - 1])
  /\ position' = [position EXCEPT ![p] = [cursor |-> NoCursor, startLedger |-> first]]
  /\ answer' = [answer EXCEPT ![p] = Idle]
  /\ pc' = [pc EXCEPT ![p] = "asking"]
  /\ UNCHANGED <<serverVars, options, limit, interrupts, stoppedBecause>>

-----------------------------------------------------------------------------
(***************************************************************************)
(* The world: signals and kills.                                           *)
(***************************************************************************)

Interrupt(p) ==
  /\ pc[p] # "down" /\ interrupts[p] < MaxInterrupts
  /\ interrupts' = [interrupts EXCEPT ![p] = @ + 1]
  /\ UNCHANGED <<serverVars, storeVars, pc, options, position, limit, answer, stoppedBecause>>

Kill(p) ==
  /\ pc[p] # "down"
  /\ Stop(p, "killed")
  /\ UNCHANGED <<serverVars, storeVars>>

-----------------------------------------------------------------------------

Init ==
  /\ ServersInit
  /\ StoreInit
  /\ pc = [p \in Processes |-> "down"]
  /\ options = [p \in Processes |-> NoOptions]
  /\ position = [p \in Processes |-> Nowhere]
  /\ limit = [p \in Processes |-> PageLimit]
  /\ answer = [p \in Processes |-> Idle]
  /\ interrupts = [p \in Processes |-> 0]
  /\ stoppedBecause = [p \in Processes |-> "none"]

Start(p) ==
  \E o \in Options :
    \/ \E n \in 0 .. MaxLedger + 1 : StartFresh(p, o, n)
    \/ Resume(p, o)

\* The steps the event loop of a running process takes by itself.
Run(p) ==
  \/ StopOnSignal(p) \/ AskForPage(p) \/ AskTooMuch(p) \/ AskOutsideWindow(p)
  \/ TakePage(p) \/ Wake(p) \/ GiveUp(p) \/ AskForLess(p) \/ SkipPastRetention(p)

Next ==
  \/ \E s \in Servers : CloseLedger(s) /\ UNCHANGED <<storeVars, procVars>>
  \/ \E p \in Processes :
       Start(p) \/ Run(p) \/ RequestFails(p) \/ Interrupt(p) \/ Kill(p)

Spec == Init /\ [][Next]_vars

-----------------------------------------------------------------------------
(***************************************************************************)
(* Properties.                                                             *)
(***************************************************************************)

Rows == [startLedger : Ledgers, cursor : {NoCursor} \cup Cursors, filters : Filters]
Gaps == [fromLedger : 0 .. MaxLedger + 1, toLedger : 0 .. MaxLedger]
Pages == [events : SUBSET Cursors, cursor : Cursors, latestLedger : Ledgers]
Answers ==
  {Idle, [kind |-> "refused"]}
    \cup [kind : {"page"}, page : Pages] \cup [kind : {"outside"}, oldest : Ledgers]

TypeOK ==
  /\ chain \in Chains
  /\ oldest \in [Servers -> Ledgers] /\ latest \in [Servers -> Ledgers]
  /\ state \in {NoState} \cup Rows /\ stored \subseteq Cursors /\ gaps \subseteq Gaps
  /\ pc \in [Processes -> {"down", "asking", "answered", "sleeping"}]
  /\ position \in [Processes -> [cursor : {NoCursor} \cup Cursors, startLedger : 0 .. MaxLedger]]
  /\ limit \in [Processes -> 0 .. PageLimit]
  /\ answer \in [Processes -> Answers]
  /\ interrupts \in [Processes -> 0 .. MaxInterrupts]
  /\ DOMAIN options = Processes /\ DOMAIN stoppedBecause = Processes
  /\ \A p \in Processes :
       /\ pc[p] # "down" => options[p] \in Options /\ state # NoState
       /\ answer[p].kind # "none" <=> pc[p] = "answered"

\* What a database holds or should hold: the events its filters ever match,
\* from the ledger it started at.
Wanted ==
  IF state = NoState THEN {}
  ELSE {e \in chain[Testnet][state.filters] : LedgerOf(e) >= state.startLedger}

\* The rest of a ledger that a page limit cut through, once the ledger has
\* aged out: nothing in the database says that it is missing.
CutOff(e) ==
  /\ \E s \in Servers : LedgerOf(e) < oldest[s]
  /\ \E d \in stored : LedgerOf(d) = LedgerOf(e)

Accounted(e) == e \in stored \/ InGap(LedgerOf(e)) \/ CutOff(e)

\* "The stored cursor never claims more than the stored events deliver"
\* (ingest.ts:344): whatever was killed, lost, skipped or run side by side,
\* every event up to the cursor is stored or known to be out of reach.
CursorIsHonest ==
  state # NoState => \A e \in Wanted : e <= state.cursor => Accounted(e)

\* A database holds one network's events and what one set of filters
\* matched, whichever configurations were tried on it (preflight and the
\* fingerprint check of resumeOrBegin).
StoredIsGenuine ==
  stored # {} => stored \subseteq chain[Testnet][state.filters]

\* "Ledger ranges this database is known never to have covered" (db.ts:63).
GapsHoldNothing == \A e \in stored : ~InGap(LedgerOf(e))

\* "Two overlapping intervals are one hole, not two" (db.ts:203), and
\* neighbours are one hole as well.
GapsAreApart ==
  /\ \A g \in gaps : g.fromLedger <= g.toLedger
  /\ \A g, h \in gaps : g = h \/ g.toLedger + 1 < h.fromLedger
                             \/ h.toLedger + 1 < g.fromLedger

\* A run sleeps, or stops with --once, only when nothing of what its server
\* had is missing (ingest.ts:8-14): neither the scan cap nor the page limit
\* is mistaken for the tip.
RestsOnlyAtTheTip ==
  [][\A p \in Processes :
       \/ pc'[p] = "sleeping" /\ pc[p] # "sleeping"
       \/ pc[p] # "down" /\ pc'[p] = "down"
            /\ stoppedBecause'[p] = "caught-up"
       => \A e \in Wanted :
            LedgerOf(e) <= answer[p].page.latestLedger => Accounted(e)']_vars

\* "Stop once everything through this ledger is stored" (ingest.ts:42).
EndsOnlyAtTheEnd ==
  [][\A p \in Processes :
       pc[p] # "down" /\ pc'[p] = "down"
         /\ stoppedBecause'[p] = "end-ledger"
       => \A e \in Wanted : LedgerOf(e) <= options[p].endLedger => Accounted(e)']_vars

\* However a run is interrupted, the database is a prefix of the history that
\* grows in order (README.md, "No gap, no duplicates"): no page is stored
\* twice, none is skipped, and only what was out of reach is missing.
History ==
  INSTANCE EventHistory WITH
    wanted     <- Wanted,
    history    <- stored,
    upto       <- IF state = NoState THEN NoCursor ELSE state.cursor,
    outOfReach <- {e \in Wanted : InGap(LedgerOf(e)) \/ CutOff(e)}

ImplementsEventHistory == History!Spec

\* An indexer that stays up comes to hold everything up to the last ledger
\* its server will ever have, however often pages are refused or aged out.
CatchesUp ==
  \A p \in Processes :
    <>[](pc[p] # "down" /\ ~Aborted(p)) =>
      <>[](pc[p] # "down" /\ \A e \in Wanted :
             LedgerOf(e) <= latest[options[p].server] => Accounted(e))

\* An interrupt stops the run, wherever it finds it.
SignalStops == \A p \in Processes : interrupts[p] > 0 ~> pc[p] = "down"

\* The doc of recordGap's caller: nothing is lost without being written down
\* (ingest.ts:309-313).
NothingLostUnrecorded ==
  state # NoState =>
    \A e \in Wanted : e <= state.cursor => e \in stored \/ InGap(LedgerOf(e))
=============================================================================
