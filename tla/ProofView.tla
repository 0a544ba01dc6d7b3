----------------------------- MODULE ProofView -----------------------------
(***************************************************************************)
(* The proof view: src/web/server.ts and src/web/page.ts over the database *)
(* an indexer of another process is filling, and api/index.ts, which fills *)
(* a database of its own before it serves.  A page is put together from    *)
(* several queries, and the indexer may commit between any two of them.    *)
(* A full page may end inside a ledger, whose rest the next one stores, or *)
(* no one does, if that ledger is out of reach by then.  The indexer runs  *)
(* without --end-ledger.                                                   *)
(***************************************************************************)
EXTENDS TraceStore, Toid

CONSTANTS
  MaxLedger,    \* bound on the ledgers
  Matching,     \* the events the filters match, of a transaction each
  RecentLimit,  \* recentLimit
  Host          \* serve or api

Down == -1
NoLedger == 0
NoTx == 0
NoPage == [view |-> "none"]
ErrorPage == [view |-> "error"]

VARIABLES
  position,  \* the cursor the running indexer has come to
  listener,  \* of api/index.ts: none, building, ready, failed
  at,        \* the next query of the request being answered
  view,      \* the page it asks for
  asked,     \* the transaction it asks about
  got,       \* what its queries have returned
  page       \* the page last sent

viewVars == <<listener, at, view, asked, got, page>>
vars == <<storeVars, position, viewVars>>

Nothing == [events |-> 0, first |-> NoLedger, last |-> NoLedger, inIndex |-> FALSE,
            start |-> NoLedger, through |-> NoLedger, gaps |-> {}]

Init ==
  /\ StoreInit /\ position = Down
  /\ listener = IF Host = "serve" THEN "ready" ELSE "none"
  /\ at = "idle" /\ view = "none" /\ asked = NoTx /\ got = Nothing /\ page = NoPage

-----------------------------------------------------------------------------
(***************************************************************************)
(* The indexer.                                                            *)
(***************************************************************************)

MayIndex == Host = "serve" \/ listener = "building"

Starts ==
  /\ MayIndex /\ position = Down
  /\ IF state = NoState
     THEN /\ \E n \in IF Host = "api" THEN {1} ELSE 1 .. 2 : 
               Begin(n, "filters", CursorForLedger(n - 1))
          /\ position' = state'.cursor
     ELSE position' = state.cursor /\ UNCHANGED storeVars
  /\ UNCHANGED viewVars

\* A full page ends at an event, inside a ledger or not; another may have come
\* to the end of a ledger.
PageEnds == Matching \cup {CursorForLedger(n) : n \in 1 .. MaxLedger}

\* A page starts after the cursor, wherever in its ledger that is; and after that
\* ledger, once the live server has let it go.
PageStarts ==
  {position} \cup IF Host = "serve" THEN {CursorForLedger(LedgerOf(position))} ELSE {}

Indexes ==
  /\ MayIndex /\ position # Down
  /\ \E from \in PageStarts, cursor \in PageEnds :
       /\ from < cursor
       /\ CommitPage({e \in Matching : from < e /\ e <= cursor}, cursor)
       /\ position' = cursor
  /\ UNCHANGED viewVars

\* History that has aged out is recorded; the cursor passes it with the next page.
SkipsHole ==
  /\ Host = "serve" /\ position # Down
  /\ \E n \in LedgerOf(position) + 1 .. MaxLedger :
       /\ RecordGap([fromLedger |-> LedgerOf(position) + 1, toLedger |-> n])
       /\ position' = CursorForLedger(n)
  /\ UNCHANGED viewVars

Dies == position # Down /\ position' = Down /\ UNCHANGED <<storeVars, viewVars>>

-----------------------------------------------------------------------------
(***************************************************************************)
(* The listener of api/index.ts: built by the first request, kept.         *)
(***************************************************************************)

handler ==
  /\ listener = "none" /\ listener' = "building"
  /\ UNCHANGED <<storeVars, position, at, view, asked, got, page>>

\* Its indexer ends once it has caught up: a page that was not full, of the last
\* ledger.
CaughtUp == LedgerOf(position) = MaxLedger /\ \A e \in Matching : e <= position

Built ==
  /\ listener = "building"
  /\ \/ position # Down /\ CaughtUp /\ listener' = "ready" /\ UNCHANGED position
     \/ listener' = "failed" /\ position' = Down
  /\ UNCHANGED <<storeVars, at, view, asked, got, page>>

\* The platform recycles the instance, and /tmp with it.
Recycled ==
  /\ Host = "api" /\ listener # "none" /\ listener' = "none" /\ position' = Down
  /\ state' = NoState /\ stored' = {} /\ gaps' = {}
  /\ at' = "idle" /\ view' = "none" /\ asked' = NoTx /\ got' = Nothing /\ page' = NoPage

-----------------------------------------------------------------------------
(***************************************************************************)
(* A request, query by query.  Every view asks for stats, state and gaps,  *)
(* in the order state() does.                                              *)
(***************************************************************************)

\* Fault: the gaps are asked for before the state.
OrderGapsFirst == <<"stats", "gaps", "ingest">>

Order == <<"stats", "ingest", "gaps">>
First == Order[1]

Ask(v, next, tx) ==
  /\ listener = "ready" /\ at = "idle"
  /\ at' = next /\ view' = v /\ asked' = tx /\ got' = Nothing /\ page' = NoPage
  /\ UNCHANGED <<storeVars, position, listener>>

home == Ask("home", First, NoTx)
unknownPath == Ask("not-found", First, NoTx)
badHash == Ask("bad-hash", First, NoTx)

\* A transaction of the network, with an event that matches or without.
Transactions ==
  {tx \in LedgerSize .. CursorForLedger(MaxLedger) : tx # CursorForLedger(LedgerOf(tx))}

trace == \E tx \in Transactions : Ask("trace", "source", tx)

Goes(next) == at' = next /\ UNCHANGED <<storeVars, position, listener, asked>>

\* The source fails, does not know the transaction, or has it.
getTransaction ==
  /\ at = "source"
  /\ \/ Goes("idle") /\ page' = ErrorPage /\ UNCHANGED <<view, got>>
     \/ Goes(First) /\ view' = "not-found" /\ UNCHANGED <<got, page>>
     \/ Goes("events") /\ UNCHANGED <<view, got, page>>

eventsForTransaction ==
  /\ at = "events"
  /\ got' = [got EXCEPT !.inIndex = asked \in stored]
  /\ \/ Goes(First) /\ UNCHANGED <<view, page>>
     \/ Goes("idle") /\ page' = ErrorPage /\ UNCHANGED view  \* a MetaError

Newest == {e \in stored : Cardinality({d \in stored : d > e}) < RecentLimit}

rangeBanner(found) ==
  [start |-> found.start, through |-> found.through, events |-> found.events,
   gaps |-> found.gaps]

\* What the trace of a transaction says of where it comes from.
provenance(found) ==
  IF view # "trace" THEN "none" ELSE IF found.inIndex THEN "in the index" ELSE "outside"

Shown(found, suggested) ==
  [view |-> view, asked |-> asked, banner |-> rangeBanner(found),
   provenance |-> provenance(found), suggested |-> suggested]

\* A query of state() returns; after the last one the page is sent, except that
\* the home page still looks for transactions to suggest.
Returns(query, found) ==
  /\ at = query /\ UNCHANGED view
  /\ IF query # Order[3]
     THEN /\ \E i \in 1 .. 2 : Order[i] = query /\ Goes(Order[i + 1])
          /\ got' = found /\ UNCHANGED page
     ELSE IF view = "home" THEN Goes("recent") /\ got' = found /\ UNCHANGED page
     ELSE Goes("idle") /\ page' = Shown(found, {}) /\ UNCHANGED got

stats ==
  Returns("stats", [got EXCEPT !.events = Cardinality(stored),
           !.first = IF stored = {} THEN NoLedger ELSE LedgerOf(Min(stored)),
           !.last = IF stored = {} THEN NoLedger ELSE LedgerOf(Max(stored))])

NoCursorYet == state = NoState \/ LedgerOf(state.cursor) < state.startLedger

\* Where there is no state, or no cursor in it, the stats stand in.
readState ==
  Returns("ingest",
    [got EXCEPT !.start = IF state = NoState THEN got.first ELSE state.startLedger,
                !.through = IF NoCursorYet THEN got.last ELSE LedgerOf(state.cursor)])

gapsOf == Returns("gaps", [got EXCEPT !.gaps = gaps])

recentTransactions ==
  /\ at = "recent" /\ Goes("idle")
  /\ page' = Shown(got, Newest) /\ UNCHANGED <<view, got>>

Indexer == Starts \/ Indexes \/ SkipsHole \/ Dies
Requests == home \/ unknownPath \/ badHash \/ trace
Queries ==
  \/ getTransaction \/ eventsForTransaction \/ stats \/ readState \/ gapsOf
  \/ recentTransactions

Next == Indexer \/ handler \/ Built \/ Recycled \/ Requests \/ Queries

Spec == Init /\ [][Next]_vars

-----------------------------------------------------------------------------
HasBanner == page.view \notin {"none", "error"}

HasRange == HasBanner /\ page.banner.start # NoLedger /\ page.banner.through # NoLedger

\* The events a page claims to cover, by its range.
InRange == {e \in Matching : LedgerOf(e) \in page.banner.start .. page.banner.through}

ShownAsGap(e) == \E g \in page.banner.gaps : LedgerOf(e) \in g.fromLedger .. g.toLedger

\* The rest of a ledger a full page was cut in: not stored yet, or never.
CutOff(e) == \E d \in stored : d < e /\ LedgerOf(d) = LedgerOf(e)

\* ingest.ts:309-313, page.ts:76-103: a page never presents a ledger that was never
\* read as one without events: of every ledger of its range the database has what
\* matched, or the page shows a gap there, or a page was cut in that ledger, though
\* range and gaps are of different moments.  A page of api/index.ts is over the
\* whole fixture, cut ledgers and all.
PagesAreHonest ==
  HasRange =>
    /\ \A e \in InRange : e \in stored \/ ShownAsGap(e) \/ CutOff(e)
    /\ Host = "api" => /\ page.banner.start = 1 /\ page.banner.through = MaxLedger
                        /\ Matching \subseteq stored

\* page.ts:80, README.md:246: the ledgers from the first to the last a page names
\* are indexed, but for the gaps it shows.  Not so while a page is cut in one of them.
RangeIsIndexed == HasRange => \A e \in InRange : e \in stored \/ ShownAsGap(e)

\* page.ts:17-19: what a page says to be outside the indexed range is outside
\* the range it shows.  Not so of a transaction in it that no filter matched.
OutsideIsOutside ==
  HasBanner /\ page.provenance = "outside" =>
    LedgerOf(page.asked) \notin page.banner.start .. page.banner.through
=============================================================================
