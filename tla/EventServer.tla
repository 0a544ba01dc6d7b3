----------------------------- MODULE EventServer -----------------------------
(***************************************************************************)
(* RPC servers, as getEvents shows them: each serves one network, keeps a  *)
(* rolling window of its last ledgers, scans a bounded number of ledgers   *)
(* per request and says through the returned cursor where it stopped.      *)
(* Paging is what offline/replay.ts does; the window of a live server      *)
(* moves, and a live server may decline a page it finds too expensive.     *)
(***************************************************************************)
EXTENDS Toid, FiniteSets, FiniteSetsExt

CONSTANTS
  Servers,       \* the providers an indexer may be pointed at
  Offline,       \* those that are a captured fixture
  Networks,      \* the network each server serves
  Filters,       \* filter sets, by their fingerprint
  Chains,        \* what the networks' histories may be
  ScanCap,       \* RPC_LIMITS.ledgerScan
  DefaultLimit,  \* the page a live server gives when none is asked for
  Capacity,      \* the page a live server never declines
  Retention,     \* ledgers a server keeps
  MaxLedger      \* bound on the ledgers

NoCursor == -1
Ledgers == 1 .. MaxLedger
Cursors == 0 .. CursorForLedger(MaxLedger)

ASSUME ServerAssumption ==
  /\ Offline \subseteq Servers
  /\ \A c \in Chains : \A s \in Servers :
        c[Networks[s]] \in [Filters -> SUBSET EventIds]
  /\ ScanCap \in Nat /\ ScanCap > 1
  /\ DefaultLimit \in Nat \ {0} /\ Capacity \in Nat
  /\ Retention \in Nat \ {0} /\ MaxLedger \in Nat \ {0}

VARIABLES
  chain,   \* chain[network][filters]: the events that ever match
  oldest,  \* oldest[s]: first ledger server s still has
  latest   \* latest[s]: last ledger server s has seen

serverVars == <<chain, oldest, latest>>

\* A fixture has all it will ever have.
ServersInit ==
  /\ chain \in Chains
  /\ oldest = [s \in Servers |-> 1]
  /\ latest = [s \in Servers |-> IF s \in Offline THEN MaxLedger ELSE 1]

\* A server learns of a ledger and lets its oldest one go.
CloseLedger(s) ==
  /\ latest[s] < MaxLedger
  /\ latest' = [latest EXCEPT ![s] = @ + 1]
  /\ oldest' = [oldest EXCEPT ![s] =
                  IF latest[s] - @ + 1 = Retention THEN @ + 1 ELSE @]
  /\ UNCHANGED chain

-----------------------------------------------------------------------------
(***************************************************************************)
(* One answer to getEvents.  A request is where to start reading, as a     *)
(* cursor or else as a ledger.                                             *)
(***************************************************************************)

FirstLedger(request) ==
  IF request.cursor = NoCursor THEN request.startLedger
  ELSE LedgerOf(request.cursor)

\* A cursor may also stand in the ledger just before the window.
InWindow(s, request) ==
  /\ FirstLedger(request) <= latest[s]
  /\ FirstLedger(request) >=
       IF request.cursor = NoCursor THEN oldest[s] ELSE oldest[s] - 1

\* A live server reads a limit of nothing as its default; a fixture obeys.
Granted(s, asked) == IF asked = 0 /\ s \notin Offline THEN DefaultLimit ELSE asked

MayRefuse(s, asked) == s \notin Offline /\ Granted(s, asked) > Capacity

ScanEnd(s, request) == Min({latest[s], FirstLedger(request) + ScanCap - 1})

\* The events a request scans, before the page limit.
Scanned(s, filters, request) ==
  {e \in chain[Networks[s]][filters] :
     /\ e > request.cursor
     /\ LedgerOf(e) >= oldest[s]
     /\ LedgerOf(e) \in FirstLedger(request) .. ScanEnd(s, request)}

FirstOf(events, n) ==
  {e \in events : Cardinality({d \in events : d <= e}) <= n}

GetEvents(s, filters, request, asked) ==
  LET page == FirstOf(Scanned(s, filters, request), Granted(s, asked))
  IN  [events |-> page,
       cursor |-> IF page = {} THEN CursorForLedger(ScanEnd(s, request))
                  ELSE Max(page),
       latestLedger |-> latest[s]]
=============================================================================
