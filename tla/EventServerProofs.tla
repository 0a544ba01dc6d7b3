-------------------------- MODULE EventServerProofs --------------------------
(***************************************************************************)
(* Theorems about EventServer: what the order of event ids says of their   *)
(* ledgers, and what one page says of the ledgers that it scanned.         *)
(***************************************************************************)
EXTENDS EventServer, Extremes

-----------------------------------------------------------------------------
(***************************************************************************)
(* Ledgers and ids.                                                        *)
(***************************************************************************)

LEMMA LedgerOfType == \A id \in Nat : LedgerOf(id) \in Nat
  BY LedgerSizeAssumption, BlockBounds DEF LedgerOf

LEMMA LedgerOfBounds ==
  ASSUME NEW id \in Nat
  PROVE  LedgerOf(id) * LedgerSize <= id /\ id < LedgerOf(id) * LedgerSize + LedgerSize
  BY LedgerSizeAssumption, BlockBounds DEF LedgerOf

\* The order of ids is the order of their ledgers.
LEMMA LedgerOfMonotone ==
  ASSUME NEW a \in Nat, NEW b \in Nat, a <= b
  PROVE  LedgerOf(a) <= LedgerOf(b)
  BY LedgerSizeAssumption, BlockMonotone DEF LedgerOf

\* The cursor of a ledger is its last id.
LEMMA CursorEndsLedger ==
  ASSUME NEW n \in Nat
  PROVE  /\ CursorForLedger(n) \in Nat
         /\ LedgerOf(CursorForLedger(n)) = n
         /\ \A id \in Nat : id <= CursorForLedger(n) <=> LedgerOf(id) <= n
  BY LedgerSizeAssumption, BlockEnd DEF LedgerOf, CursorForLedger

-----------------------------------------------------------------------------
(***************************************************************************)
(* Pages.                                                                  *)
(***************************************************************************)

\* A page limit takes events in order, and takes all there are if it is not
\* reached (offline/replay.ts, the slice of the sorted matches).
LEMMA FirstOfInOrder ==
  ASSUME NEW S \in SUBSET Nat, NEW b \in Nat, \A y \in S : y <= b,
         NEW n \in Nat
  PROVE  /\ FirstOf(S, n) \subseteq S
         /\ IsFiniteSet(FirstOf(S, n))
         /\ \A e \in FirstOf(S, n), d \in S : d <= e => d \in FirstOf(S, n)
         /\ n > 0 /\ S # {} => FirstOf(S, n) # {}
         /\ Cardinality(FirstOf(S, n)) < n => FirstOf(S, n) = S
<1>. DEFINE UpTo(e) == {d \in S : d <= e}
            F == FirstOf(S, n)
<1>1. F = {e \in S : Cardinality(UpTo(e)) <= n}
  BY DEF FirstOf
<1>2. IsFiniteSet(S) /\ \A T \in SUBSET S : IsFiniteSet(T) /\ Cardinality(T) \in Nat
  BY FS_BoundedSetOfNaturals, FS_Subset, FS_CardinalityType
<1>3. F \subseteq S /\ IsFiniteSet(F)
  BY <1>1, <1>2
<1>4. ASSUME NEW e \in F, NEW d \in S, d <= e PROVE d \in F
  <2>1. UpTo(d) \in SUBSET UpTo(e) /\ UpTo(e) \in SUBSET S
    <3>1. e \in S
      BY <1>3
    <3>2. \A y \in S : y <= d => y <= e
      BY <1>4, <3>1
    <3>. QED  BY <3>2
  <2>2. Cardinality(UpTo(d)) <= Cardinality(UpTo(e))
    BY <1>2, <2>1, FS_Subset
  <2>3. Cardinality(UpTo(d)) \in Nat /\ Cardinality(UpTo(e)) \in Nat
    BY <1>2, <2>1
  <2>4. Cardinality(UpTo(e)) <= n
    BY <1>1
  <2>5. Cardinality(UpTo(d)) <= n
    BY <2>2, <2>3, <2>4
  <2>. QED  BY <1>1, <2>5
<1>5. ASSUME n > 0, S # {} PROVE F # {}
  <2>1. PICK m \in S : \A y \in S : m <= y
    BY <1>5, MinIsLeast
  <2>2. UpTo(m) = {m}
    <3>. SUFFICES ASSUME NEW d \in S PROVE d <= m <=> d = m
      OBVIOUS
    <3>. QED  BY <2>1
  <2>3. Cardinality(UpTo(m)) = 1
    BY <2>2, FS_Singleton
  <2>. QED  BY <1>1, <1>5, <2>3
<1>6. ASSUME Cardinality(F) < n PROVE F = S
  <2>. SUFFICES ASSUME S \ F # {} PROVE FALSE
    BY <1>3
  <2>1. PICK m \in S \ F : \A y \in S \ F : m <= y
    BY MinIsLeast
  <2>2. UpTo(m) \subseteq F \cup {m}
    <3>. SUFFICES ASSUME NEW d \in S, d <= m, d \notin F PROVE d = m
      OBVIOUS
    <3>. QED  BY <2>1
  <2>3. m \notin F
    BY <2>1
  <2>4. /\ IsFiniteSet(F \cup {m})
        /\ Cardinality(F \cup {m}) = Cardinality(F) + 1
    BY <1>3, <2>3, FS_AddElement
  <2>5. Cardinality(UpTo(m)) <= Cardinality(F \cup {m})
    BY <2>2, <2>4, FS_Subset
  <2>6. Cardinality(UpTo(m)) \in Nat /\ Cardinality(F) \in Nat
    BY <1>2, <1>3
  <2>7. Cardinality(UpTo(m)) <= n
    BY <1>6, <2>4, <2>5, <2>6
  <2>. QED  BY <1>1, <2>1, <2>7
<1>. QED  BY <1>3, <1>4, <1>5, <1>6

Requests == [cursor : {NoCursor} \cup Nat, startLedger : Nat]

\* What a page says: where it stops, what it holds, and that it leaves nothing
\* out of what the server still has between the request and the cursor, nor of
\* the cursor's ledger unless the page is full.
PageIsFrom(page, s, f, request) ==
  /\ page = [events |-> page.events, cursor |-> page.cursor,
             latestLedger |-> latest[s]]
  /\ page.events \subseteq chain[Networks[s]][f]
  /\ page.cursor \in Nat
  /\ page.cursor >= request.cursor
  /\ LedgerOf(page.cursor) \in FirstLedger(request) .. latest[s]
  /\ \/ page.cursor \in page.events
     \/ page.cursor = CursorForLedger(LedgerOf(page.cursor))
  /\ \A e \in page.events :
       /\ e \in Nat /\ e > request.cursor /\ e <= page.cursor
       /\ LedgerOf(e) >= oldest[s] /\ LedgerOf(e) >= FirstLedger(request)

PageIsComplete(page, s, f, request, asked) ==
  \A e \in chain[Networks[s]][f] :
    /\ e > request.cursor
    /\ LedgerOf(e) >= oldest[s] /\ LedgerOf(e) >= FirstLedger(request)
    /\ \/ Granted(s, asked) > 0 /\ e <= page.cursor
       \/ /\ Cardinality(page.events) < asked
          /\ LedgerOf(e) <= LedgerOf(page.cursor)
    => e \in page.events

\* What getEvents answers (offline/replay.ts).
THEOREM GetEventsIsRight ==
  ASSUME NEW s \in Servers, NEW f, NEW request \in Requests, NEW asked \in Nat,
         chain[Networks[s]][f] \in SUBSET EventIds,
         latest[s] \in Nat, oldest[s] \in Nat, InWindow(s, request)
  PROVE  LET page == GetEvents(s, f, request, asked)
         IN  /\ PageIsFrom(page, s, f, request)
             /\ PageIsComplete(page, s, f, request, asked)
<1>. DEFINE First == FirstLedger(request)
            End == ScanEnd(s, request)
            S == Scanned(s, f, request)
            n == Granted(s, asked)
            events == FirstOf(S, n)
            page == GetEvents(s, f, request, asked)
<1>1. First \in Nat /\ First <= latest[s]
  BY LedgerOfType DEF FirstLedger, Requests, InWindow
<1>2. End \in First .. latest[s] /\ End \in Nat
  BY <1>1, ServerAssumption, MinOfTwo DEF ScanEnd
<1>3. n \in Nat /\ (asked > 0 => n = asked)
  BY ServerAssumption DEF Granted
<1>4. \A e \in S : /\ e \in Nat /\ e \in chain[Networks[s]][f] /\ e > request.cursor
                   /\ LedgerOf(e) >= oldest[s] /\ LedgerOf(e) \in First .. End
  BY DEF Scanned, EventIds
<1>5. CursorForLedger(End) \in Nat /\ \A e \in S : e <= CursorForLedger(End)
  BY <1>2, <1>4, CursorEndsLedger
<1>6. /\ events \subseteq S /\ IsFiniteSet(events)
      /\ \A e \in events, d \in S : d <= e => d \in events
      /\ n > 0 /\ S # {} => events # {}
      /\ Cardinality(events) < n => events = S
  <2>. HIDE DEF S, n
  <2>. QED  BY <1>3, <1>4, <1>5, FirstOfInOrder
<1>7. page = [events |-> events,
              cursor |-> IF events = {} THEN CursorForLedger(End) ELSE Max(events),
              latestLedger |-> latest[s]]
  BY DEF GetEvents
<1>. HIDE DEF First, End, S, n, events, page
<1>8. CASE events = {}
  <2>1. page.cursor = CursorForLedger(End) /\ page.events = {}
    BY <1>7, <1>8
  <2>2. page.cursor \in Nat /\ LedgerOf(page.cursor) = End
    BY <1>2, <2>1, CursorEndsLedger
  <2>3. page.cursor >= request.cursor
    <3>1. CASE request.cursor = NoCursor
      BY <2>2, <3>1 DEF NoCursor
    <3>2. CASE request.cursor \in Nat
      <4>1. LedgerOf(request.cursor) <= End
        BY <1>2, <3>2 DEF First, FirstLedger, NoCursor
      <4>. QED  BY <1>2, <2>1, <3>2, <4>1, CursorEndsLedger
    <3>. QED  BY <3>1, <3>2 DEF Requests
  <2>4. ASSUME NEW e \in chain[Networks[s]][f], e > request.cursor,
               LedgerOf(e) >= oldest[s], LedgerOf(e) >= First,
               \/ n > 0 /\ e <= page.cursor
               \/ Cardinality(page.events) < asked /\ LedgerOf(e) <= LedgerOf(page.cursor)
        PROVE  FALSE
    <3>1. e \in Nat
      BY <2>4 DEF EventIds
    <3>2. LedgerOf(e) <= End
      BY <1>2, <2>1, <2>2, <2>4, <3>1, CursorEndsLedger
    <3>3. LedgerOf(e) \in Nat
      BY <3>1, LedgerOfType
    <3>4. e \in S
      BY <1>1, <1>2, <2>4, <3>2, <3>3 DEF Scanned, S, End, First
    <3>5. n > 0
      BY <1>3, <1>8, <2>1, <2>4, FS_EmptySet
    <3>. QED  BY <1>6, <1>8, <3>4, <3>5
  <2>5. page = [events |-> page.events, cursor |-> page.cursor, latestLedger |-> latest[s]]
    BY <1>7
  <2>6. PageIsFrom(page, s, f, request)
    BY <1>2, <2>1, <2>2, <2>3, <2>5 DEF PageIsFrom, First
  <2>7. PageIsComplete(page, s, f, request, asked)
    BY <2>4 DEF PageIsComplete, First, n
  <2>. QED  BY <2>6, <2>7 DEF page
<1>9. CASE events # {}
  <2>1. page.cursor = Max(events) /\ page.events = events
    BY <1>7, <1>9
  <2>2. page.cursor \in events /\ \A e \in events : e <= page.cursor
    <3>1. events \in SUBSET Nat /\ \A e \in events : e <= CursorForLedger(End)
      BY <1>4, <1>5, <1>6
    <3>. QED  BY <1>5, <1>9, <2>1, <3>1, MaxIsGreatest
  <2>3. /\ page.cursor \in Nat /\ page.cursor > request.cursor
        /\ LedgerOf(page.cursor) \in First .. End
    BY <1>4, <1>6, <2>2
  <2>4. ASSUME NEW e \in chain[Networks[s]][f], e > request.cursor,
               LedgerOf(e) >= oldest[s], LedgerOf(e) >= First,
               \/ n > 0 /\ e <= page.cursor
               \/ Cardinality(page.events) < asked /\ LedgerOf(e) <= LedgerOf(page.cursor)
        PROVE  e \in page.events
    <3>1. e \in Nat
      BY <2>4 DEF EventIds
    <3>2. LedgerOf(e) <= LedgerOf(page.cursor)
      BY <2>3, <2>4, <3>1, LedgerOfMonotone
    <3>3. LedgerOf(e) \in Nat
      BY <3>1, LedgerOfType
    <3>4. e \in S
      BY <1>1, <1>2, <2>3, <2>4, <3>2, <3>3 DEF Scanned, S, End, First
    <3>5. CASE e <= page.cursor
      BY <1>6, <2>1, <2>2, <3>4, <3>5
    <3>6. CASE Cardinality(page.events) < asked
      <4>1. Cardinality(events) < n
        BY <1>3, <1>6, <2>1, <3>6, FS_CardinalityType
      <4>. QED  BY <1>6, <2>1, <3>4, <4>1
    <3>. QED  BY <2>4, <3>5, <3>6
  <2>5. page = [events |-> page.events, cursor |-> page.cursor, latestLedger |-> latest[s]]
    BY <1>7
  <2>6. \A e \in page.events :
          /\ e \in Nat /\ e > request.cursor /\ e <= page.cursor
          /\ LedgerOf(e) >= oldest[s] /\ LedgerOf(e) >= First
          /\ e \in chain[Networks[s]][f]
    BY <1>4, <1>6, <2>1, <2>2
  <2>7. page.cursor >= request.cursor /\ LedgerOf(page.cursor) \in First .. latest[s]
    BY <1>2, <2>3 DEF Requests, NoCursor
  <2>8. PageIsFrom(page, s, f, request)
    BY <2>1, <2>2, <2>3, <2>5, <2>6, <2>7 DEF PageIsFrom, First
  <2>9. PageIsComplete(page, s, f, request, asked)
    BY <2>4 DEF PageIsComplete, First, n
  <2>. QED  BY <2>8, <2>9 DEF page
<1>. QED  BY <1>8, <1>9
=============================================================================
