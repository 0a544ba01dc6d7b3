---------------------------- MODULE IngestProofs ----------------------------
(***************************************************************************)
(* Theorems about Ingest, for any number of indexers on one database, any  *)
(* servers, histories and command lines, except where one says otherwise.  *)
(***************************************************************************)
EXTENDS Ingest, EventServerProofs

-----------------------------------------------------------------------------
(***************************************************************************)
(* Types.                                                                  *)
(***************************************************************************)

\* The numbers the types are made of.
LEMMA Bounds ==
  /\ MaxLedger \in Nat \ {0} /\ CursorForLedger(MaxLedger) \in Nat
  /\ \A c \in Nat : c \in Cursors <=> LedgerOf(c) <= MaxLedger
<1>1. MaxLedger \in Nat \ {0}
  BY ServerAssumption
<1>. QED  BY <1>1, CursorEndsLedger DEF Cursors

\* The ledger of a request or an answer.
LEMMA CursorLedger ==
  ASSUME NEW c \in Cursors
  PROVE  c \in Nat /\ LedgerOf(c) \in 0 .. MaxLedger
BY Bounds, LedgerOfType DEF Cursors

LEMMA PositionIsRequest ==
  ASSUME TypeOK, NEW p \in Processes
  PROVE  position[p] \in Requests
BY DEF TypeOK, Requests, Cursors

\* What a running process may be answered.
LEMMA AnsweredPage ==
  ASSUME TypeOK, NEW p \in Processes, pc[p] # "down",
         InWindow(options[p].server, position[p])
  PROVE  LET s    == options[p].server
             f    == options[p].filters
             page == GetEvents(s, f, position[p], limit[p])
         IN  /\ s \in Servers /\ f \in Filters
             /\ chain[Networks[s]][f] \in SUBSET EventIds
             /\ page \in Pages
             /\ PageIsFrom(page, s, f, position[p])
             /\ PageIsComplete(page, s, f, position[p], limit[p])
<1>. DEFINE s == options[p].server
            f == options[p].filters
            page == GetEvents(s, f, position[p], limit[p])
<1>1. s \in Servers /\ f \in Filters
  BY OptionsAssumption DEF TypeOK
<1>2. chain[Networks[s]] \in [Filters -> SUBSET EventIds]
  BY <1>1, ServerAssumption DEF TypeOK
<1>3. chain[Networks[s]][f] \in SUBSET EventIds
  BY <1>1, <1>2
<1>4. /\ latest[s] \in Ledgers /\ oldest[s] \in Ledgers
      /\ latest[s] \in Nat /\ oldest[s] \in Nat /\ latest[s] <= MaxLedger
      /\ limit[p] \in Nat
  BY <1>1, LimitAssumption, Bounds DEF TypeOK, Ledgers
<1>5. /\ PageIsFrom(page, s, f, position[p])
      /\ PageIsComplete(page, s, f, position[p], limit[p])
  BY <1>1, <1>3, <1>4, PositionIsRequest, GetEventsIsRight
<1>6. page.cursor \in Cursors
  BY <1>4, <1>5, Bounds, LedgerOfType DEF PageIsFrom
<1>7. page.events \subseteq Cursors
  <2>. SUFFICES ASSUME NEW e \in page.events PROVE e \in Cursors
    OBVIOUS
  <2>1. e \in Nat /\ e <= page.cursor
    BY <1>5 DEF PageIsFrom
  <2>. QED  BY <1>6, <2>1, Bounds DEF Cursors
<1>8. page \in Pages
  BY <1>4, <1>5, <1>6, <1>7 DEF PageIsFrom, Pages
<1>. QED  BY <1>1, <1>3, <1>5, <1>8

LEMMA KeptPage ==
  ASSUME NEW page \in Pages, NEW endLedger \in Nat \cup {NoLedger}
  PROVE  /\ KeptEvents(page, endLedger) \subseteq page.events
         /\ KeptCursor(page, endLedger) \in Cursors
         /\ KeptCursor(page, endLedger) <= page.cursor
<1>1. page.cursor \in Cursors
  BY DEF Pages
<1>2. page.cursor \in Nat /\ LedgerOf(page.cursor) \in 0 .. MaxLedger
  BY <1>1, CursorLedger
<1>3. CASE RunsPast(page, endLedger)
  <2>1. endLedger \in Nat /\ endLedger < LedgerOf(page.cursor)
    BY <1>3 DEF RunsPast, NoLedger
  <2>2. /\ CursorForLedger(endLedger) \in Nat
        /\ LedgerOf(CursorForLedger(endLedger)) = endLedger
        /\ ~(page.cursor <= CursorForLedger(endLedger))
    BY <1>2, <2>1, CursorEndsLedger
  <2>. QED  BY <1>2, <1>3, <2>1, <2>2, Bounds DEF KeptEvents, KeptCursor
<1>4. CASE ~RunsPast(page, endLedger)
  BY <1>1, <1>2, <1>4 DEF KeptEvents, KeptCursor
<1>. QED  BY <1>3, <1>4

LEMMA LimitMoves ==
  ASSUME NEW asked \in 0 .. PageLimit
  PROVE  /\ Raised(asked) \in 0 .. PageLimit
         /\ PageLimit > 0 /\ asked > 0 => Raised(asked) > 0
         /\ asked > MinPageLimit => Lowered(asked) \in 1 .. PageLimit
<1>1. asked \in Nat /\ PageLimit \in Nat /\ MinPageLimit \in Nat \ {0}
  BY LimitAssumption
<1>2. Raised(asked) = IF PageLimit <= 2 * asked THEN PageLimit ELSE 2 * asked
  BY <1>1, MinOfTwo DEF Raised
<1>3. Lowered(asked) = IF MinPageLimit >= asked \div 2 THEN MinPageLimit ELSE asked \div 2
  BY <1>1, MaxOfTwo DEF Lowered
<1>. QED  BY <1>1, <1>2, <1>3

\* A gap that is merged covers what its parts cover, and no more.
LEMMA MergedCovers ==
  ASSUME gaps \subseteq Gaps, NEW gap \in Gaps
  PROVE  /\ Merged(gap) \in Gaps
         /\ \A g \in Touching(gap) \cup {gap} :
              Merged(gap).fromLedger <= g.fromLedger /\ g.toLedger <= Merged(gap).toLedger
         /\ \E g \in Touching(gap) \cup {gap} : g.fromLedger = Merged(gap).fromLedger
         /\ \E g \in Touching(gap) \cup {gap} : g.toLedger = Merged(gap).toLedger
<1>. DEFINE parts == Touching(gap) \cup {gap}
            Froms == {g.fromLedger : g \in parts}
            Tos == {g.toLedger : g \in parts}
<1>1. parts \subseteq Gaps
  BY DEF Touching
<1>2. /\ Froms \in SUBSET Nat /\ Froms # {} /\ Froms \subseteq 0 .. MaxLedger + 1
      /\ Tos \in SUBSET Nat /\ Tos # {} /\ \A t \in Tos : t <= MaxLedger
  BY <1>1 DEF Gaps
<1>3. Min(Froms) \in Froms /\ \A n \in Froms : Min(Froms) <= n
  <2>. HIDE DEF Froms
  <2>. QED  BY <1>2, MinIsLeast
<1>4. Max(Tos) \in Tos /\ \A n \in Tos : n <= Max(Tos)
  <2>. HIDE DEF Tos
  <2>. QED  BY <1>2, MaxIsGreatest, Bounds
<1>5. Merged(gap) = [fromLedger |-> Min(Froms), toLedger |-> Max(Tos)]
  BY DEF Merged
<1>6. Merged(gap) \in Gaps
  BY <1>1, <1>3, <1>4, <1>5 DEF Gaps
<1>7. \A g \in parts : Min(Froms) <= g.fromLedger /\ g.toLedger <= Max(Tos)
  BY <1>3, <1>4
<1>8. /\ \E g \in parts : g.fromLedger = Min(Froms)
      /\ \E g \in parts : g.toLedger = Max(Tos)
  BY <1>3, <1>4
<1>. HIDE DEF Froms, Tos
<1>. QED  BY <1>5, <1>6, <1>7, <1>8

LEMMA IdleType == Idle \in Answers /\ Idle.kind = "none" /\ NoCursor = -1
BY DEF Idle, Answers, NoCursor

\* The end of a process, whatever it does to the database before.
LEMMA StopType ==
  ASSUME TypeOK, NEW p \in Processes, NEW because, Stop(p, because),
         UNCHANGED serverVars,
         state' \in {NoState} \cup Rows, stored' \subseteq Cursors, gaps' \subseteq Gaps,
         state # NoState => state' # NoState
  PROVE  TypeOK'
<1>1. /\ pc' \in [Processes -> {"down", "asking", "answered", "sleeping"}]
      /\ position' \in [Processes -> [cursor : {NoCursor} \cup Cursors, startLedger : 0 .. MaxLedger]]
      /\ limit' \in [Processes -> 0 .. PageLimit]
      /\ answer' \in [Processes -> Answers]
      /\ interrupts' \in [Processes -> 0 .. MaxInterrupts]
      /\ DOMAIN options' = Processes /\ DOMAIN stoppedBecause' = Processes
  BY IdleType, Bounds, LimitAssumption DEF TypeOK, Stop, Nowhere
<1>2. ASSUME NEW q \in Processes
      PROVE  /\ pc'[q] # "down" => options'[q] \in Options /\ state' # NoState
             /\ answer'[q].kind # "none" <=> pc'[q] = "answered"
  BY IdleType DEF TypeOK, Stop
<1>. QED  BY <1>1, <1>2 DEF TypeOK, serverVars

LEMMA RowIsNotNoState == NoState \notin Rows
<1>1. Rows \subseteq [startLedger : Nat, cursor : Int, filters : Filters]
  BY Bounds, CursorLedger DEF Rows, Ledgers, NoCursor
<1>. QED  BY <1>1, NoStateAssumption

\* A step of a running process that stays up.
LEMMA StayType ==
  ASSUME TypeOK, NEW p \in Processes, pc[p] # "down",
         UNCHANGED <<serverVars, options, interrupts, stoppedBecause>>,
         NEW at \in {"asking", "answered", "sleeping"},
         NEW where \in [cursor : {NoCursor} \cup Cursors, startLedger : 0 .. MaxLedger],
         NEW asked \in 0 .. PageLimit, NEW a \in Answers,
         a.kind # "none" <=> at = "answered",
         pc' = [pc EXCEPT ![p] = at], position' = [position EXCEPT ![p] = where],
         limit' = [limit EXCEPT ![p] = asked], answer' = [answer EXCEPT ![p] = a],
         state' \in Rows, stored' \subseteq Cursors, gaps' \subseteq Gaps
  PROVE  TypeOK'
<1>1. state' # NoState
  BY RowIsNotNoState
<1>2. /\ pc' \in [Processes -> {"down", "asking", "answered", "sleeping"}]
      /\ position' \in [Processes -> [cursor : {NoCursor} \cup Cursors, startLedger : 0 .. MaxLedger]]
      /\ limit' \in [Processes -> 0 .. PageLimit]
      /\ answer' \in [Processes -> Answers]
  BY DEF TypeOK
<1>3. ASSUME NEW q \in Processes
      PROVE  /\ pc'[q] # "down" => options'[q] \in Options /\ state' # NoState
             /\ answer'[q].kind # "none" <=> pc'[q] = "answered"
  BY <1>1 DEF TypeOK
<1>. QED  BY <1>1, <1>2, <1>3 DEF TypeOK, serverVars

LEMMA RunningHasRow ==
  ASSUME TypeOK, NEW p \in Processes, pc[p] # "down"
  PROVE  state \in Rows /\ options[p] \in Options
BY DEF TypeOK

LEMMA TypeInit == Init => TypeOK
<1>. SUFFICES ASSUME Init PROVE TypeOK
  OBVIOUS
<1>1. 1 \in Ledgers /\ MaxLedger \in Ledgers
  BY Bounds DEF Ledgers
<1>. QED
  BY <1>1, IdleType, Bounds, LimitAssumption
     DEF Init, ServersInit, StoreInit, TypeOK, Nowhere

LEMMA TypeStep == TypeOK /\ [Next]_vars => TypeOK'
<1>. SUFFICES ASSUME TypeOK, [Next]_vars PROVE TypeOK'
  OBVIOUS
<1>1. ASSUME NEW s \in Servers, CloseLedger(s), UNCHANGED <<storeVars, procVars>>
      PROVE  TypeOK'
  <2>1. latest[s] \in Nat /\ latest[s] >= 1 /\ oldest[s] \in Ledgers
    BY DEF TypeOK, Ledgers
  <2>2. latest[s] + 1 \in Ledgers
    BY <1>1, <2>1, Bounds DEF CloseLedger, Ledgers
  <2>3. CASE latest[s] - oldest[s] + 1 = Retention
    <3>1. oldest[s] + 1 \in Ledgers
      BY <2>1, <2>2, <2>3, ServerAssumption DEF Ledgers
    <3>. QED
      BY <1>1, <2>2, <2>3, <3>1 DEF CloseLedger, TypeOK, storeVars, procVars
  <2>4. CASE latest[s] - oldest[s] + 1 # Retention
    BY <1>1, <2>1, <2>2, <2>4 DEF CloseLedger, TypeOK, storeVars, procVars
  <2>. QED  BY <2>3, <2>4
<1>2. ASSUME NEW p \in Processes, NEW o \in Options, NEW n \in 0 .. MaxLedger + 1,
             StartFresh(p, o, n)
      PROVE  TypeOK'
  <2>1. n \in Ledgers /\ o.filters \in Filters /\ NoCursor \in {NoCursor} \cup Cursors
    <3>1. o.server \in Servers /\ o.filters \in Filters
      BY OptionsAssumption
    <3>2. oldest[o.server] \in Ledgers /\ latest[o.server] \in Ledgers
      BY <3>1 DEF TypeOK
    <3>3. n \in oldest[o.server] .. latest[o.server] /\ n \in Nat
      BY <1>2, Bounds DEF StartFresh
    <3>. QED  BY <3>1, <3>2, <3>3, Bounds DEF Ledgers
  <2>2. state' \in Rows /\ state' # NoState
    BY <1>2, <2>1, RowIsNotNoState DEF StartFresh, Begin, Rows
  <2>3. [cursor |-> NoCursor, startLedger |-> n]
          \in [cursor : {NoCursor} \cup Cursors, startLedger : 0 .. MaxLedger]
    BY <2>1 DEF Ledgers
  <2>. QED
    BY <1>2, <2>2, <2>3 DEF StartFresh, Begin, Enter, TypeOK, serverVars
<1>3. ASSUME NEW p \in Processes, NEW o \in Options, Resume(p, o) PROVE TypeOK'
  <2>1. state \in Rows
    BY <1>3 DEF Resume, TypeOK
  <2>2. [cursor |-> state.cursor, startLedger |-> state.startLedger]
          \in [cursor : {NoCursor} \cup Cursors, startLedger : 0 .. MaxLedger]
    BY <2>1 DEF Rows, Ledgers
  <2>. QED
    BY <1>3, <2>2 DEF Resume, Enter, TypeOK, serverVars, storeVars
<1>4. ASSUME NEW p \in Processes, StopOnSignal(p) PROVE TypeOK'
  BY <1>4, StopType DEF StopOnSignal, TypeOK, storeVars
<1>5. ASSUME NEW p \in Processes, AskForPage(p) PROVE TypeOK'
  <2>1. pc[p] # "down" /\ state \in Rows
    BY <1>5, RunningHasRow DEF AskForPage, Asking
  <2>. DEFINE s == options[p].server
              a == [kind |-> "page",
                    page |-> GetEvents(s, options[p].filters, position[p], limit[p])]
  <2>2. a \in Answers /\ a.kind # "none"
    BY <1>5, <2>1, AnsweredPage DEF AskForPage, Answers
  <2>. HIDE DEF a
  <2>3. Answered(p, a)
    BY <1>5 DEF AskForPage, a
  <2>4. /\ position[p] \in [cursor : {NoCursor} \cup Cursors, startLedger : 0 .. MaxLedger]
        /\ limit[p] \in 0 .. PageLimit
        /\ position' = [position EXCEPT ![p] = position[p]]
        /\ limit' = [limit EXCEPT ![p] = limit[p]]
    BY <2>3 DEF TypeOK, Answered
  <2>. QED
    BY <2>1, <2>2, <2>3, <2>4, StayType DEF Answered, TypeOK, storeVars
<1>6. ASSUME NEW p \in Processes, AskTooMuch(p) PROVE TypeOK'
  <2>1. pc[p] # "down" /\ state \in Rows
    BY <1>6, RunningHasRow DEF AskTooMuch, Asking
  <2>. DEFINE a == [kind |-> "refused"]
  <2>2. a \in Answers /\ a.kind # "none"
    BY <2>1, OptionsAssumption DEF TypeOK, Answers
  <2>. HIDE DEF a
  <2>3. Answered(p, a)
    BY <1>6 DEF AskTooMuch, a
  <2>4. /\ position[p] \in [cursor : {NoCursor} \cup Cursors, startLedger : 0 .. MaxLedger]
        /\ limit[p] \in 0 .. PageLimit
        /\ position' = [position EXCEPT ![p] = position[p]]
        /\ limit' = [limit EXCEPT ![p] = limit[p]]
    BY <2>3 DEF TypeOK, Answered
  <2>. QED
    BY <2>1, <2>2, <2>3, <2>4, StayType DEF Answered, TypeOK, storeVars
<1>7. ASSUME NEW p \in Processes, AskOutsideWindow(p) PROVE TypeOK'
  <2>1. pc[p] # "down" /\ state \in Rows
    BY <1>7, RunningHasRow DEF AskOutsideWindow, Asking
  <2>. DEFINE a == [kind |-> "outside", oldest |-> oldest[options[p].server]]
  <2>2. a \in Answers /\ a.kind # "none"
    BY <2>1, OptionsAssumption DEF TypeOK, Answers
  <2>. HIDE DEF a
  <2>3. Answered(p, a)
    BY <1>7 DEF AskOutsideWindow, a
  <2>4. /\ position[p] \in [cursor : {NoCursor} \cup Cursors, startLedger : 0 .. MaxLedger]
        /\ limit[p] \in 0 .. PageLimit
        /\ position' = [position EXCEPT ![p] = position[p]]
        /\ limit' = [limit EXCEPT ![p] = limit[p]]
    BY <2>3 DEF TypeOK, Answered
  <2>. QED
    BY <2>1, <2>2, <2>3, <2>4, StayType DEF Answered, TypeOK, storeVars
<1>8. ASSUME NEW p \in Processes, TakePage(p) PROVE TypeOK'
  <2>. DEFINE page   == answer[p].page
              end    == options[p].endLedger
              cursor == KeptCursor(page, end)
  <2>1. pc[p] # "down" /\ state \in Rows /\ options[p] \in Options
    BY <1>8, RunningHasRow DEF TakePage
  <2>2. page \in Pages /\ end \in Nat \cup {NoLedger}
    BY <1>8, <2>1, OptionsAssumption DEF TakePage, TypeOK, Answers, Idle
  <2>3. KeptEvents(page, end) \subseteq Cursors /\ cursor \in Cursors
    BY <2>2, KeptPage DEF Pages
  <2>4. stored' \subseteq Cursors /\ state' \in Rows /\ gaps' \subseteq Gaps
    <3>1. /\ stored' = stored \cup KeptEvents(page, end)
          /\ state' = [state EXCEPT !.cursor = cursor] /\ gaps' = gaps
      BY <1>8 DEF TakePage, CommitPage
    <3>. QED  BY <2>1, <2>3, <3>1 DEF TypeOK, Rows
  <2>5. state' # NoState /\ UNCHANGED serverVars
    BY <1>8, <2>4, RowIsNotNoState DEF TakePage
  <2>6. CASE Stop(p, "end-ledger") \/ Stop(p, "caught-up")
    BY <2>4, <2>5, <2>6, StopType
  <2>7. CASE ~(Stop(p, "end-ledger") \/ Stop(p, "caught-up"))
    <3>1. /\ \E at \in {"asking", "sleeping"} : pc' = [pc EXCEPT ![p] = at]
          /\ position' = [position EXCEPT ![p] = [cursor |-> cursor, startLedger |-> 0]]
          /\ limit' = [limit EXCEPT ![p] = Raised(limit[p])]
          /\ answer' = [answer EXCEPT ![p] = Idle]
          /\ UNCHANGED <<options, interrupts, stoppedBecause>>
      BY <1>8, <2>7 DEF TakePage
    <3>2. PICK at \in {"asking", "sleeping"} : pc' = [pc EXCEPT ![p] = at]
      BY <3>1
    <3>3. Raised(limit[p]) \in 0 .. PageLimit
      BY LimitMoves DEF TypeOK
    <3>4. [cursor |-> cursor, startLedger |-> 0]
            \in [cursor : {NoCursor} \cup Cursors, startLedger : 0 .. MaxLedger]
      BY <2>3, Bounds
    <3>. HIDE DEF cursor
    <3>. QED
      BY <2>1, <2>4, <2>5, <3>1, <3>2, <3>3, <3>4, IdleType, StayType DEF serverVars
  <2>. QED  BY <2>6, <2>7
<1>9. ASSUME NEW p \in Processes, Wake(p) PROVE TypeOK'
  <2>1. pc[p] # "down" /\ state \in Rows
    BY <1>9, RunningHasRow DEF Wake
  <2>2. answer[p].kind = "none"
    BY <1>9 DEF Wake, TypeOK
  <2>3. /\ position' = [position EXCEPT ![p] = position[p]]
        /\ limit' = [limit EXCEPT ![p] = limit[p]]
        /\ answer' = [answer EXCEPT ![p] = answer[p]]
        /\ pc' = [pc EXCEPT ![p] = "asking"]
        /\ position[p] \in [cursor : {NoCursor} \cup Cursors, startLedger : 0 .. MaxLedger]
        /\ limit[p] \in 0 .. PageLimit /\ answer[p] \in Answers
    BY <1>9 DEF Wake, TypeOK
  <2>4. /\ state' \in Rows /\ stored' \subseteq Cursors /\ gaps' \subseteq Gaps
        /\ UNCHANGED <<serverVars, options, interrupts, stoppedBecause>>
    BY <1>9, <2>1 DEF Wake, TypeOK, storeVars
  <2>5. answer[p].kind # "none" <=> "asking" = "answered"
    BY <2>2
  <2>. HIDE DEF TypeOK
  <2>. QED
    BY <2>1, <2>3, <2>4, <2>5, StayType
<1>10. ASSUME NEW p \in Processes, RequestFails(p) PROVE TypeOK'
  <2>. DEFINE because == IF Aborted(p) THEN "signal" ELSE "error"
  <2>1. Stop(p, because) /\ UNCHANGED <<serverVars, storeVars>>
    BY <1>10 DEF RequestFails
  <2>. HIDE DEF because
  <2>. QED  BY <2>1, StopType DEF TypeOK, storeVars
<1>11. ASSUME NEW p \in Processes, AskForLess(p) PROVE TypeOK'
  <2>1. pc[p] # "down" /\ state \in Rows
    BY <1>11, RunningHasRow DEF AskForLess
  <2>2. Lowered(limit[p]) \in 0 .. PageLimit
    BY <1>11, LimitMoves DEF AskForLess, TypeOK
  <2>3. /\ position' = [position EXCEPT ![p] = position[p]]
        /\ limit' = [limit EXCEPT ![p] = Lowered(limit[p])]
        /\ answer' = [answer EXCEPT ![p] = Idle]
        /\ pc' = [pc EXCEPT ![p] = "asking"]
        /\ position[p] \in [cursor : {NoCursor} \cup Cursors, startLedger : 0 .. MaxLedger]
    BY <1>11 DEF AskForLess, TypeOK
  <2>4. /\ state' \in Rows /\ stored' \subseteq Cursors /\ gaps' \subseteq Gaps
        /\ UNCHANGED <<serverVars, options, interrupts, stoppedBecause>>
    BY <1>11, <2>1 DEF AskForLess, TypeOK, storeVars
  <2>. QED
    BY <2>1, <2>2, <2>3, <2>4, IdleType, StayType
<1>12. ASSUME NEW p \in Processes, SkipPastRetention(p) PROVE TypeOK'
  <2>1. pc[p] # "down" /\ state \in Rows
    BY <1>12, RunningHasRow DEF SkipPastRetention
  <2>. DEFINE first == answer[p].oldest
              gap   == [fromLedger |-> LostFrom(position[p]), toLedger |-> first - 1]
  <2>2. first \in Ledgers
    BY <1>12 DEF SkipPastRetention, TypeOK, Answers, Idle
  <2>3. gap \in Gaps
    <3>1. LostFrom(position[p]) \in 0 .. MaxLedger + 1
      BY CursorLedger, Bounds DEF LostFrom, TypeOK
    <3>. QED  BY <2>2, <3>1, Bounds DEF Ledgers, Gaps
  <2>4. gaps' \subseteq Gaps /\ state' = state /\ stored' = stored
    <3>. HIDE DEF gap
    <3>1. RecordGap(gap)
      BY <1>12 DEF SkipPastRetention, gap
    <3>. QED  BY <2>3, <3>1, MergedCovers DEF RecordGap, TypeOK
  <2>5. [cursor |-> NoCursor, startLedger |-> first]
          \in [cursor : {NoCursor} \cup Cursors, startLedger : 0 .. MaxLedger]
    BY <2>2 DEF Ledgers
  <2>6. /\ position' = [position EXCEPT ![p] = [cursor |-> NoCursor, startLedger |-> first]]
        /\ limit' = [limit EXCEPT ![p] = limit[p]]
        /\ answer' = [answer EXCEPT ![p] = Idle]
        /\ pc' = [pc EXCEPT ![p] = "asking"]
        /\ limit[p] \in 0 .. PageLimit
        /\ UNCHANGED <<serverVars, options, interrupts, stoppedBecause>>
    BY <1>12 DEF SkipPastRetention, TypeOK
  <2>. HIDE DEF first, gap
  <2>. QED
    BY <2>1, <2>4, <2>5, <2>6, IdleType, StayType DEF TypeOK
<1>13. ASSUME NEW p \in Processes, Interrupt(p) PROVE TypeOK'
  BY <1>13, LimitAssumption DEF Interrupt, TypeOK, serverVars, storeVars
<1>14. ASSUME NEW p \in Processes, Kill(p) PROVE TypeOK'
  BY <1>14, StopType DEF Kill, TypeOK, storeVars
<1>15. CASE UNCHANGED vars
  BY <1>15 DEF TypeOK, vars, serverVars, storeVars, procVars
<1>. QED
  BY <1>1, <1>2, <1>3, <1>4, <1>5, <1>6, <1>7, <1>8, <1>9, <1>10, <1>11, <1>12,
     <1>13, <1>14, <1>15 DEF Next, Start, Run, GiveUp

\* The rows, pages, gaps and positions of an indexer are what their types say:
\* no page cursor, no limit that climbs or falls and no merged gap leaves its
\* range (ingest.ts, trace-store/db.ts).
THEOREM IngestTypeCorrect == Spec => []TypeOK
  BY TypeInit, TypeStep, PTL DEF Spec

-----------------------------------------------------------------------------
(***************************************************************************)
(* What no step takes back.                                                *)
(***************************************************************************)

LEMMA EventsAreNumbers ==
  ASSUME TypeOK, NEW f \in Filters, NEW s \in Servers
  PROVE  chain[Networks[s]][f] \in SUBSET EventIds /\ EventIds \in SUBSET Nat
BY ServerAssumption DEF TypeOK, EventIds

\* Recording a gap forgets no ledger of the gaps there were.
LEMMA GapsGrow ==
  ASSUME gaps \subseteq Gaps, NEW gap \in Gaps, RecordGap(gap), NEW n \in Nat
  PROVE  /\ InGap(n) => InGap(n)'
         /\ n \in gap.fromLedger .. gap.toLedger => InGap(n)'
<1>1. Merged(gap) \in gaps' /\ gaps \ Touching(gap) \subseteq gaps'
  BY DEF RecordGap
<1>2. Touching(gap) \subseteq Gaps
  BY DEF Touching
<1>3. ASSUME NEW g \in Touching(gap) \cup {gap}, n \in g.fromLedger .. g.toLedger
      PROVE  InGap(n)'
  <2>1. Merged(gap).fromLedger <= g.fromLedger /\ g.toLedger <= Merged(gap).toLedger
    BY MergedCovers
  <2>2. Merged(gap) \in Gaps /\ g \in Gaps
    BY <1>2, MergedCovers
  <2>3. n \in Merged(gap).fromLedger .. Merged(gap).toLedger
    BY <1>3, <2>1, <2>2, Bounds DEF Gaps
  <2>. QED  BY <1>1, <2>3 DEF InGap
<1>4. ASSUME NEW g \in gaps \ Touching(gap), n \in g.fromLedger .. g.toLedger
      PROVE  InGap(n)'
  BY <1>1, <1>4 DEF InGap
<1>. QED  BY <1>3, <1>4 DEF InGap

\* The gap a skip writes down.
LEMMA SkipRecords ==
  ASSUME TypeOK, NEW p \in Processes, SkipPastRetention(p)
  PROVE  LET gap == [fromLedger |-> LostFrom(position[p]),
                     toLedger   |-> answer[p].oldest - 1]
         IN  answer[p].oldest \in Ledgers /\ gap \in Gaps /\ RecordGap(gap)
<1>1. answer[p].oldest \in Ledgers
  BY DEF SkipPastRetention, TypeOK, Answers, Idle
<1>2. LostFrom(position[p]) \in 0 .. MaxLedger + 1
  BY CursorLedger, Bounds DEF LostFrom, TypeOK
<1>. QED  BY <1>1, <1>2, Bounds DEF Ledgers, Gaps, SkipPastRetention

\* What a page brings.
LEMMA TakesPage ==
  ASSUME TypeOK, NEW p \in Processes, TakePage(p)
  PROVE  LET page   == answer[p].page
             end    == options[p].endLedger
             cursor == KeptCursor(page, end)
         IN  /\ page \in Pages /\ end \in Nat \cup {NoLedger}
             /\ KeptEvents(page, end) \subseteq page.events
             /\ cursor \in Cursors
             /\ stored' = stored \cup KeptEvents(page, end)
             /\ state' = [state EXCEPT !.cursor = cursor]
             /\ state \in Rows /\ state'.cursor = cursor
             /\ state'.filters = state.filters /\ state'.startLedger = state.startLedger
             /\ UNCHANGED <<gaps, serverVars>>
<1>. DEFINE page   == answer[p].page
            end    == options[p].endLedger
            cursor == KeptCursor(page, end)
<1>1. pc[p] # "down" /\ state \in Rows /\ options[p] \in Options
  BY RunningHasRow DEF TakePage
<1>2. page \in Pages /\ end \in Nat \cup {NoLedger}
  BY <1>1, OptionsAssumption DEF TakePage, TypeOK, Answers, Idle
<1>3. KeptEvents(page, end) \subseteq page.events /\ cursor \in Cursors
  BY <1>2, KeptPage
<1>4. /\ stored' = stored \cup KeptEvents(page, end)
      /\ state' = [state EXCEPT !.cursor = cursor]
      /\ UNCHANGED <<gaps, serverVars>>
  BY DEF TakePage, CommitPage
<1>. HIDE DEF cursor
<1>5. /\ state'.cursor = cursor
      /\ state'.filters = state.filters /\ state'.startLedger = state.startLedger
  BY <1>1, <1>4 DEF Rows
<1>. QED  BY <1>1, <1>2, <1>3, <1>4, <1>5 DEF cursor

\* Once there is a database, its row keeps what it was begun with, nothing
\* stored is dropped, no gap shrinks and no server gets a ledger back.
LEMMA Grows ==
  ASSUME TypeOK, [Next]_vars, state # NoState
  PROVE  /\ chain' = chain /\ stored \subseteq stored' /\ state' \in Rows
         /\ state'.filters = state.filters /\ state'.startLedger = state.startLedger
         /\ \A n \in Nat : InGap(n) => InGap(n)'
         /\ \A s \in Servers : oldest[s] <= oldest'[s]
<1>. DEFINE Kept ==
       /\ chain' = chain /\ stored \subseteq stored' /\ state' \in Rows
       /\ state'.filters = state.filters /\ state'.startLedger = state.startLedger
       /\ \A n \in Nat : InGap(n) => InGap(n)'
       /\ \A s \in Servers : oldest[s] <= oldest'[s]
<1>a. state \in Rows /\ \A s \in Servers : oldest[s] \in Nat
  BY DEF TypeOK, Ledgers
<1>1. ASSUME NEW s \in Servers, CloseLedger(s), UNCHANGED <<storeVars, procVars>>
      PROVE  Kept
  <2>1. \A r \in Servers : oldest[r] <= oldest'[r]
    BY <1>1, <1>a DEF CloseLedger, TypeOK
  <2>. QED  BY <1>1, <1>a, <2>1 DEF CloseLedger, storeVars, InGap
<1>2. ASSUME UNCHANGED <<serverVars, storeVars>> PROVE Kept
  BY <1>2, <1>a DEF serverVars, storeVars, InGap
<1>3. ASSUME NEW p \in Processes, TakePage(p) PROVE Kept
  <2>1. state' \in Rows
    BY <1>3, TakesPage DEF Rows
  <2>2. /\ stored \subseteq stored' /\ UNCHANGED <<gaps, chain, oldest>>
        /\ state'.filters = state.filters /\ state'.startLedger = state.startLedger
    BY <1>3, TakesPage DEF serverVars
  <2>. QED  BY <1>a, <2>1, <2>2 DEF InGap
<1>4. ASSUME NEW p \in Processes, SkipPastRetention(p) PROVE Kept
  <2>. DEFINE gap == [fromLedger |-> LostFrom(position[p]),
                      toLedger   |-> answer[p].oldest - 1]
  <2>1. gap \in Gaps /\ RecordGap(gap)
    BY <1>4, SkipRecords
  <2>2. UNCHANGED <<serverVars, state, stored>>
    BY <1>4 DEF SkipPastRetention, RecordGap
  <2>. HIDE DEF gap
  <2>3. \A n \in Nat : InGap(n) => InGap(n)'
    BY <2>1, GapsGrow DEF TypeOK
  <2>. QED  BY <1>a, <2>2, <2>3 DEF serverVars
<1>5. ASSUME NEW p \in Processes, NEW o \in Options, NEW n \in 0 .. MaxLedger + 1,
             StartFresh(p, o, n)
      PROVE  FALSE
  BY <1>5 DEF StartFresh, Begin
<1>6. ASSUME NEW p \in Processes, NEW o \in Options, Resume(p, o) PROVE Kept
  BY <1>6, <1>2 DEF Resume, Enter
<1>7. ASSUME NEW p \in Processes,
             \/ StopOnSignal(p) \/ AskForPage(p) \/ AskTooMuch(p) \/ AskOutsideWindow(p)
             \/ Wake(p) \/ RequestFails(p) \/ AskForLess(p) \/ Interrupt(p) \/ Kill(p)
      PROVE  Kept
  BY <1>7, <1>2
     DEF StopOnSignal, AskForPage, AskTooMuch, AskOutsideWindow, Wake, RequestFails,
         AskForLess, Interrupt, Kill, Answered
<1>8. ASSUME UNCHANGED vars PROVE Kept
  BY <1>8, <1>2 DEF vars
<1>. HIDE DEF Kept
<1>9. ASSUME NEW p \in Processes, Start(p) PROVE Kept
  BY <1>5, <1>6, <1>9 DEF Start
<1>10. ASSUME NEW p \in Processes, Run(p) PROVE Kept
  BY <1>3, <1>4, <1>7, <1>10 DEF Run, GiveUp
<1>11. ASSUME NEW p \in Processes, RequestFails(p) \/ Interrupt(p) \/ Kill(p) PROVE Kept
  BY <1>7, <1>11
<1>12. ASSUME Next PROVE Kept
  BY <1>1, <1>9, <1>10, <1>11, <1>12 DEF Next
<1>13. Kept
  BY <1>8, <1>12
<1>. QED  BY <1>13 DEF Kept

\* What is wanted does not change, and what is accounted for stays so.
LEMMA AccountedForever ==
  ASSUME TypeOK, [Next]_vars, state # NoState,
         NEW s \in Servers, Networks[s] = Testnet
  PROVE  /\ Wanted' = Wanted /\ Wanted \subseteq EventIds /\ Wanted \subseteq Nat
         /\ \A e \in Wanted : Accounted(e) => Accounted(e)'
<1>1. state \in Rows /\ state.filters \in Filters /\ state' \in Rows /\ state' # NoState
  BY Grows, RowIsNotNoState DEF TypeOK, Rows
<1>2. Wanted' = Wanted
  BY <1>1, Grows DEF Wanted
<1>3. Wanted \subseteq EventIds /\ Wanted \subseteq Nat
  BY <1>1, EventsAreNumbers DEF Wanted
<1>4. ASSUME NEW e \in Wanted, Accounted(e) PROVE Accounted(e)'
  <2>1. LedgerOf(e) \in Nat
    BY <1>3, LedgerOfType
  <2>2. CASE e \in stored
    BY <2>2, Grows DEF Accounted
  <2>3. CASE InGap(LedgerOf(e))
    BY <2>1, <2>3, Grows DEF Accounted
  <2>4. CASE CutOff(e)
    <3>1. PICK r \in Servers : LedgerOf(e) < oldest[r]
      BY <2>4 DEF CutOff
    <3>2. oldest[r] \in Nat /\ oldest'[r] \in Nat /\ oldest[r] <= oldest'[r]
      BY Grows, TypeStep DEF TypeOK, Ledgers
    <3>3. LedgerOf(e) < oldest'[r]
      BY <2>1, <3>1, <3>2
    <3>. QED  BY <2>4, <3>3, Grows DEF CutOff, Accounted
  <2>. QED  BY <1>4, <2>2, <2>3, <2>4 DEF Accounted
<1>. QED  BY <1>2, <1>3, <1>4

-----------------------------------------------------------------------------
(***************************************************************************)
(* Which steps change what.                                                *)
(***************************************************************************)

\* The database changes when it is begun and when a page is stored; the gaps,
\* which a skip changes, aside.
LEMMA StoreSteps ==
  ASSUME [Next]_vars
  PROVE  \/ UNCHANGED <<chain, state, stored>>
         \/ \E p \in Processes, o \in Options, n \in 0 .. MaxLedger + 1 : StartFresh(p, o, n)
         \/ \E p \in Processes : TakePage(p)
<1>1. ASSUME NEW p \in Processes,
             \/ StopOnSignal(p) \/ AskForPage(p) \/ AskTooMuch(p) \/ AskOutsideWindow(p)
             \/ Wake(p) \/ GiveUp(p) \/ RequestFails(p) \/ AskForLess(p)
             \/ SkipPastRetention(p) \/ Interrupt(p) \/ Kill(p)
      PROVE  UNCHANGED <<chain, state, stored>>
  BY <1>1
     DEF StopOnSignal, AskForPage, AskTooMuch, AskOutsideWindow, Wake, GiveUp,
         RequestFails, AskForLess, SkipPastRetention, RecordGap, Interrupt, Kill,
         Answered, serverVars, storeVars
<1>2. ASSUME NEW s \in Servers, CloseLedger(s), UNCHANGED <<storeVars, procVars>>
      PROVE  UNCHANGED <<chain, state, stored>>
  BY <1>2 DEF CloseLedger, storeVars
<1>3. ASSUME NEW p \in Processes, NEW o \in Options, Resume(p, o)
      PROVE  UNCHANGED <<chain, state, stored>>
  BY <1>3 DEF Resume, Enter, serverVars, storeVars
<1>4. ASSUME UNCHANGED vars PROVE UNCHANGED <<chain, state, stored>>
  BY <1>4 DEF vars, serverVars, storeVars
<1>. QED  BY <1>1, <1>2, <1>3, <1>4 DEF Next, Start, Run

Stays(p) == UNCHANGED <<options[p], position[p], limit[p], answer[p]>>

\* What a step does to a process that runs after it.
LEMMA ProcessSteps ==
  ASSUME TypeOK, [Next]_vars, NEW q \in Processes, pc'[q] # "down"
  PROVE  \/ pc[q] # "down" /\ Stays(q)
         \/ \E o \in Options, n \in 0 .. MaxLedger + 1 : StartFresh(q, o, n)
         \/ \E o \in Options : Resume(q, o)
         \/ AskForPage(q) \/ AskTooMuch(q) \/ AskOutsideWindow(q)
         \/ TakePage(q) \/ AskForLess(q) \/ SkipPastRetention(q)
<1>1. ASSUME NEW p \in Processes, NEW because, Stop(p, because)
      PROVE  p # q /\ pc[q] # "down" /\ Stays(q)
  BY <1>1 DEF Stop, TypeOK, Stays
<1>2. ASSUME NEW p \in Processes,
             StopOnSignal(p) \/ GiveUp(p) \/ RequestFails(p) \/ Kill(p)
      PROVE  pc[q] # "down" /\ Stays(q)
  <2>. DEFINE because == IF Aborted(p) THEN "signal" ELSE "error"
  <2>1. Stop(p, "signal") \/ Stop(p, because) \/ Stop(p, "killed")
    BY <1>2 DEF StopOnSignal, GiveUp, RequestFails, Kill
  <2>. HIDE DEF because
  <2>. QED  BY <1>1, <2>1
<1>3. ASSUME NEW p \in Processes, Wake(p) \/ Interrupt(p)
      PROVE  pc[q] # "down" /\ Stays(q)
  BY <1>3 DEF Wake, Interrupt, TypeOK, Stays
<1>4. ASSUME NEW p \in Processes, p # q,
             \/ AskForPage(p) \/ AskTooMuch(p) \/ AskOutsideWindow(p)
             \/ AskForLess(p) \/ SkipPastRetention(p)
      PROVE  pc[q] # "down" /\ Stays(q)
  BY <1>4
     DEF AskForPage, AskTooMuch, AskOutsideWindow, AskForLess, SkipPastRetention,
         Answered, TypeOK, Stays
<1>5. ASSUME NEW p \in Processes, p # q, TakePage(p)
      PROVE  pc[q] # "down" /\ Stays(q)
  <2>1. CASE Stop(p, "end-ledger") \/ Stop(p, "caught-up")
    BY <1>1, <2>1
  <2>2. CASE ~(Stop(p, "end-ledger") \/ Stop(p, "caught-up"))
    BY <1>5, <2>2 DEF TakePage, TypeOK, Stays
  <2>. QED  BY <2>1, <2>2
<1>6. ASSUME NEW p \in Processes, p # q, NEW o \in Options,
             (\E n \in 0 .. MaxLedger + 1 : StartFresh(p, o, n)) \/ Resume(p, o)
      PROVE  pc[q] # "down" /\ Stays(q)
  BY <1>6 DEF StartFresh, Resume, Enter, TypeOK, Stays
<1>7. ASSUME UNCHANGED procVars PROVE pc[q] # "down" /\ Stays(q)
  BY <1>7 DEF procVars, Stays
<1>8. ASSUME NEW s \in Servers, CloseLedger(s), UNCHANGED <<storeVars, procVars>>
      PROVE  pc[q] # "down" /\ Stays(q)
  BY <1>7, <1>8
<1>9. ASSUME UNCHANGED vars PROVE pc[q] # "down" /\ Stays(q)
  BY <1>7, <1>9 DEF vars
<1>. QED
  BY <1>2, <1>3, <1>4, <1>5, <1>6, <1>8, <1>9
     DEF Next, Start, Run

-----------------------------------------------------------------------------
(***************************************************************************)
(* One network, one set of filters.  The stored events are genuine because *)
(* every process that runs was let in for the database's filters and its   *)
(* network, and so is every page that it may still commit.                 *)
(***************************************************************************)

Up(p) == pc[p] # "down"

\* A process runs for the filters and the network of the database.
RunsFor(p) ==
  Networks[options[p].server] = Testnet /\ options[p].filters = state.filters

Genuine ==
  /\ state = NoState => stored = {}
  /\ state # NoState =>
       /\ \E s \in Servers : Networks[s] = Testnet
       /\ stored \subseteq chain[Testnet][state.filters]
  /\ \A p \in Processes : Up(p) =>
       /\ RunsFor(p)
       /\ answer[p].kind = "page" =>
            answer[p].page.events \subseteq chain[Testnet][state.filters]

\* Where a new process is let in.
LEMMA StartIsChecked ==
  ASSUME TypeOK, NEW p \in Processes, NEW o \in Options,
         Resume(p, o) \/ \E n \in 0 .. MaxLedger + 1 : StartFresh(p, o, n)
  PROVE  /\ o.server \in Servers /\ Networks[o.server] = Testnet
         /\ options'[p] = o /\ state'.filters = o.filters /\ chain' = chain
         /\ limit' = limit
         /\ answer'[p].kind = "none"
<1>1. o.server \in Servers
  BY OptionsAssumption
<1>2. answer[p].kind = "none" /\ answer' = answer /\ options'[p] = o
  BY DEF StartFresh, Resume, Enter, TypeOK
<1>3. /\ Networks[o.server] = Testnet /\ state'.filters = o.filters
      /\ chain' = chain /\ limit' = limit
  BY DEF StartFresh, Resume, Enter, Begin, ServesTestnet, SameFilters, serverVars, storeVars
<1>. QED  BY <1>1, <1>2, <1>3

LEMMA GenuineInit == Init => Genuine
BY DEF Init, StoreInit, Genuine, Up

LEMMA GenuineStep == TypeOK /\ Genuine /\ [Next]_vars => Genuine'
<1>. SUFFICES ASSUME TypeOK, Genuine, [Next]_vars PROVE Genuine'
  OBVIOUS
<1>1. TypeOK'
  BY TypeStep
<1>2. (state = NoState => stored = {})'
  <2>1. CASE UNCHANGED <<chain, state, stored>>
    BY <2>1 DEF Genuine
  <2>2. CASE \E p \in Processes, o \in Options, n \in 0 .. MaxLedger + 1 : StartFresh(p, o, n)
    BY <2>2 DEF StartFresh, Begin, Genuine
  <2>3. ASSUME NEW p \in Processes, TakePage(p) PROVE state' # NoState
    <3>1. state' \in Rows
      BY <2>3, TakesPage DEF Rows
    <3>. QED  BY <3>1, RowIsNotNoState
  <2>. QED  BY <2>1, <2>2, <2>3, StoreSteps
<1>3. (state # NoState =>
         /\ \E s \in Servers : Networks[s] = Testnet
         /\ stored \subseteq chain[Testnet][state.filters])'
  <2>1. CASE UNCHANGED <<chain, state, stored>>
    BY <2>1 DEF Genuine
  <2>2. ASSUME NEW p \in Processes, NEW o \in Options, NEW n \in 0 .. MaxLedger + 1,
               StartFresh(p, o, n)
        PROVE  stored' = {} /\ \E s \in Servers : Networks[s] = Testnet
    BY <2>2, StartIsChecked DEF StartFresh, Begin, Genuine
  <2>3. ASSUME NEW p \in Processes, TakePage(p)
        PROVE  /\ \E s \in Servers : Networks[s] = Testnet
               /\ stored' \subseteq chain'[Testnet][state'.filters]
    <3>1. pc[p] # "down" /\ answer[p].kind = "page" /\ state # NoState
      BY <2>3, RunningHasRow, RowIsNotNoState DEF TakePage
    <3>2. answer[p].page.events \subseteq chain[Testnet][state.filters]
      BY <3>1 DEF Genuine, Up
    <3>. QED  BY <2>3, <3>1, <3>2, TakesPage DEF Genuine, serverVars
  <2>. QED  BY <2>1, <2>2, <2>3, StoreSteps
<1>4. ASSUME NEW q \in Processes, pc'[q] # "down"
      PROVE  /\ RunsFor(q)'
             /\ answer'[q].kind = "page" =>
                  answer'[q].page.events \subseteq chain'[Testnet][state'.filters]
  <2>1. ASSUME pc[q] # "down"
        PROVE  /\ RunsFor(q) /\ state # NoState
               /\ chain' = chain /\ state'.filters = state.filters
               /\ options[q] \in Options
    BY <2>1, Grows, RunningHasRow, RowIsNotNoState DEF Genuine, Up
  <2>2. CASE pc[q] # "down" /\ Stays(q)
    BY <2>1, <2>2 DEF Stays, RunsFor, Genuine, Up
  <2>3. ASSUME NEW o \in Options,
               Resume(q, o) \/ \E n \in 0 .. MaxLedger + 1 : StartFresh(q, o, n)
        PROVE  RunsFor(q)' /\ answer'[q].kind # "page"
    BY <2>3, StartIsChecked DEF RunsFor
  <2>4. CASE AskForPage(q)
    <3>1. pc[q] # "down" /\ InWindow(options[q].server, position[q])
      BY <2>4 DEF AskForPage, Asking
    <3>. DEFINE page == GetEvents(options[q].server, options[q].filters,
                                  position[q], limit[q])
    <3>2. page.events \subseteq chain[Testnet][state.filters]
      BY <2>1, <3>1, AnsweredPage DEF PageIsFrom, RunsFor
    <3>3. answer'[q].page = page /\ options' = options
      BY <2>4 DEF AskForPage, Answered, TypeOK
    <3>. HIDE DEF page
    <3>. QED  BY <2>1, <3>1, <3>2, <3>3 DEF RunsFor
  <2>5. CASE AskTooMuch(q) \/ AskOutsideWindow(q)
    <3>1. pc[q] # "down" /\ options' = options /\ answer'[q].kind # "page"
      BY <2>5 DEF AskTooMuch, AskOutsideWindow, Asking, Answered, TypeOK
    <3>. QED  BY <2>1, <3>1 DEF RunsFor
  <2>6. CASE TakePage(q)
    <3>1. ~(Stop(q, "end-ledger") \/ Stop(q, "caught-up"))
      BY <1>4 DEF Stop, TypeOK
    <3>2. pc[q] # "down" /\ options' = options /\ answer'[q] = Idle
      BY <2>6, <3>1 DEF TakePage, TypeOK
    <3>. QED  BY <2>1, <3>2, IdleType DEF RunsFor
  <2>7. CASE AskForLess(q) \/ SkipPastRetention(q)
    <3>1. pc[q] # "down" /\ options' = options /\ answer'[q] = Idle
      BY <2>7 DEF AskForLess, SkipPastRetention, TypeOK
    <3>. QED  BY <2>1, <3>1, IdleType DEF RunsFor
  <2>. QED  BY <1>4, <2>2, <2>3, <2>4, <2>5, <2>6, <2>7, ProcessSteps
<1>. QED  BY <1>2, <1>3, <1>4 DEF Genuine, Up

LEMMA GenuineAlways == Spec => []Genuine
BY GenuineInit, GenuineStep, IngestTypeCorrect, PTL DEF Spec

\* Whatever configurations are tried on a database, and however many processes
\* share it, it only ever holds testnet events that its own filters match
\* (preflight and the fingerprint check of resumeOrBegin).
THEOREM StoredAlwaysGenuine == Spec => []StoredIsGenuine
<1>1. Genuine => StoredIsGenuine
  BY DEF Genuine, StoredIsGenuine
<1>. QED  BY <1>1, GenuineAlways, PTL

-----------------------------------------------------------------------------
(***************************************************************************)
(* The cursor.  It is honest because the position of every process, and    *)
(* every page that it may still commit, are: whatever lies behind them is  *)
(* stored or known to be out of reach.                                     *)
(***************************************************************************)

HonestUpTo(c) == \A e \in Wanted : e <= c => Accounted(e)

\* What a request leaves behind is accounted for.
HonestFrom(where) ==
  \A e \in Wanted :
    \/ e <= where.cursor
    \/ where.cursor = NoCursor /\ LedgerOf(e) < where.startLedger
    => Accounted(e)

\* A cursor stands on a stored event, or at the end of a ledger.  This is what
\* makes a half-read ledger a known loss once it has aged out.
Anchored(c) ==
  c # NoCursor => c \in stored \/ c = CursorForLedger(LedgerOf(c))

\* A page leaves out nothing up to its cursor; and nothing of the cursor's
\* ledger, if it is not full.
Covers(page, asked, e) ==
  \/ e <= page.cursor
  \/ Cardinality(page.events) < asked /\ LedgerOf(e) <= LedgerOf(page.cursor)

HonestPage(page, asked) ==
  /\ page.cursor \in page.events \/ page.cursor = CursorForLedger(LedgerOf(page.cursor))
  /\ \A e \in Wanted : Covers(page, asked, e) => e \in page.events \/ Accounted(e)

Honest ==
  /\ state # NoState => HonestUpTo(state.cursor) /\ Anchored(state.cursor)
  /\ \A p \in Processes : Up(p) =>
       /\ HonestFrom(position[p]) /\ Anchored(position[p].cursor)
       /\ answer[p].kind = "page" => HonestPage(answer[p].page, limit[p])
       /\ answer[p].kind = "outside" => answer[p].oldest <= oldest[options[p].server]

LimitsArePositive == PageLimit > 0 => \A p \in Processes : limit[p] > 0

\* A page that is asked for is one that could hold an event.  A live server
\* reads a limit of zero as its default; a fixture asked for pages of zero
\* would walk over everything.
PagesHoldEvents == PageLimit > 0 \/ Offline = {}

LEMMA LimitStep == TypeOK /\ LimitsArePositive /\ [Next]_vars => LimitsArePositive'
<1>. SUFFICES ASSUME TypeOK, LimitsArePositive, [Next]_vars, PageLimit > 0,
                     NEW q \in Processes
              PROVE  limit'[q] > 0
  BY DEF LimitsArePositive
<1>1. limit[q] \in 0 .. PageLimit /\ limit[q] > 0
  BY DEF LimitsArePositive, TypeOK
<1>2. ASSUME NEW p \in Processes, NEW because, Stop(p, because) PROVE limit'[q] > 0
  BY <1>1, <1>2 DEF Stop, TypeOK
<1>3. ASSUME NEW p \in Processes,
             StopOnSignal(p) \/ GiveUp(p) \/ RequestFails(p) \/ Kill(p)
      PROVE  limit'[q] > 0
  <2>. DEFINE because == IF Aborted(p) THEN "signal" ELSE "error"
  <2>1. Stop(p, "signal") \/ Stop(p, because) \/ Stop(p, "killed")
    BY <1>3 DEF StopOnSignal, GiveUp, RequestFails, Kill
  <2>. HIDE DEF because
  <2>. QED  BY <1>2, <2>1
<1>4. ASSUME NEW p \in Processes, TakePage(p) PROVE limit'[q] > 0
  <2>1. CASE Stop(p, "end-ledger") \/ Stop(p, "caught-up")
    BY <1>2, <2>1
  <2>2. CASE ~(Stop(p, "end-ledger") \/ Stop(p, "caught-up"))
    <3>1. limit' = [limit EXCEPT ![p] = Raised(limit[p])]
      BY <1>4, <2>2 DEF TakePage
    <3>2. Raised(limit[q]) > 0
      BY <1>1, LimitMoves
    <3>. QED  BY <1>1, <3>1, <3>2 DEF TypeOK
  <2>. QED  BY <2>1, <2>2
<1>5. ASSUME NEW p \in Processes, AskForLess(p) PROVE limit'[q] > 0
  <2>1. limit' = [limit EXCEPT ![p] = Lowered(limit[p])] /\ limit[p] > MinPageLimit
    BY <1>5 DEF AskForLess
  <2>2. Lowered(limit[p]) \in 1 .. PageLimit
    BY <2>1, LimitMoves DEF TypeOK
  <2>. QED  BY <1>1, <2>1, <2>2 DEF TypeOK
<1>6. ASSUME NEW p \in Processes,
             \/ AskForPage(p) \/ AskTooMuch(p) \/ AskOutsideWindow(p) \/ Wake(p)
             \/ SkipPastRetention(p) \/ Interrupt(p)
      PROVE  limit' = limit
  BY <1>6 DEF AskForPage, AskTooMuch, AskOutsideWindow, Wake, SkipPastRetention,
              Interrupt, Answered
<1>7. ASSUME NEW p \in Processes, Start(p) PROVE limit' = limit
  BY <1>7 DEF Start, StartFresh, Resume, Enter
<1>8. UNCHANGED procVars => limit' = limit
  BY DEF procVars
<1>9. ASSUME UNCHANGED vars PROVE limit' = limit
  BY <1>8, <1>9 DEF vars
<1>. QED
  BY <1>1, <1>3, <1>4, <1>5, <1>6, <1>7, <1>8, <1>9 DEF Next, Run

\* The page that a process is answered.
LEMMA AnswerIsHonest ==
  ASSUME TypeOK, Genuine, NEW p \in Processes, pc[p] # "down",
         InWindow(options[p].server, position[p]),
         HonestFrom(position[p]), Anchored(position[p].cursor),
         PagesHoldEvents, PageLimit > 0 => limit[p] > 0
  PROVE  HonestPage(GetEvents(options[p].server, options[p].filters,
                              position[p], limit[p]), limit[p])
<1>. DEFINE s == options[p].server
            f == options[p].filters
            where == position[p]
            page == GetEvents(s, f, where, limit[p])
<1>1. /\ s \in Servers /\ Networks[s] = Testnet /\ f = state.filters
      /\ page \in Pages /\ PageIsFrom(page, s, f, where)
      /\ PageIsComplete(page, s, f, where, limit[p])
      /\ chain[Networks[s]][f] \in SUBSET Nat
  BY AnsweredPage DEF Genuine, RunsFor, Up, EventIds
<1>2. Granted(s, limit[p]) > 0
  BY <1>1, ServerAssumption, LimitAssumption DEF Granted, PagesHoldEvents, TypeOK
<1>3. page.cursor \in page.events \/ page.cursor = CursorForLedger(LedgerOf(page.cursor))
  BY <1>1 DEF PageIsFrom
<1>4. ASSUME NEW e \in Wanted, Covers(page, limit[p], e)
      PROVE  e \in page.events \/ Accounted(e)
  <2>1. e \in chain[Networks[s]][f] /\ e \in Nat /\ LedgerOf(e) \in Nat
    BY <1>1, LedgerOfType DEF Wanted
  <2>2. /\ where.cursor # NoCursor =>
             where.cursor \in Nat /\ LedgerOf(where.cursor) \in Nat
        /\ where.startLedger \in Nat
        /\ oldest[s] \in Nat
    BY <1>1, CursorLedger, Bounds DEF TypeOK, Ledgers
  <2>3. CASE e <= where.cursor
    BY <2>3 DEF HonestFrom
  <2>4. CASE e > where.cursor /\ LedgerOf(e) < FirstLedger(where)
    <3>1. where.cursor = NoCursor
      BY <2>1, <2>2, <2>4, LedgerOfMonotone DEF FirstLedger
    <3>. QED  BY <2>4, <3>1 DEF FirstLedger, HonestFrom
  <2>5. CASE /\ e > where.cursor /\ LedgerOf(e) >= FirstLedger(where)
             /\ LedgerOf(e) < oldest[s]
    <3>1. where.cursor # NoCursor /\ LedgerOf(e) = LedgerOf(where.cursor)
      BY <2>1, <2>2, <2>5 DEF InWindow, FirstLedger
    <3>2. where.cursor # CursorForLedger(LedgerOf(where.cursor))
      BY <2>1, <2>2, <2>5, <3>1, CursorEndsLedger
    <3>3. where.cursor \in stored
      BY <3>1, <3>2 DEF Anchored
    <3>. QED  BY <1>1, <2>5, <3>1, <3>3 DEF CutOff, Accounted
  <2>6. CASE /\ e > where.cursor /\ LedgerOf(e) >= FirstLedger(where)
             /\ LedgerOf(e) >= oldest[s]
    BY <1>2, <1>4, <2>1, <2>6, <1>1 DEF PageIsComplete, Covers
  <2>7. FirstLedger(where) \in Nat /\ where.cursor \in Int
    BY <2>2 DEF FirstLedger, NoCursor
  <2>. QED  BY <2>1, <2>2, <2>3, <2>4, <2>5, <2>6, <2>7
<1>. QED  BY <1>3, <1>4 DEF HonestPage

\* What is accounted for once a page is stored, with or without an end ledger.
LEMMA TakenPageCovers ==
  ASSUME TypeOK, Genuine, [Next]_vars, NEW p \in Processes, TakePage(p),
         HonestPage(answer[p].page, limit[p])
  PROVE  LET page   == answer[p].page
             end    == options[p].endLedger
             cursor == KeptCursor(page, end)
         IN  /\ \A e \in Wanted : e <= cursor => Accounted(e)'
             /\ \A e \in Wanted :
                  /\ ~WasFull(page, limit[p]) /\ LedgerOf(e) <= LedgerOf(page.cursor)
                  /\ RunsPast(page, end) => LedgerOf(e) <= end
                  => Accounted(e)'
             /\ cursor \in stored' \/ cursor = CursorForLedger(LedgerOf(cursor))
<1>. DEFINE page   == answer[p].page
            end    == options[p].endLedger
            cursor == KeptCursor(page, end)
<1>1. pc[p] # "down" /\ state \in Rows /\ state # NoState
  BY RunningHasRow, RowIsNotNoState DEF TakePage
<1>2. /\ page \in Pages /\ end \in Nat \cup {NoLedger} /\ cursor \in Cursors
      /\ stored' = stored \cup KeptEvents(page, end)
  BY TakesPage
<1>3. PICK s \in Servers : Networks[s] = Testnet
  BY <1>1 DEF Genuine
<1>4. Wanted \subseteq Nat /\ \A e \in Wanted : Accounted(e) => Accounted(e)'
  BY <1>1, <1>3, AccountedForever
<1>5. page.cursor \in Nat /\ LedgerOf(page.cursor) \in Nat
  BY <1>2, CursorLedger DEF Pages
<1>6. RunsPast(page, end) =>
        /\ end \in Nat /\ cursor = CursorForLedger(end) /\ LedgerOf(cursor) = end
        /\ \A e \in Nat : e <= cursor <=> LedgerOf(e) <= end
        /\ cursor <= page.cursor
  BY <1>2, <1>5, CursorEndsLedger, KeptPage DEF RunsPast, KeptCursor, NoLedger
<1>7. ~RunsPast(page, end) => cursor = page.cursor
  BY DEF KeptCursor
<1>8. ASSUME NEW e \in Wanted, Covers(page, limit[p], e),
             RunsPast(page, end) => LedgerOf(e) <= end
      PROVE  Accounted(e)'
  <2>1. CASE e \in page.events
    <3>1. e \in KeptEvents(page, end)
      BY <1>8, <2>1 DEF KeptEvents
    <3>. QED  BY <1>2, <3>1 DEF Accounted
  <2>2. CASE Accounted(e)
    BY <1>4, <2>2
  <2>. QED  BY <1>8, <2>1, <2>2 DEF HonestPage
<1>9. ASSUME NEW e \in Wanted, e <= cursor PROVE Accounted(e)'
  <2>1. e \in Nat /\ cursor \in Nat
    BY <1>2, <1>4, CursorLedger
  <2>2. e <= page.cursor /\ (RunsPast(page, end) => LedgerOf(e) <= end)
    BY <1>5, <1>6, <1>7, <1>9, <2>1
  <2>. QED  BY <1>8, <2>2 DEF Covers
<1>10. ASSUME NEW e \in Wanted, ~WasFull(page, limit[p]),
              LedgerOf(e) <= LedgerOf(page.cursor),
              RunsPast(page, end) => LedgerOf(e) <= end
       PROVE  Accounted(e)'
  <2>1. Cardinality(page.events) < limit[p]
    <3>1. IsFiniteSet(page.events)
      <4>1. IsFiniteSet(0 .. CursorForLedger(MaxLedger))
        BY Bounds, FS_Interval
      <4>. QED  BY <1>2, <4>1, FS_Subset DEF Pages, Cursors
    <3>. QED  BY <1>10, <3>1, FS_CardinalityType DEF WasFull, TypeOK
  <2>. QED  BY <1>8, <1>10, <2>1 DEF Covers
<1>11. cursor \in stored' \/ cursor = CursorForLedger(LedgerOf(cursor))
  <2>1. CASE RunsPast(page, end)
    BY <1>6, <2>1
  <2>2. CASE ~RunsPast(page, end)
    <3>1. page.cursor \in page.events => page.cursor \in stored'
      BY <1>2, <2>2 DEF KeptEvents
    <3>. QED  BY <1>7, <2>2, <3>1 DEF HonestPage
  <2>. QED  BY <2>1, <2>2
<1>. HIDE DEF page, end, cursor
<1>. QED  BY <1>9, <1>10, <1>11 DEF page, end, cursor

\* Where a skip goes on from: what it leaves behind is in the new gap, or the
\* rest of the ledger that the last page cut through.
LEMMA SkipIsHonest ==
  ASSUME TypeOK, Genuine, [Next]_vars, NEW p \in Processes, SkipPastRetention(p),
         HonestFrom(position[p]), Anchored(position[p].cursor),
         answer[p].oldest <= oldest[options[p].server]
  PROVE  \A e \in Wanted : LedgerOf(e) < answer[p].oldest => Accounted(e)'
<1>. DEFINE where == position[p]
            first == answer[p].oldest
            gap == [fromLedger |-> LostFrom(where), toLedger |-> first - 1]
<1>1. pc[p] # "down" /\ state # NoState /\ options[p].server \in Servers
  BY RunningHasRow, RowIsNotNoState, OptionsAssumption DEF SkipPastRetention
<1>2. PICK s \in Servers : Networks[s] = Testnet
  BY <1>1 DEF Genuine
<1>3. Wanted \subseteq Nat /\ \A e \in Wanted : Accounted(e) => Accounted(e)'
  BY <1>1, <1>2, AccountedForever
<1>4. first \in Nat /\ gap \in Gaps /\ RecordGap(gap)
  BY SkipRecords DEF Ledgers
<1>5. where.cursor # NoCursor => where.cursor \in Nat /\ LedgerOf(where.cursor) \in Nat
  BY CursorLedger DEF TypeOK
<1>6. where.startLedger \in Nat
  BY Bounds DEF TypeOK
<1>. SUFFICES ASSUME NEW e \in Wanted, LedgerOf(e) < first PROVE Accounted(e)'
  OBVIOUS
<1>7. e \in Nat /\ LedgerOf(e) \in Nat
  BY <1>3, LedgerOfType
<1>8. CASE e <= where.cursor \/ (where.cursor = NoCursor /\ LedgerOf(e) < where.startLedger)
  BY <1>3, <1>8 DEF HonestFrom
<1>9. CASE where.cursor # NoCursor /\ ~(e <= where.cursor)
           /\ LedgerOf(e) = LedgerOf(where.cursor)
  <2>1. where.cursor \in stored
    BY <1>5, <1>7, <1>9, CursorEndsLedger DEF Anchored
  <2>2. LedgerOf(e) < oldest[options[p].server]
    BY <1>1, <1>4, <1>7 DEF TypeOK, Ledgers
  <2>3. CutOff(e)
    BY <1>1, <1>9, <2>1, <2>2 DEF CutOff
  <2>. QED  BY <1>3, <2>3 DEF Accounted
<1>10. CASE LedgerOf(e) >= LostFrom(where)
  <2>1. LedgerOf(e) \in gap.fromLedger .. gap.toLedger
    BY <1>4, <1>5, <1>6, <1>7, <1>10 DEF LostFrom
  <2>. HIDE DEF gap
  <2>2. InGap(LedgerOf(e))'
    BY <1>4, <1>7, <2>1, GapsGrow DEF TypeOK
  <2>. QED  BY <2>2 DEF Accounted
<1>11. CASE where.cursor # NoCursor /\ LedgerOf(e) < LedgerOf(where.cursor)
  BY <1>5, <1>7, <1>8, <1>11, LedgerOfMonotone
<1>. QED
  BY <1>5, <1>6, <1>7, <1>8, <1>9, <1>10, <1>11 DEF LostFrom

LEMMA HonestInit == Init => Honest
BY DEF Init, StoreInit, Honest, Up

LEMMA HonestStep ==
  ASSUME PagesHoldEvents
  PROVE  TypeOK /\ Genuine /\ LimitsArePositive /\ Honest /\ [Next]_vars => Honest'
<1>. SUFFICES ASSUME TypeOK, Genuine, LimitsArePositive, Honest, [Next]_vars
              PROVE  Honest'
  OBVIOUS
<1>1. TypeOK' /\ Genuine'
  BY TypeStep, GenuineStep
<1>2. ASSUME state # NoState
      PROVE  /\ Wanted' = Wanted /\ Wanted \subseteq Nat /\ stored \subseteq stored'
             /\ \A e \in Wanted : Accounted(e) => Accounted(e)'
             /\ \A s \in Servers : oldest[s] <= oldest'[s]
  BY <1>2, Grows, AccountedForever DEF Genuine
<1>3. ASSUME NEW p \in Processes, NEW o \in Options, NEW n \in 0 .. MaxLedger + 1,
             StartFresh(p, o, n)
      PROVE  /\ state'.cursor = NoCursor /\ state'.startLedger = n
             /\ Wanted' \subseteq Nat
             /\ \A e \in Wanted' : LedgerOf(e) >= n
  <2>1. state' = [startLedger |-> n, cursor |-> NoCursor, filters |-> o.filters]
    BY <1>3 DEF StartFresh, Begin
  <2>2. state'.filters \in Filters /\ state'.cursor = NoCursor /\ state'.startLedger = n
    BY <2>1, OptionsAssumption
  <2>3. state' # NoState
    BY <1>1, <2>1, NoStateAssumption, OptionsAssumption DEF NoCursor
  <2>4. chain'[Testnet][state'.filters] \subseteq Nat
    BY <1>1, <2>2, <2>3, ServerAssumption DEF Genuine, TypeOK, EventIds
  <2>. QED  BY <2>2, <2>3, <2>4 DEF Wanted
<1>4. ASSUME state' # NoState
      PROVE  HonestUpTo(state.cursor)' /\ Anchored(state.cursor)'
  <2>1. CASE UNCHANGED <<chain, state, stored>>
    BY <1>2, <1>4, <2>1 DEF Honest, HonestUpTo, Anchored
  <2>2. ASSUME NEW p \in Processes, NEW o \in Options, NEW n \in 0 .. MaxLedger + 1,
               StartFresh(p, o, n)
        PROVE  HonestUpTo(state.cursor)' /\ Anchored(state.cursor)'
    BY <1>3, <2>2 DEF HonestUpTo, Anchored, NoCursor
  <2>3. ASSUME NEW p \in Processes, TakePage(p)
        PROVE  HonestUpTo(state.cursor)' /\ Anchored(state.cursor)'
    <3>1. pc[p] # "down" /\ state # NoState /\ answer[p].kind = "page"
      BY <2>3, RunningHasRow, RowIsNotNoState DEF TakePage
    <3>2. HonestPage(answer[p].page, limit[p])
      BY <3>1 DEF Honest, Up
    <3>. DEFINE cursor == KeptCursor(answer[p].page, options[p].endLedger)
    <3>3. state'.cursor = cursor
      BY <2>3, TakesPage
    <3>4. /\ \A e \in Wanted : e <= cursor => Accounted(e)'
          /\ cursor \in stored' \/ cursor = CursorForLedger(LedgerOf(cursor))
      BY <2>3, <3>2, TakenPageCovers
    <3>. HIDE DEF cursor
    <3>. QED  BY <1>2, <3>1, <3>3, <3>4 DEF HonestUpTo, Anchored
  <2>. QED  BY <2>1, <2>2, <2>3, StoreSteps
<1>5. ASSUME NEW q \in Processes, pc'[q] # "down"
      PROVE  /\ HonestFrom(position[q])' /\ Anchored(position[q].cursor)'
             /\ answer'[q].kind = "page" => HonestPage(answer[q].page, limit[q])'
             /\ answer'[q].kind = "outside" =>
                  answer'[q].oldest <= oldest'[options'[q].server]
  <2>1. ASSUME pc[q] # "down"
        PROVE  /\ state # NoState /\ options[q].server \in Servers
               /\ HonestFrom(position[q]) /\ Anchored(position[q].cursor)
               /\ answer[q].kind = "page" => HonestPage(answer[q].page, limit[q])
               /\ answer[q].kind = "outside" =>
                    answer[q].oldest <= oldest[options[q].server]
               /\ PageLimit > 0 => limit[q] > 0
    BY <2>1, RunningHasRow, RowIsNotNoState, OptionsAssumption
       DEF Honest, Up, LimitsArePositive
  <2>2. ASSUME pc[q] # "down", position'[q] = position[q]
        PROVE  HonestFrom(position[q])' /\ Anchored(position[q].cursor)'
    BY <1>2, <2>1, <2>2 DEF HonestFrom, Anchored
  <2>3. CASE pc[q] # "down" /\ Stays(q)
    <3>1. answer'[q].kind = "page" => HonestPage(answer[q].page, limit[q])'
      BY <1>2, <2>1, <2>3 DEF Stays, HonestPage, Covers
    <3>2. answer'[q].kind = "outside" =>
            answer'[q].oldest <= oldest'[options'[q].server]
      <4>. SUFFICES ASSUME answer[q].kind = "outside"
                    PROVE  answer[q].oldest <= oldest'[options[q].server]
        BY <2>3 DEF Stays
      <4>1. answer[q].oldest \in Nat
        BY DEF TypeOK, Answers, Idle, Ledgers
      <4>2. /\ oldest[options[q].server] \in Nat /\ oldest'[options[q].server] \in Nat
            /\ oldest[options[q].server] <= oldest'[options[q].server]
        BY <1>1, <1>2, <2>1, <2>3 DEF TypeOK, Ledgers
      <4>. QED  BY <2>1, <2>3, <4>1, <4>2
    <3>. QED  BY <2>2, <2>3, <3>1, <3>2 DEF Stays
  <2>4. ASSUME NEW o \in Options, NEW n \in 0 .. MaxLedger + 1, StartFresh(q, o, n)
        PROVE  HonestFrom(position[q])' /\ Anchored(position[q].cursor)'
    <3>1. position'[q] = [cursor |-> NoCursor, startLedger |-> n]
      BY <2>4 DEF StartFresh, Enter, TypeOK
    <3>2. \A e \in Wanted' : LedgerOf(e) \in Nat /\ n \in Nat
      BY <1>3, <2>4, LedgerOfType
    <3>. QED  BY <1>3, <2>4, <3>1, <3>2 DEF HonestFrom, Anchored, NoCursor
  <2>5. ASSUME NEW o \in Options, Resume(q, o)
        PROVE  HonestFrom(position[q])' /\ Anchored(position[q].cursor)'
    <3>1. /\ position'[q] = [cursor |-> state.cursor, startLedger |-> state.startLedger]
          /\ state # NoState /\ state' = state
      BY <2>5 DEF Resume, Enter, TypeOK, storeVars
    <3>2. HonestUpTo(state.cursor)' /\ Anchored(state.cursor)'
      BY <1>4, <3>1
    <3>3. \A e \in Wanted' : /\ LedgerOf(e) >= state'.startLedger
                             /\ LedgerOf(e) \in Nat /\ state'.startLedger \in Nat
      <4>1. Wanted' \subseteq Nat /\ state'.startLedger \in Nat
        BY <1>1, <1>2, <3>1, Bounds DEF TypeOK, Rows, Ledgers
      <4>. QED  BY <3>1, <4>1, LedgerOfType DEF Wanted
    <3>. QED  BY <3>1, <3>2, <3>3 DEF HonestFrom, HonestUpTo
  <2>7. CASE AskForPage(q)
    <3>. DEFINE page == GetEvents(options[q].server, options[q].filters,
                                  position[q], limit[q])
    <3>1. pc[q] # "down" /\ InWindow(options[q].server, position[q])
      BY <2>7 DEF AskForPage, Asking
    <3>2. HonestPage(page, limit[q])
      BY <2>1, <3>1, AnswerIsHonest
    <3>3. /\ answer'[q] = [kind |-> "page", page |-> page]
          /\ position' = position /\ limit' = limit
      BY <2>7 DEF AskForPage, Answered, TypeOK
    <3>. HIDE DEF page
    <3>4. HonestPage(answer[q].page, limit[q])'
      BY <1>2, <2>1, <3>1, <3>2, <3>3 DEF HonestPage, Covers
    <3>. QED  BY <2>2, <3>1, <3>3, <3>4
  <2>8. CASE AskTooMuch(q)
    <3>1. pc[q] # "down" /\ position' = position /\ answer'[q].kind = "refused"
      BY <2>8 DEF AskTooMuch, Asking, Answered, TypeOK
    <3>. QED  BY <2>2, <3>1
  <2>9. CASE AskOutsideWindow(q)
    <3>1. /\ pc[q] # "down" /\ position' = position /\ answer'[q].kind = "outside"
          /\ answer'[q].oldest = oldest'[options'[q].server]
          /\ oldest'[options'[q].server] \in Nat
      <4>1. pc[q] # "down" /\ position' = position /\ options' = options /\ oldest' = oldest
        BY <2>9 DEF AskOutsideWindow, Asking, Answered, serverVars
      <4>2. answer'[q] = [kind |-> "outside", oldest |-> oldest[options[q].server]]
        BY <2>9 DEF AskOutsideWindow, Answered, TypeOK
      <4>. QED  BY <2>1, <4>1, <4>2 DEF TypeOK, Ledgers
    <3>. QED  BY <2>2, <3>1
  <2>10. CASE TakePage(q)
    <3>1. ~(Stop(q, "end-ledger") \/ Stop(q, "caught-up"))
      BY <1>5 DEF Stop, TypeOK
    <3>. DEFINE cursor == KeptCursor(answer[q].page, options[q].endLedger)
    <3>2. /\ pc[q] # "down" /\ answer[q].kind = "page" /\ answer'[q] = Idle
          /\ position'[q] = [cursor |-> cursor, startLedger |-> 0]
      BY <2>10, <3>1 DEF TakePage, TypeOK
    <3>3. cursor # NoCursor
      BY <2>10, TakesPage, CursorLedger DEF NoCursor
    <3>4. state' # NoState /\ state'.cursor = cursor
      BY <2>10, <3>2, <2>1, Grows, RowIsNotNoState, TakesPage
    <3>. HIDE DEF cursor
    <3>5. HonestUpTo(state.cursor)' /\ Anchored(state.cursor)'
      BY <1>4, <3>4
    <3>. QED  BY <3>2, <3>3, <3>4, <3>5, IdleType DEF HonestUpTo, HonestFrom, Anchored
  <2>11. CASE AskForLess(q)
    <3>1. pc[q] # "down" /\ position' = position /\ answer'[q] = Idle
      BY <2>11 DEF AskForLess, TypeOK
    <3>. QED  BY <2>2, <3>1, IdleType
  <2>12. CASE SkipPastRetention(q)
    <3>. DEFINE first == answer[q].oldest
    <3>1. /\ pc[q] # "down" /\ answer[q].kind = "outside" /\ answer'[q] = Idle
          /\ position'[q] = [cursor |-> NoCursor, startLedger |-> first]
      BY <2>12 DEF SkipPastRetention, TypeOK
    <3>2. \A e \in Wanted : LedgerOf(e) < first => Accounted(e)'
      BY <2>1, <2>12, <3>1, SkipIsHonest
    <3>. HIDE DEF first
    <3>. QED  BY <1>2, <2>1, <3>1, <3>2, IdleType DEF HonestFrom, Anchored, NoCursor
  <2>13. ASSUME NEW o \in Options,
                Resume(q, o) \/ \E n \in 0 .. MaxLedger + 1 : StartFresh(q, o, n)
         PROVE  answer'[q].kind = "none"
    BY <2>13, StartIsChecked
  <2>. QED
    BY <1>5, <2>3, <2>4, <2>5, <2>7, <2>8, <2>9, <2>10, <2>11, <2>12, <2>13, ProcessSteps
<1>. QED  BY <1>4, <1>5 DEF Honest, Up

LEMMA HonestAlways ==
  ASSUME PagesHoldEvents
  PROVE  Spec => []Honest
<1>1. Init => LimitsArePositive
  BY DEF Init, LimitsArePositive
<1>2. Spec => []LimitsArePositive
  BY <1>1, LimitStep, IngestTypeCorrect, PTL DEF Spec
<1>3. TypeOK /\ Genuine /\ LimitsArePositive /\ Honest /\ [Next]_vars => Honest'
  BY HonestStep
<1>. QED  BY <1>2, <1>3, HonestInit, GenuineAlways, IngestTypeCorrect, PTL DEF Spec

\* The stored cursor never claims more than the stored events deliver, whatever
\* was killed, lost, refused, skipped or run side by side (ingest.ts:344).
THEOREM CursorAlwaysHonest ==
  ASSUME PagesHoldEvents
  PROVE  Spec => []CursorIsHonest
<1>1. Honest => CursorIsHonest
  BY DEF Honest, HonestUpTo, CursorIsHonest
<1>. QED  BY <1>1, HonestAlways, PTL

-----------------------------------------------------------------------------
(***************************************************************************)
(* Resting and ending.                                                     *)
(***************************************************************************)

\* Only with a page in hand does a process go to sleep, or end a run as done.
LEMMA OnlyPagesConclude ==
  ASSUME TypeOK, [Next]_vars, NEW p \in Processes,
         \/ pc'[p] = "sleeping" /\ pc[p] # "sleeping"
         \/ /\ pc[p] # "down" /\ pc'[p] = "down"
            /\ stoppedBecause'[p] \in {"caught-up", "end-ledger"}
  PROVE  TakePage(p)
<1>1. ASSUME NEW q \in Processes, NEW because, Stop(q, because),
             because \notin {"caught-up", "end-ledger"}
      PROVE  FALSE
  BY <1>1 DEF Stop, TypeOK
<1>2. ASSUME NEW q \in Processes,
             StopOnSignal(q) \/ GiveUp(q) \/ RequestFails(q) \/ Kill(q)
      PROVE  FALSE
  <2>. DEFINE because == IF Aborted(q) THEN "signal" ELSE "error"
  <2>1. Stop(q, "signal") \/ Stop(q, because) \/ Stop(q, "killed")
    BY <1>2 DEF StopOnSignal, GiveUp, RequestFails, Kill
  <2>2. because \in {"signal", "error"}
    OBVIOUS
  <2>. HIDE DEF because
  <2>. QED  BY <1>1, <2>1, <2>2
<1>3. ASSUME NEW q \in Processes, q # p, TakePage(q) PROVE FALSE
  BY <1>3 DEF TakePage, Stop, TypeOK
<1>4. ASSUME NEW q \in Processes,
             \/ AskForPage(q) \/ AskTooMuch(q) \/ AskOutsideWindow(q) \/ Wake(q)
             \/ AskForLess(q) \/ SkipPastRetention(q) \/ Interrupt(q)
      PROVE  FALSE
  BY <1>4 DEF AskForPage, AskTooMuch, AskOutsideWindow, Wake, AskForLess,
              SkipPastRetention, Interrupt, Answered, TypeOK
<1>5. ASSUME NEW q \in Processes, Start(q) PROVE FALSE
  BY <1>5 DEF Start, StartFresh, Resume, Enter, TypeOK
<1>6. UNCHANGED procVars => FALSE
  BY DEF procVars
<1>7. UNCHANGED vars => FALSE
  BY <1>6 DEF vars
<1>. QED
  BY <1>2, <1>3, <1>4, <1>5, <1>6, <1>7 DEF Next, Run

LEMMA TipStep ==
  ASSUME TypeOK, Genuine, Honest, [Next]_vars, NEW p \in Processes,
         \/ pc'[p] = "sleeping" /\ pc[p] # "sleeping"
         \/ pc[p] # "down" /\ pc'[p] = "down" /\ stoppedBecause'[p] = "caught-up",
         NEW e \in Wanted, LedgerOf(e) <= answer[p].page.latestLedger
  PROVE  Accounted(e)'
<1>. DEFINE page   == answer[p].page
            end    == options[p].endLedger
            cursor == KeptCursor(page, end)
<1>1. TakePage(p)
  BY OnlyPagesConclude
<1>2. pc[p] # "down" /\ state # NoState /\ answer[p].kind = "page"
  BY <1>1, RunningHasRow, RowIsNotNoState DEF TakePage
<1>3. CaughtUp(page, WasFull(page, limit[p]), LedgerOf(cursor))
  BY <1>1 DEF TakePage, Stop, TypeOK
<1>4. /\ page \in Pages /\ end \in Nat \cup {NoLedger} /\ cursor \in Cursors
      /\ cursor <= page.cursor /\ page.cursor \in Cursors
  BY <1>1, TakesPage, KeptPage DEF Pages
<1>5. /\ LedgerOf(cursor) \in Nat /\ LedgerOf(page.cursor) \in Nat
      /\ LedgerOf(cursor) <= LedgerOf(page.cursor) /\ page.latestLedger \in Nat
  BY <1>4, CursorLedger, LedgerOfMonotone, Bounds DEF Pages, Ledgers
<1>6. RunsPast(page, end) => LedgerOf(cursor) = end
  BY <1>4, CursorEndsLedger DEF RunsPast, KeptCursor, NoLedger
<1>7. LedgerOf(e) \in Nat
  BY <1>2, AccountedForever, LedgerOfType DEF Genuine
<1>8. ~WasFull(page, limit[p]) /\ LedgerOf(e) <= LedgerOf(cursor)
  BY <1>3, <1>5, <1>7 DEF CaughtUp
<1>9. HonestPage(page, limit[p])
  BY <1>2 DEF Honest, Up
<1>. HIDE DEF cursor
<1>10. /\ LedgerOf(e) <= LedgerOf(page.cursor)
       /\ RunsPast(page, end) => LedgerOf(e) <= end
  BY <1>5, <1>6, <1>7, <1>8
<1>. QED  BY <1>1, <1>8, <1>9, <1>10, TakenPageCovers

\* A run sleeps, or ends with --once, only when the database has all that its
\* server had: neither the scan cap nor the page limit is taken for the tip
\* (ingest.ts, caughtUp).
THEOREM AlwaysRestsAtTheTip ==
  ASSUME PagesHoldEvents
  PROVE  Spec => RestsOnlyAtTheTip
<1>1. TypeOK /\ Genuine /\ Honest /\ [Next]_vars =>
        \A p \in Processes :
          \/ pc'[p] = "sleeping" /\ pc[p] # "sleeping"
          \/ pc[p] # "down" /\ pc'[p] = "down" /\ stoppedBecause'[p] = "caught-up"
          => \A e \in Wanted :
               LedgerOf(e) <= answer[p].page.latestLedger => Accounted(e)'
  BY TipStep
<1>. QED
  BY <1>1, HonestAlways, GenuineAlways, IngestTypeCorrect, PTL DEF Spec, RestsOnlyAtTheTip

LEMMA EndStep ==
  ASSUME TypeOK, Genuine, Honest, [Next]_vars, NEW p \in Processes,
         pc[p] # "down", pc'[p] = "down", stoppedBecause'[p] = "end-ledger",
         NEW e \in Wanted, LedgerOf(e) <= options[p].endLedger
  PROVE  Accounted(e)'
<1>. DEFINE page   == answer[p].page
            end    == options[p].endLedger
            cursor == KeptCursor(page, end)
<1>1. TakePage(p)
  BY OnlyPagesConclude
<1>2. state # NoState /\ answer[p].kind = "page"
  BY <1>1, RunningHasRow, RowIsNotNoState DEF TakePage
<1>3. ReachedEnd(page, WasFull(page, limit[p]), end)
  BY <1>1 DEF TakePage, Stop, TypeOK
<1>4. page \in Pages /\ end \in Nat \cup {NoLedger}
  BY <1>1, TakesPage
<1>5. e \in Nat
  BY <1>2, AccountedForever DEF Genuine
<1>6. HonestPage(page, limit[p])
  BY <1>2 DEF Honest, Up
<1>7. CASE RunsPast(page, end)
  <2>1. e <= cursor
    BY <1>4, <1>5, <1>7, CursorEndsLedger DEF RunsPast, KeptCursor, NoLedger
  <2>. QED  BY <1>1, <1>6, <2>1, TakenPageCovers
<1>8. CASE ~RunsPast(page, end)
  <2>1. ~WasFull(page, limit[p]) /\ LedgerOf(e) <= LedgerOf(page.cursor)
    BY <1>3, <1>8 DEF ReachedEnd
  <2>. QED  BY <1>1, <1>6, <1>8, <2>1, TakenPageCovers
<1>. QED  BY <1>7, <1>8

\* A run that ends at its end ledger has stored all of it, also when a full page
\* stopped on that very ledger (ingest.ts, truncateAtEnd and reachedEnd).
THEOREM AlwaysEndsAtTheEnd ==
  ASSUME PagesHoldEvents
  PROVE  Spec => EndsOnlyAtTheEnd
<1>1. TypeOK /\ Genuine /\ Honest /\ [Next]_vars =>
        \A p \in Processes :
          pc[p] # "down" /\ pc'[p] = "down" /\ stoppedBecause'[p] = "end-ledger"
          => \A e \in Wanted : LedgerOf(e) <= options[p].endLedger => Accounted(e)'
  BY EndStep
<1>. QED
  BY <1>1, HonestAlways, GenuineAlways, IngestTypeCorrect, PTL DEF Spec, EndsOnlyAtTheEnd

-----------------------------------------------------------------------------
(***************************************************************************)
(* Gaps.  A gap is only ever skipped behind the window when no process has *)
(* read ahead of its provider; that is so when a database has one.         *)
(***************************************************************************)

\* All command lines that preflight lets in name one provider.
SoleProvider ==
  \A o, q \in Options : ServesTestnet(o) /\ ServesTestnet(q) => o.server = q.server

LEMMA GapSteps ==
  ASSUME [Next]_vars
  PROVE  UNCHANGED gaps \/ \E p \in Processes : SkipPastRetention(p)
<1>1. ASSUME NEW p \in Processes, Start(p) PROVE UNCHANGED gaps
  BY <1>1 DEF Start, StartFresh, Begin, Resume, storeVars
<1>2. ASSUME NEW p \in Processes,
             \/ StopOnSignal(p) \/ AskForPage(p) \/ AskTooMuch(p) \/ AskOutsideWindow(p)
             \/ TakePage(p) \/ Wake(p) \/ GiveUp(p) \/ RequestFails(p) \/ AskForLess(p)
             \/ Interrupt(p) \/ Kill(p)
      PROVE  UNCHANGED gaps
  BY <1>2
     DEF StopOnSignal, AskForPage, AskTooMuch, AskOutsideWindow, TakePage, CommitPage,
         Wake, GiveUp, RequestFails, AskForLess, Interrupt, Kill, Answered, storeVars
<1>3. UNCHANGED storeVars => UNCHANGED gaps
  BY DEF storeVars
<1>4. UNCHANGED vars => UNCHANGED storeVars
  BY DEF vars
<1>. QED  BY <1>1, <1>2, <1>3, <1>4 DEF Next, Run

Windows == \A s \in Servers : oldest[s] <= latest[s]

\* A window moves up, and holds a ledger.
LEMMA WindowStep ==
  ASSUME TypeOK, Windows, [Next]_vars
  PROVE  Windows' /\ \A s \in Servers : latest[s] <= latest'[s]
<1>1. ASSUME NEW s \in Servers, CloseLedger(s)
      PROVE  Windows' /\ \A r \in Servers : latest[r] <= latest'[r]
  BY <1>1 DEF CloseLedger, Windows, TypeOK, Ledgers
<1>2. ASSUME UNCHANGED serverVars
      PROVE  Windows' /\ \A r \in Servers : latest[r] <= latest'[r]
  BY <1>2 DEF serverVars, Windows, TypeOK, Ledgers
<1>3. ASSUME NEW p \in Processes, Start(p) PROVE UNCHANGED serverVars
  BY <1>3 DEF Start, StartFresh, Resume, Enter
<1>4. ASSUME NEW p \in Processes, Run(p) PROVE UNCHANGED serverVars
  BY <1>4
     DEF Run, StopOnSignal, AskForPage, AskTooMuch, AskOutsideWindow, TakePage, Wake,
         GiveUp, RequestFails, AskForLess, SkipPastRetention, Answered
<1>5. ASSUME NEW p \in Processes, RequestFails(p) \/ Interrupt(p) \/ Kill(p)
      PROVE  UNCHANGED serverVars
  BY <1>5 DEF RequestFails, Interrupt, Kill
<1>6. UNCHANGED vars => UNCHANGED serverVars
  BY DEF vars
<1>. QED  BY <1>1, <1>2, <1>3, <1>4, <1>5, <1>6 DEF Next

\* Where a new run of the database would go on from.
Reached == [cursor |-> state.cursor, startLedger |-> state.startLedger]

NotAhead ==
  /\ Windows
  /\ state # NoState =>
       \A o \in Options : ServesTestnet(o) => FirstLedger(Reached) <= latest[o.server]
  /\ \A p \in Processes : Up(p) =>
       /\ FirstLedger(position[p]) <= latest[options[p].server]
       /\ answer[p].kind = "page" =>
            LedgerOf(answer[p].page.cursor) <= latest[options[p].server]
       /\ answer[p].kind = "outside" =>
            /\ LostFrom(position[p]) < answer[p].oldest
            /\ answer[p].oldest <= latest[options[p].server]

LEMMA NotAheadInit == Init => NotAhead
BY Bounds DEF Init, ServersInit, StoreInit, NotAhead, Windows, Up

LEMMA FirstLedgerType ==
  ASSUME TypeOK, NEW p \in Processes
  PROVE  /\ FirstLedger(position[p]) \in Nat
         /\ state \in Rows => FirstLedger(Reached) \in Nat
BY CursorLedger, Bounds DEF TypeOK, Rows, Ledgers, FirstLedger, Reached

LEMMA NotAheadStep ==
  ASSUME SoleProvider
  PROVE  TypeOK /\ Genuine /\ NotAhead /\ [Next]_vars => NotAhead'
<1>. SUFFICES ASSUME TypeOK, Genuine, NotAhead, [Next]_vars PROVE NotAhead'
  OBVIOUS
<1>1. TypeOK' /\ Windows' /\ \A s \in Servers : latest[s] <= latest'[s]
  BY TypeStep, WindowStep DEF NotAhead
<1>2. /\ \A s \in Servers : /\ latest[s] \in Nat /\ latest'[s] \in Nat
                            /\ oldest[s] \in Nat /\ oldest[s] <= latest[s]
      /\ \A o \in Options : o.server \in Servers
  BY <1>1, OptionsAssumption DEF TypeOK, Ledgers, NotAhead, Windows
<1>3. ASSUME NEW p \in Processes, TakePage(p)
      PROVE  LET cursor == KeptCursor(answer[p].page, options[p].endLedger)
             IN  /\ state' # NoState /\ state'.cursor = cursor
                 /\ cursor # NoCursor /\ LedgerOf(cursor) \in Nat
                 /\ LedgerOf(cursor) <= latest[options[p].server]
                 /\ options[p] \in Options /\ ServesTestnet(options[p])
  <2>. DEFINE page == answer[p].page
              cursor == KeptCursor(page, options[p].endLedger)
  <2>1. /\ pc[p] # "down" /\ answer[p].kind = "page" /\ state # NoState
        /\ options[p] \in Options
    BY <1>3, RunningHasRow, RowIsNotNoState DEF TakePage
  <2>2. /\ page \in Pages /\ cursor \in Cursors /\ state'.cursor = cursor
        /\ cursor <= page.cursor /\ page.cursor \in Cursors
    BY <1>3, TakesPage, KeptPage DEF Pages
  <2>3. /\ cursor # NoCursor /\ LedgerOf(cursor) \in Nat /\ LedgerOf(page.cursor) \in Nat
        /\ LedgerOf(cursor) <= LedgerOf(page.cursor)
    BY <2>2, CursorLedger, LedgerOfMonotone DEF NoCursor
  <2>4. LedgerOf(page.cursor) <= latest[options[p].server]
    BY <2>1 DEF NotAhead, Up
  <2>5. ServesTestnet(options[p])
    BY <2>1 DEF Genuine, Up, RunsFor, ServesTestnet
  <2>6. state' # NoState
    BY <2>1, Grows, RowIsNotNoState
  <2>. HIDE DEF cursor
  <2>7. LedgerOf(cursor) <= latest[options[p].server]
    BY <1>2, <2>1, <2>3, <2>4
  <2>. QED  BY <2>1, <2>2, <2>3, <2>5, <2>6, <2>7 DEF cursor
<1>4. ASSUME NEW p \in Processes, NEW o \in Options, NEW n \in 0 .. MaxLedger + 1,
             StartFresh(p, o, n)
      PROVE  /\ FirstLedger(Reached)' = n /\ n <= latest[o.server] /\ ServesTestnet(o)
             /\ position'[p] = [cursor |-> NoCursor, startLedger |-> n]
             /\ options'[p] = o
  BY <1>4, Bounds DEF StartFresh, Begin, Enter, FirstLedger, Reached, TypeOK
<1>5. ASSUME state' # NoState, NEW o \in Options, ServesTestnet(o)
      PROVE  FirstLedger(Reached)' <= latest'[o.server]
  <2>1. CASE UNCHANGED <<chain, state, stored>>
    <3>1. FirstLedger(Reached)' = FirstLedger(Reached) /\ state \in Rows
      BY <1>5, <2>1 DEF FirstLedger, Reached, TypeOK
    <3>2. FirstLedger(Reached) \in Nat
      BY <3>1, CursorLedger, Bounds DEF Rows, Ledgers, FirstLedger, Reached
    <3>3. FirstLedger(Reached) <= latest[o.server]
      BY <1>5, <2>1 DEF NotAhead
    <3>. QED  BY <1>1, <1>2, <3>1, <3>2, <3>3
  <2>2. ASSUME NEW p \in Processes, NEW q \in Options, NEW n \in 0 .. MaxLedger + 1,
               StartFresh(p, q, n)
        PROVE  FirstLedger(Reached)' <= latest'[o.server]
    <3>a. ServesTestnet(q) /\ n \in Nat
      BY <2>2 DEF StartFresh
    <3>1. q.server = o.server /\ q.server \in Servers /\ n \in Nat
      BY <1>2, <1>5, <3>a DEF SoleProvider
    <3>2. n <= latest[q.server] /\ latest[q.server] <= latest'[q.server]
      BY <1>1, <1>4, <2>2, <3>1
    <3>3. FirstLedger(Reached)' = n
      BY <1>4, <2>2
    <3>. QED  BY <1>2, <3>1, <3>2, <3>3
  <2>3. ASSUME NEW p \in Processes, TakePage(p)
        PROVE  FirstLedger(Reached)' <= latest'[o.server]
    <3>. DEFINE cursor == KeptCursor(answer[p].page, options[p].endLedger)
    <3>1. /\ state'.cursor = cursor /\ cursor # NoCursor /\ LedgerOf(cursor) \in Nat
          /\ LedgerOf(cursor) <= latest[options[p].server]
          /\ options[p].server = o.server
      BY <1>3, <1>5, <2>3 DEF SoleProvider
    <3>. HIDE DEF cursor
    <3>2. FirstLedger(Reached)' = LedgerOf(cursor)
      BY <3>1 DEF FirstLedger, Reached
    <3>. QED  BY <1>1, <1>2, <3>1, <3>2
  <2>. QED  BY <2>1, <2>2, <2>3, StoreSteps
<1>6. ASSUME NEW q \in Processes, pc'[q] # "down"
      PROVE  /\ FirstLedger(position[q])' <= latest'[options'[q].server]
             /\ answer'[q].kind = "page" =>
                  LedgerOf(answer'[q].page.cursor) <= latest'[options'[q].server]
             /\ answer'[q].kind = "outside" =>
                  /\ LostFrom(position[q])' < answer'[q].oldest
                  /\ answer'[q].oldest <= latest'[options'[q].server]
  <2>. DEFINE s == options[q].server
  <2>1. ASSUME pc[q] # "down"
        PROVE  /\ options[q] \in Options /\ s \in Servers
               /\ FirstLedger(position[q]) <= latest[s]
               /\ FirstLedger(position[q]) \in Nat
    BY <1>2, <2>1, RunningHasRow, FirstLedgerType DEF NotAhead, Up
  <2>2. ASSUME pc[q] # "down", position'[q] = position[q], options'[q] = options[q]
        PROVE  FirstLedger(position[q])' <= latest'[options'[q].server]
    <3>1. FirstLedger(position[q])' = FirstLedger(position[q])
      BY <2>2 DEF FirstLedger
    <3>. QED  BY <1>1, <1>2, <2>1, <2>2, <3>1
  <2>3. CASE pc[q] # "down" /\ Stays(q)
    <3>1. ASSUME answer[q].kind = "page"
          PROVE  LedgerOf(answer[q].page.cursor) <= latest'[s]
      <4>1. LedgerOf(answer[q].page.cursor) \in Nat
        BY <3>1, CursorLedger DEF TypeOK, Answers, Idle, Pages
      <4>. QED  BY <1>1, <1>2, <2>1, <2>3, <3>1, <4>1 DEF NotAhead, Up
    <3>2. ASSUME answer[q].kind = "outside"
          PROVE  LostFrom(position[q]) < answer[q].oldest /\ answer[q].oldest <= latest'[s]
      <4>1. answer[q].oldest \in Nat
        BY <3>2 DEF TypeOK, Answers, Idle, Ledgers
      <4>. QED  BY <1>1, <1>2, <2>1, <2>3, <3>2, <4>1 DEF NotAhead, Up
    <3>. QED  BY <2>2, <2>3, <3>1, <3>2 DEF Stays, LostFrom
  <2>4. ASSUME NEW o \in Options, NEW n \in 0 .. MaxLedger + 1, StartFresh(q, o, n)
        PROVE  FirstLedger(position[q])' <= latest'[options'[q].server]
    <3>1. o.server \in Servers /\ n \in Nat
      BY <1>2, Bounds
    <3>2. n <= latest[o.server] /\ latest[o.server] <= latest'[o.server]
      BY <1>1, <1>4, <2>4, <3>1
    <3>a. position'[q] = [cursor |-> NoCursor, startLedger |-> n] /\ options'[q] = o
      BY <1>4, <2>4
    <3>3. FirstLedger(position[q])' = n
      BY <3>a DEF FirstLedger
    <3>. QED  BY <1>2, <3>1, <3>2, <3>3, <3>a
  <2>5. ASSUME NEW o \in Options, Resume(q, o)
        PROVE  FirstLedger(position[q])' <= latest'[options'[q].server]
    <3>1. /\ position'[q] = Reached /\ options'[q] = o /\ state # NoState
          /\ ServesTestnet(o) /\ latest' = latest
      BY <2>5 DEF Resume, Enter, TypeOK, Reached, serverVars
    <3>2. FirstLedger(position[q])' = FirstLedger(Reached)
      BY <3>1 DEF FirstLedger
    <3>. QED  BY <3>1, <3>2 DEF NotAhead
  <2>6. ASSUME NEW o \in Options,
               Resume(q, o) \/ \E n \in 0 .. MaxLedger + 1 : StartFresh(q, o, n)
        PROVE  answer'[q].kind = "none"
    BY <2>6, StartIsChecked
  <2>7. CASE AskForPage(q)
    <3>. DEFINE page == GetEvents(s, options[q].filters, position[q], limit[q])
    <3>1. /\ pc[q] # "down" /\ InWindow(s, position[q])
          /\ answer'[q] = [kind |-> "page", page |-> page]
          /\ position' = position /\ options' = options
      BY <2>7 DEF AskForPage, Asking, Answered, TypeOK
    <3>2. LedgerOf(page.cursor) \in FirstLedger(position[q]) .. latest[s]
      BY <3>1, AnsweredPage DEF PageIsFrom
    <3>3. LedgerOf(page.cursor) <= latest'[s]
      BY <1>1, <1>2, <2>1, <3>1, <3>2
    <3>. HIDE DEF page
    <3>. QED  BY <2>2, <3>1, <3>3
  <2>8. CASE AskTooMuch(q)
    <3>1. /\ pc[q] # "down" /\ position' = position /\ options' = options
          /\ answer'[q].kind = "refused"
      BY <2>8 DEF AskTooMuch, Asking, Answered, TypeOK
    <3>. QED  BY <2>2, <3>1
  <2>9. CASE AskOutsideWindow(q)
    <3>1. /\ pc[q] # "down" /\ position' = position /\ options' = options
          /\ answer'[q] = [kind |-> "outside", oldest |-> oldest[s]]
          /\ ~InWindow(s, position[q])
      BY <2>9 DEF AskOutsideWindow, Asking, Answered, TypeOK
    <3>2. LostFrom(position[q]) < oldest[s]
      BY <1>2, <2>1, <3>1 DEF InWindow, FirstLedger, LostFrom
    <3>3. oldest[s] <= latest'[s]
      BY <1>1, <1>2, <2>1, <3>1
    <3>. QED  BY <2>2, <3>1, <3>2, <3>3 DEF LostFrom
  <2>10. CASE TakePage(q)
    <3>1. ~(Stop(q, "end-ledger") \/ Stop(q, "caught-up"))
      BY <1>6 DEF Stop, TypeOK
    <3>. DEFINE cursor == KeptCursor(answer[q].page, options[q].endLedger)
    <3>2. /\ answer'[q] = Idle /\ options' = options
          /\ position'[q] = [cursor |-> cursor, startLedger |-> 0]
      BY <2>10, <3>1 DEF TakePage, TypeOK
    <3>3. /\ cursor # NoCursor /\ LedgerOf(cursor) \in Nat
          /\ LedgerOf(cursor) <= latest[s] /\ s \in Servers
      BY <1>2, <1>3, <2>10
    <3>. HIDE DEF cursor
    <3>4. FirstLedger(position[q])' = LedgerOf(cursor)
      BY <3>2, <3>3 DEF FirstLedger
    <3>. QED  BY <1>1, <1>2, <3>2, <3>3, <3>4, IdleType
  <2>11. CASE AskForLess(q)
    <3>1. /\ pc[q] # "down" /\ position' = position /\ options' = options
          /\ answer'[q] = Idle
      BY <2>11 DEF AskForLess, TypeOK
    <3>. QED  BY <2>2, <3>1, IdleType
  <2>12. CASE SkipPastRetention(q)
    <3>. DEFINE first == answer[q].oldest
    <3>1. /\ pc[q] # "down" /\ answer[q].kind = "outside" /\ answer'[q] = Idle
          /\ position'[q] = [cursor |-> NoCursor, startLedger |-> first]
          /\ options' = options /\ latest' = latest
      BY <2>12 DEF SkipPastRetention, TypeOK, serverVars
    <3>2. first <= latest[s]
      BY <3>1 DEF NotAhead, Up
    <3>. HIDE DEF first
    <3>. QED  BY <3>1, <3>2, IdleType DEF FirstLedger
  <2>. QED
    BY <1>6, <2>3, <2>4, <2>5, <2>6, <2>7, <2>8, <2>9, <2>10, <2>11, <2>12, ProcessSteps
<1>. QED  BY <1>1, <1>5, <1>6 DEF NotAhead, Up

\* A merged gap is one hole: it covers no ledger that its parts do not.
LEMMA MergedAddsNothing ==
  ASSUME gaps \subseteq Gaps, NEW gap \in Gaps, NEW n \in Nat,
         n \in Merged(gap).fromLedger .. Merged(gap).toLedger
  PROVE  \E g \in Touching(gap) \cup {gap} : n \in g.fromLedger .. g.toLedger
<1>1. PICK a \in Touching(gap) \cup {gap} : a.fromLedger = Merged(gap).fromLedger
  BY MergedCovers
<1>2. PICK b \in Touching(gap) \cup {gap} : b.toLedger = Merged(gap).toLedger
  BY MergedCovers
<1>3. \A g \in Touching(gap) \cup {gap} :
        /\ g \in Gaps /\ g.fromLedger \in Nat /\ g.toLedger \in Nat
        /\ g # gap => g.fromLedger <= gap.toLedger + 1 /\ g.toLedger >= gap.fromLedger - 1
  BY Bounds DEF Touching, Gaps
<1>4. CASE n < gap.fromLedger
  BY <1>1, <1>3, <1>4
<1>5. CASE n > gap.toLedger
  BY <1>2, <1>3, <1>5
<1>6. CASE n \in gap.fromLedger .. gap.toLedger
  BY <1>6
<1>. QED  BY <1>3, <1>4, <1>5, <1>6

LEMMA RecordKeepsApart ==
  ASSUME gaps \subseteq Gaps, GapsAreApart, NEW gap \in Gaps,
         gap.fromLedger <= gap.toLedger, RecordGap(gap)
  PROVE  GapsAreApart'
<1>. DEFINE new == Merged(gap)
            Apart(g, h) == g.toLedger + 1 < h.fromLedger \/ h.toLedger + 1 < g.fromLedger
<1>1. gaps' = (gaps \ Touching(gap)) \cup {new}
  BY DEF RecordGap
<1>2. \A g \in gaps \cup {gap, new} : /\ g.fromLedger \in Nat /\ g.toLedger \in Nat
  BY MergedCovers, Bounds DEF Gaps
<1>3. \A g \in gaps \cup {gap} : g.fromLedger <= g.toLedger
  BY DEF GapsAreApart
<1>4. new.fromLedger <= gap.fromLedger /\ gap.toLedger <= new.toLedger
  BY MergedCovers
<1>5. ASSUME NEW g \in gaps \ Touching(gap) PROVE Apart(g, new)
  <2>1. Apart(g, gap)
    BY <1>2, <1>5 DEF Touching
  <2>2. ASSUME NEW h \in Touching(gap)
        PROVE  /\ Apart(g, h) /\ h \in gaps
               /\ h.fromLedger <= gap.toLedger + 1 /\ h.toLedger >= gap.fromLedger - 1
    BY <1>5, <2>2 DEF Touching, GapsAreApart
  <2>3. PICK a \in Touching(gap) \cup {gap} : a.fromLedger = new.fromLedger
    BY MergedCovers
  <2>4. PICK b \in Touching(gap) \cup {gap} : b.toLedger = new.toLedger
    BY MergedCovers
  <2>5. Apart(g, a) /\ Apart(g, b) /\ a \in gaps \cup {gap} /\ b \in gaps \cup {gap}
    BY <2>1, <2>2
  <2>6. /\ a # gap => a.fromLedger <= gap.toLedger + 1 /\ a.toLedger >= gap.fromLedger - 1
        /\ b # gap => b.fromLedger <= gap.toLedger + 1 /\ b.toLedger >= gap.fromLedger - 1
    BY <2>2
  <2>7. CASE g.toLedger + 1 < gap.fromLedger
    BY <1>2, <1>3, <2>3, <2>5, <2>6, <2>7
  <2>8. CASE gap.toLedger + 1 < g.fromLedger
    BY <1>2, <1>3, <2>4, <2>5, <2>6, <2>8
  <2>. QED  BY <2>1, <2>7, <2>8
<1>6. \A g \in gaps' : g.fromLedger <= g.toLedger
  BY <1>1, <1>2, <1>3, <1>4
<1>7. \A g, h \in gaps' : g = h \/ Apart(g, h)
  <2>1. \A g, h \in gaps : g = h \/ Apart(g, h)
    BY DEF GapsAreApart
  <2>. HIDE DEF new
  <2>. QED  BY <1>1, <1>5, <2>1
<1>. QED  BY <1>6, <1>7 DEF GapsAreApart

LEMMA ApartStep ==
  TypeOK /\ NotAhead /\ GapsAreApart /\ [Next]_vars => GapsAreApart'
<1>. SUFFICES ASSUME TypeOK, NotAhead, GapsAreApart, [Next]_vars PROVE GapsAreApart'
  OBVIOUS
<1>1. CASE UNCHANGED gaps
  BY <1>1 DEF GapsAreApart
<1>2. ASSUME NEW p \in Processes, SkipPastRetention(p) PROVE GapsAreApart'
  <2>. DEFINE gap == [fromLedger |-> LostFrom(position[p]),
                      toLedger   |-> answer[p].oldest - 1]
  <2>1. gap \in Gaps /\ RecordGap(gap) /\ answer[p].oldest \in Nat
    BY <1>2, SkipRecords DEF Ledgers
  <2>2. LostFrom(position[p]) < answer[p].oldest
    BY <1>2 DEF SkipPastRetention, NotAhead, Up
  <2>3. gap.fromLedger <= gap.toLedger
    BY <2>1, <2>2 DEF Gaps
  <2>. HIDE DEF gap
  <2>. QED  BY <2>1, <2>3, RecordKeepsApart DEF TypeOK
<1>. QED  BY <1>1, <1>2, GapSteps

LEMMA NotAheadAlways ==
  ASSUME SoleProvider
  PROVE  Spec => []NotAhead
<1>1. TypeOK /\ Genuine /\ NotAhead /\ [Next]_vars => NotAhead'
  BY NotAheadStep
<1>. QED  BY <1>1, NotAheadInit, GenuineAlways, IngestTypeCorrect, PTL DEF Spec

\* However many indexers skip ahead of one provider's retention, their gaps are
\* proper intervals, and two that overlap or abut have become one
\* (db.ts, recordGap).
THEOREM GapsAlwaysApart ==
  ASSUME SoleProvider
  PROVE  Spec => []GapsAreApart
<1>1. Init => GapsAreApart
  BY DEF Init, StoreInit, GapsAreApart
<1>. QED  BY <1>1, ApartStep, NotAheadAlways, IngestTypeCorrect, PTL DEF Spec

-----------------------------------------------------------------------------
(***************************************************************************)
(* One indexer.  With one process at a time, one provider and one end      *)
(* ledger, the cursor never goes back, so that nothing is read twice and   *)
(* no gap can come to lie over what is stored.                             *)
(***************************************************************************)

SoleIndexer ==
  /\ SoleProvider
  /\ \A p, q \in Processes : p = q
  /\ \A o, q \in Options : o.endLedger = q.endLedger

\* Where the end ledger, if there is one, stops a cursor.
WithinEnd(c) ==
  \A o \in Options : o.endLedger # NoLedger => c <= CursorForLedger(o.endLedger)

AtEnd(c) ==
  \A o \in Options : o.endLedger # NoLedger /\ c = CursorForLedger(o.endLedger)

PastEnd(n) == \A o \in Options : o.endLedger # NoLedger /\ n > o.endLedger

\* A database that was begun after the end ledger is brought back to it, and
\* then stays there.
InScope(c) == c # NoCursor => LedgerOf(c) >= state.startLedger \/ AtEnd(c)

\* A request goes on from the cursor, or from a later ledger.
GoesOn(where) ==
  IF where.cursor = NoCursor
  THEN /\ where.startLedger >= state.startLedger \/ PastEnd(where.startLedger)
       /\ state.cursor # NoCursor => LedgerOf(state.cursor) < where.startLedger
  ELSE where.cursor = state.cursor

\* What will be kept of a page is wanted, is new and is in no gap.
GoesOnWith(page, endLedger) ==
  /\ state.cursor <= KeptCursor(page, endLedger)
  /\ WithinEnd(KeptCursor(page, endLedger)) /\ InScope(KeptCursor(page, endLedger))
  /\ \A e \in KeptEvents(page, endLedger) :
       /\ e \in Wanted /\ state.cursor < e /\ e <= KeptCursor(page, endLedger)
       /\ ~InGap(LedgerOf(e))

GapsAgedOut ==
  \A g \in gaps, o \in Options : ServesTestnet(o) => g.toLedger < oldest[o.server]

InOrder ==
  /\ state = NoState => gaps = {}
  /\ state # NoState =>
       /\ \A e \in stored : e <= state.cursor
       /\ WithinEnd(state.cursor) /\ InScope(state.cursor)
  /\ GapsHoldNothing /\ GapsAgedOut
  /\ \A p \in Processes : Up(p) =>
       /\ GoesOn(position[p])
       /\ answer[p].kind = "page" => GoesOnWith(answer[p].page, options[p].endLedger)
       /\ answer[p].kind = "outside" => answer[p].oldest <= oldest[options[p].server]

\* What is kept of a page that starts at a position.
LEMMA PageGoesOn ==
  ASSUME SoleIndexer, TypeOK, Genuine, InOrder, NEW p \in Processes, pc[p] # "down",
         InWindow(options[p].server, position[p])
  PROVE  GoesOnWith(GetEvents(options[p].server, options[p].filters,
                              position[p], limit[p]),
                    options[p].endLedger)
<1>. DEFINE s == options[p].server
            f == options[p].filters
            end == options[p].endLedger
            where == position[p]
            page == GetEvents(s, f, where, limit[p])
            cursor == KeptCursor(page, end)
            c == state.cursor
<1>1. /\ state \in Rows /\ state # NoState /\ options[p] \in Options
      /\ end \in Nat \cup {NoLedger} /\ ServesTestnet(options[p])
  BY RunningHasRow, RowIsNotNoState, OptionsAssumption DEF Genuine, Up, RunsFor, ServesTestnet
<1>2. /\ s \in Servers /\ Networks[s] = Testnet /\ f = state.filters
      /\ page \in Pages /\ PageIsFrom(page, s, f, where)
  BY AnsweredPage DEF Genuine, RunsFor, Up
<1>3. /\ page.cursor \in Nat /\ LedgerOf(page.cursor) \in Nat
      /\ page.cursor >= where.cursor /\ LedgerOf(page.cursor) >= FirstLedger(where)
      /\ oldest[s] \in Nat /\ latest[s] \in Nat /\ FirstLedger(where) \in Nat
  BY <1>2, LedgerOfType, FirstLedgerType DEF PageIsFrom, TypeOK, Ledgers
<1>4. \A e \in page.events :
        /\ e \in Nat /\ LedgerOf(e) \in Nat /\ e > where.cursor /\ e <= page.cursor
        /\ LedgerOf(e) >= oldest[s] /\ LedgerOf(e) >= FirstLedger(where)
        /\ LedgerOf(e) <= LedgerOf(page.cursor)
        /\ e \in chain[Testnet][state.filters]
  BY <1>2, <1>3, LedgerOfType, LedgerOfMonotone DEF PageIsFrom
<1>5. /\ state.startLedger \in Nat
      /\ c = NoCursor \/ (c \in Nat /\ LedgerOf(c) \in Nat)
      /\ where.startLedger \in Nat
  BY <1>1, CursorLedger, Bounds DEF Rows, Ledgers, TypeOK
<1>6. \A o \in Options : o.endLedger = end
  BY <1>1 DEF SoleIndexer
<1>7. WithinEnd(c) /\ InScope(c) /\ GoesOn(where)
  BY <1>1 DEF InOrder, Up
<1>8. ASSUME end # NoLedger
      PROVE  /\ end \in Nat /\ CursorForLedger(end) \in Nat
             /\ LedgerOf(CursorForLedger(end)) = end
             /\ \A id \in Nat : id <= CursorForLedger(end) <=> LedgerOf(id) <= end
  BY <1>1, <1>8, CursorEndsLedger
<1>9. /\ cursor \in Nat /\ LedgerOf(cursor) \in Nat
      /\ ~RunsPast(page, end) => cursor = page.cursor
      /\ RunsPast(page, end) => end # NoLedger /\ cursor = CursorForLedger(end)
  BY <1>3, <1>8, LedgerOfType DEF KeptCursor, RunsPast
<1>10. WithinEnd(cursor)
  <2>. SUFFICES ASSUME end # NoLedger PROVE cursor <= CursorForLedger(end)
    BY <1>6 DEF WithinEnd
  <2>. QED  BY <1>3, <1>8, <1>9 DEF RunsPast
<1>11. c <= page.cursor
  <2>1. CASE where.cursor # NoCursor
    BY <1>3, <1>7, <2>1 DEF GoesOn
  <2>2. CASE where.cursor = NoCursor /\ c # NoCursor
    <3>1. LedgerOf(c) < LedgerOf(page.cursor)
      BY <1>3, <1>5, <1>7, <2>2 DEF GoesOn, FirstLedger
    <3>. QED  BY <1>3, <1>5, <2>2, <3>1, LedgerOfMonotone
  <2>3. CASE c = NoCursor
    BY <1>3, <2>3 DEF NoCursor
  <2>. QED  BY <2>1, <2>2, <2>3
<1>12. c <= cursor
  <2>1. CASE RunsPast(page, end)
    BY <1>1, <1>6, <1>7, <1>9, <2>1 DEF WithinEnd
  <2>. QED  BY <1>9, <1>11, <2>1
<1>13. LedgerOf(page.cursor) >= state.startLedger
        \/ (end # NoLedger /\ FirstLedger(where) > end)
        \/ (end # NoLedger /\ where.cursor = CursorForLedger(end) /\ where.cursor # NoCursor)
  <2>1. CASE where.cursor = NoCursor
    BY <1>1, <1>3, <1>5, <1>7, <2>1 DEF GoesOn, FirstLedger, PastEnd
  <2>2. CASE where.cursor # NoCursor
    BY <1>1, <1>3, <1>5, <1>7, <2>2 DEF GoesOn, FirstLedger, InScope, AtEnd
  <2>. QED  BY <2>1, <2>2
<1>14. InScope(cursor)
  <2>1. CASE RunsPast(page, end)
    BY <1>6, <1>9, <2>1 DEF InScope, AtEnd
  <2>2. CASE ~RunsPast(page, end) /\ end # NoLedger /\ FirstLedger(where) > end
    BY <1>3, <1>8, <2>2 DEF RunsPast
  <2>3. CASE ~RunsPast(page, end) /\ end # NoLedger /\ where.cursor = CursorForLedger(end)
    <3>1. page.cursor = CursorForLedger(end)
      BY <1>3, <1>8, <2>3 DEF RunsPast
    <3>. QED  BY <1>6, <1>9, <2>3, <3>1 DEF InScope, AtEnd
  <2>4. CASE ~RunsPast(page, end) /\ LedgerOf(page.cursor) >= state.startLedger
    BY <1>9, <2>4 DEF InScope
  <2>. QED  BY <1>13, <2>1, <2>2, <2>3, <2>4
<1>15. ASSUME NEW e \in KeptEvents(page, end)
       PROVE  e \in Wanted /\ c < e /\ e <= cursor /\ ~InGap(LedgerOf(e))
  <2>1. e \in page.events /\ (RunsPast(page, end) => LedgerOf(e) <= end)
    BY <1>15 DEF KeptEvents
  <2>2. /\ e \in Nat /\ LedgerOf(e) \in Nat /\ e > where.cursor /\ e <= page.cursor
        /\ LedgerOf(e) >= oldest[s] /\ LedgerOf(e) >= FirstLedger(where)
        /\ LedgerOf(e) <= LedgerOf(page.cursor)
        /\ e \in chain[Testnet][state.filters]
    BY <1>4, <2>1
  <2>3. e <= cursor
    BY <1>3, <1>8, <1>9, <2>1, <2>2
  <2>4. c < e
    <3>1. CASE where.cursor # NoCursor
      BY <1>7, <2>2, <3>1 DEF GoesOn
    <3>2. CASE where.cursor = NoCursor /\ c # NoCursor
      <4>1. LedgerOf(c) < LedgerOf(e)
        BY <1>3, <1>5, <1>7, <2>2, <3>2 DEF GoesOn, FirstLedger
      <4>. QED  BY <1>5, <2>2, <3>2, <4>1, LedgerOfMonotone
    <3>3. CASE c = NoCursor
      BY <2>2, <3>3 DEF NoCursor
    <3>. QED  BY <3>1, <3>2, <3>3
  <2>5. LedgerOf(e) >= state.startLedger
    <3>1. CASE where.cursor = NoCursor /\ where.startLedger >= state.startLedger
      BY <1>5, <2>2, <3>1 DEF FirstLedger
    <3>2. CASE where.cursor = NoCursor /\ PastEnd(where.startLedger)
      BY <1>1, <1>3, <1>5, <1>8, <2>1, <2>2, <3>2 DEF FirstLedger, PastEnd, RunsPast
    <3>3. CASE where.cursor # NoCursor /\ LedgerOf(c) >= state.startLedger
      BY <1>5, <1>7, <2>2, <3>3 DEF FirstLedger, GoesOn
    <3>4. CASE where.cursor # NoCursor /\ AtEnd(c)
      <4>1. end # NoLedger /\ where.cursor = CursorForLedger(end)
        BY <1>1, <1>7, <3>4 DEF AtEnd, GoesOn
      <4>2. LedgerOf(e) > end
        BY <1>8, <2>2, <4>1
      <4>. QED  BY <1>3, <1>8, <2>1, <2>2, <4>1, <4>2 DEF RunsPast
    <3>. QED  BY <1>7, <3>1, <3>2, <3>3, <3>4 DEF GoesOn, InScope
  <2>6. ~InGap(LedgerOf(e))
    <3>1. \A g \in gaps : g.toLedger < oldest[s] /\ g.toLedger \in Nat /\ g.fromLedger \in Nat
      BY <1>1, Bounds DEF InOrder, GapsAgedOut, TypeOK, Gaps
    <3>. QED  BY <1>3, <2>2, <3>1 DEF InGap
  <2>. QED  BY <1>1, <2>2, <2>3, <2>4, <2>5, <2>6 DEF Wanted
<1>. HIDE DEF page, cursor, end, c
<1>. QED  BY <1>10, <1>12, <1>14, <1>15 DEF GoesOnWith, page, cursor, end, c

\* A new gap lies above what is stored, and next the window moves on from it.
LEMMA SkipGoesOn ==
  ASSUME SoleIndexer, TypeOK, Genuine, NotAhead, InOrder, [Next]_vars,
         NEW p \in Processes, SkipPastRetention(p)
  PROVE  /\ GapsHoldNothing' /\ GapsAgedOut'
         /\ GoesOn(position[p])'
<1>. DEFINE s == options[p].server
            where == position[p]
            first == answer[p].oldest
            c == state.cursor
            gap == [fromLedger |-> LostFrom(where), toLedger |-> first - 1]
<1>1. /\ state \in Rows /\ state # NoState /\ options[p] \in Options /\ s \in Servers
      /\ ServesTestnet(options[p]) /\ pc[p] # "down" /\ answer[p].kind = "outside"
  BY RunningHasRow, RowIsNotNoState, OptionsAssumption
     DEF SkipPastRetention, Genuine, Up, RunsFor, ServesTestnet
<1>2. /\ first \in Nat /\ gap \in Gaps /\ RecordGap(gap)
      /\ gap.fromLedger \in Nat /\ gap.toLedger \in Nat
  BY SkipRecords, Bounds DEF Ledgers, Gaps
<1>3. /\ oldest' = oldest /\ state' = state /\ stored' = stored
      /\ position'[p] = [cursor |-> NoCursor, startLedger |-> first]
  BY DEF SkipPastRetention, RecordGap, serverVars, TypeOK
<1>4. /\ LostFrom(where) < first /\ first <= oldest[s] /\ oldest[s] \in Nat
      /\ GoesOn(where) /\ InScope(c)
  BY <1>1 DEF NotAhead, InOrder, Up, TypeOK, Ledgers
<1>5. /\ state.startLedger \in Nat
      /\ c = NoCursor \/ (c \in Nat /\ LedgerOf(c) \in Nat)
      /\ where.startLedger \in Nat
      /\ LostFrom(where) \in Nat
  BY <1>1, <1>2, CursorLedger, Bounds DEF Rows, Ledgers, TypeOK
<1>6. c # NoCursor => LedgerOf(c) < LostFrom(where)
  BY <1>4, <1>5 DEF GoesOn, LostFrom
<1>7. ASSUME NEW e \in stored, InGap(LedgerOf(e))' PROVE FALSE
  <2>1. e \in Nat /\ LedgerOf(e) \in Nat /\ e <= c /\ ~InGap(LedgerOf(e))
    BY <1>1, CursorLedger DEF InOrder, GapsHoldNothing, TypeOK
  <2>2. c # NoCursor /\ LedgerOf(e) <= LedgerOf(c)
    BY <1>5, <2>1, LedgerOfMonotone DEF NoCursor
  <2>3. LedgerOf(e) \notin gap.fromLedger .. gap.toLedger
    BY <1>2, <1>5, <1>6, <2>1, <2>2
  <2>4. Merged(gap) \in Gaps
    BY <1>2, MergedCovers DEF TypeOK
  <2>. HIDE DEF gap
  <2>5. ASSUME LedgerOf(e) \in Merged(gap).fromLedger .. Merged(gap).toLedger PROVE FALSE
    <3>1. \E g \in Touching(gap) \cup {gap} : LedgerOf(e) \in g.fromLedger .. g.toLedger
      BY <1>2, <2>1, <2>5, MergedAddsNothing DEF TypeOK
    <3>. QED  BY <2>1, <2>3, <3>1 DEF InGap, Touching
  <2>. QED  BY <1>2, <1>7, <2>1, <2>5 DEF RecordGap, InGap
<1>8. ASSUME NEW g \in gaps', NEW o \in Options, ServesTestnet(o)
      PROVE  g.toLedger < oldest'[o.server]
  <2>1. o.server = s
    BY <1>1, <1>8 DEF SoleIndexer, SoleProvider
  <2>2. ASSUME NEW h \in gaps \cup {gap} PROVE h.toLedger < oldest[s]
    <3>1. gap.toLedger < oldest[s]
      BY <1>2, <1>4
    <3>2. \A k \in gaps : k.toLedger < oldest[s]
      BY <1>1 DEF InOrder, GapsAgedOut
    <3>. QED  BY <3>1, <3>2
  <2>. HIDE DEF gap
  <2>3. \E h \in Touching(gap) \cup {gap} : h.toLedger = Merged(gap).toLedger
    BY <1>2, MergedCovers DEF TypeOK
  <2>4. g \in gaps \/ g = Merged(gap)
    BY <1>2, <1>8 DEF RecordGap
  <2>5. g.toLedger < oldest[s]
    BY <2>2, <2>3, <2>4 DEF Touching
  <2>. QED  BY <1>3, <2>1, <2>5
<1>9. first >= state.startLedger \/ PastEnd(first)
  <2>1. CASE where.cursor = NoCursor
    BY <1>2, <1>4, <1>5, <2>1, OptionsAssumption DEF GoesOn, LostFrom, PastEnd, NoLedger
  <2>2. CASE where.cursor # NoCursor /\ LedgerOf(c) >= state.startLedger
    BY <1>2, <1>4, <1>5, <1>6, <2>2 DEF GoesOn
  <2>3. CASE where.cursor # NoCursor /\ AtEnd(c)
    <3>1. ASSUME NEW o \in Options PROVE o.endLedger # NoLedger /\ first > o.endLedger
      <4>1. o.endLedger \in Nat /\ c = CursorForLedger(o.endLedger)
        BY <2>3, OptionsAssumption DEF AtEnd
      <4>2. LedgerOf(c) = o.endLedger
        BY <4>1, CursorEndsLedger
      <4>. QED  BY <1>2, <1>4, <1>5, <2>3, <4>1, <4>2 DEF LostFrom, GoesOn, NoLedger
    <3>. QED  BY <3>1 DEF PastEnd
  <2>. QED  BY <1>4, <2>1, <2>2, <2>3 DEF GoesOn, InScope
<1>10. GoesOn(position[p])'
  <2>1. c # NoCursor => LedgerOf(c) < first
    BY <1>2, <1>4, <1>5, <1>6
  <2>. HIDE DEF first
  <2>. QED  BY <1>3, <1>9, <2>1 DEF GoesOn
<1>. QED
  BY <1>3, <1>7, <1>8, <1>10 DEF GapsHoldNothing, GapsAgedOut

LEMMA InOrderInit == Init => InOrder
BY DEF Init, StoreInit, InOrder, GapsHoldNothing, GapsAgedOut, Up

LEMMA InOrderStep ==
  ASSUME SoleIndexer
  PROVE  TypeOK /\ Genuine /\ NotAhead /\ InOrder /\ [Next]_vars => InOrder'
<1>. SUFFICES ASSUME TypeOK, Genuine, NotAhead, InOrder, [Next]_vars PROVE InOrder'
  OBVIOUS
<1>1. TypeOK'
  BY TypeStep
<1>2. \A p, q \in Processes : p = q
  BY DEF SoleIndexer
<1>3. ASSUME NEW p \in Processes, TakePage(p)
      PROVE  LET page   == answer[p].page
                 end    == options[p].endLedger
                 cursor == KeptCursor(page, end)
             IN  /\ state # NoState /\ state' # NoState /\ Wanted' = Wanted
                 /\ GoesOnWith(page, end)
                 /\ stored' = stored \cup KeptEvents(page, end) /\ gaps' = gaps
                 /\ state'.cursor = cursor /\ cursor # NoCursor /\ cursor \in Nat
                 /\ state'.startLedger = state.startLedger
  <2>. DEFINE cursor == KeptCursor(answer[p].page, options[p].endLedger)
  <2>1. pc[p] # "down" /\ state # NoState /\ answer[p].kind = "page"
    BY <1>3, RunningHasRow, RowIsNotNoState DEF TakePage
  <2>2. state' # NoState /\ Wanted' = Wanted
    BY <2>1, Grows, RowIsNotNoState, AccountedForever DEF Genuine
  <2>3. cursor # NoCursor /\ cursor \in Nat
    BY <1>3, TakesPage, CursorLedger DEF NoCursor
  <2>. QED  BY <1>3, <2>1, <2>2, <2>3, TakesPage DEF InOrder, Up
<1>4. (state = NoState => gaps = {})'
  <2>1. CASE UNCHANGED gaps
    <3>1. state # NoState => state' # NoState
      BY Grows, RowIsNotNoState
    <3>. QED  BY <2>1, <3>1 DEF InOrder
  <2>2. ASSUME NEW p \in Processes, SkipPastRetention(p) PROVE state' # NoState
    BY <2>2, RunningHasRow, Grows, RowIsNotNoState DEF SkipPastRetention
  <2>. QED  BY <2>1, <2>2, GapSteps
<1>5. ASSUME state' # NoState
      PROVE  /\ \A e \in stored' : e <= state'.cursor
             /\ WithinEnd(state.cursor)' /\ InScope(state.cursor)'
  <2>1. CASE UNCHANGED <<chain, state, stored>>
    BY <1>5, <2>1 DEF InOrder, WithinEnd, InScope, AtEnd
  <2>2. ASSUME NEW p \in Processes, NEW o \in Options, NEW n \in 0 .. MaxLedger + 1,
               StartFresh(p, o, n)
        PROVE  /\ \A e \in stored' : e <= state'.cursor
               /\ WithinEnd(state.cursor)' /\ InScope(state.cursor)'
    <3>1. stored' = {} /\ state'.cursor = NoCursor
      BY <2>2 DEF StartFresh, Begin, Genuine
    <3>2. \A r \in Options : r.endLedger # NoLedger => NoCursor <= CursorForLedger(r.endLedger)
      BY OptionsAssumption, CursorEndsLedger DEF NoCursor
    <3>. QED  BY <3>1, <3>2 DEF WithinEnd, InScope
  <2>3. ASSUME NEW p \in Processes, TakePage(p)
        PROVE  /\ \A e \in stored' : e <= state'.cursor
               /\ WithinEnd(state.cursor)' /\ InScope(state.cursor)'
    <3>. DEFINE page   == answer[p].page
                end    == options[p].endLedger
                cursor == KeptCursor(page, end)
    <3>1. /\ state # NoState /\ GoesOnWith(page, end) /\ state'.cursor = cursor
          /\ stored' = stored \cup KeptEvents(page, end) /\ cursor \in Nat
          /\ state'.startLedger = state.startLedger
      BY <1>3, <2>3
    <3>2. /\ state.cursor <= cursor /\ WithinEnd(cursor) /\ InScope(cursor)
          /\ \A e \in KeptEvents(page, end) : e <= cursor
      BY <3>1 DEF GoesOnWith
    <3>3. \A e \in stored : e <= state.cursor /\ e \in Int /\ state.cursor \in Int
      BY <3>1, CursorLedger DEF InOrder, TypeOK, Rows, NoCursor
    <3>. HIDE DEF cursor
    <3>. QED  BY <3>1, <3>2, <3>3 DEF WithinEnd, InScope, AtEnd
  <2>. QED  BY <1>5, <2>1, <2>2, <2>3, StoreSteps
<1>6. GapsHoldNothing'
  <2>1. ASSUME NEW p \in Processes, SkipPastRetention(p) PROVE GapsHoldNothing'
    BY <2>1, SkipGoesOn
  <2>2. CASE UNCHANGED gaps
    <3>1. CASE UNCHANGED <<chain, state, stored>>
      BY <2>2, <3>1 DEF InOrder, GapsHoldNothing, InGap
    <3>2. ASSUME NEW p \in Processes, NEW o \in Options, NEW n \in 0 .. MaxLedger + 1,
                 StartFresh(p, o, n)
          PROVE  GapsHoldNothing'
      BY <3>2 DEF StartFresh, Begin, Genuine, GapsHoldNothing
    <3>3. ASSUME NEW p \in Processes, TakePage(p) PROVE GapsHoldNothing'
      <4>1. /\ GoesOnWith(answer[p].page, options[p].endLedger)
            /\ stored' = stored \cup KeptEvents(answer[p].page, options[p].endLedger)
        BY <1>3, <3>3
      <4>. QED  BY <2>2, <4>1 DEF GoesOnWith, InOrder, GapsHoldNothing, InGap
    <3>. QED  BY <3>1, <3>2, <3>3, StoreSteps
  <2>. QED  BY <2>1, <2>2, GapSteps
<1>7. GapsAgedOut'
  <2>1. ASSUME NEW p \in Processes, SkipPastRetention(p) PROVE GapsAgedOut'
    BY <2>1, SkipGoesOn
  <2>2. CASE UNCHANGED gaps
    <3>1. CASE state = NoState
      BY <2>2, <3>1 DEF InOrder, GapsAgedOut
    <3>2. ASSUME state # NoState, NEW g \in gaps', NEW o \in Options, ServesTestnet(o)
          PROVE  g.toLedger < oldest'[o.server]
      <4>1. o.server \in Servers /\ g.toLedger \in Nat
        BY <2>2, <3>2, OptionsAssumption, Bounds DEF TypeOK, Gaps
      <4>2. /\ oldest[o.server] \in Nat /\ oldest'[o.server] \in Nat
            /\ oldest[o.server] <= oldest'[o.server]
        BY <1>1, <3>2, <4>1, Grows DEF TypeOK, Ledgers
      <4>3. g.toLedger < oldest[o.server]
        BY <2>2, <3>2 DEF InOrder, GapsAgedOut
      <4>. QED  BY <4>1, <4>2, <4>3
    <3>. QED  BY <3>1, <3>2 DEF GapsAgedOut
  <2>. QED  BY <2>1, <2>2, GapSteps
<1>8. ASSUME NEW q \in Processes, pc'[q] # "down"
      PROVE  /\ GoesOn(position[q])'
             /\ answer'[q].kind = "page" => GoesOnWith(answer[q].page, options[q].endLedger)'
             /\ answer'[q].kind = "outside" =>
                  answer'[q].oldest <= oldest'[options'[q].server]
  <2>1. ASSUME pc[q] # "down"
        PROVE  /\ state # NoState /\ options[q].server \in Servers
               /\ GoesOn(position[q])
               /\ answer[q].kind = "page" =>
                    GoesOnWith(answer[q].page, options[q].endLedger)
               /\ answer[q].kind = "outside" =>
                    answer[q].oldest <= oldest[options[q].server]
               /\ Wanted' = Wanted
    BY <2>1, RunningHasRow, RowIsNotNoState, OptionsAssumption, AccountedForever
       DEF InOrder, Up, Genuine
  <2>2. ASSUME pc[q] # "down", ~TakePage(q), ~SkipPastRetention(q)
        PROVE  UNCHANGED <<chain, state, stored, gaps>>
    <3>1. ASSUME NEW p \in Processes, NEW o \in Options, NEW n \in 0 .. MaxLedger + 1,
                 StartFresh(p, o, n)
          PROVE  FALSE
      BY <2>1, <2>2, <3>1 DEF StartFresh, Begin
    <3>. QED  BY <1>2, <2>2, <3>1, StoreSteps, GapSteps
  <2>3. ASSUME pc[q] # "down", ~TakePage(q), ~SkipPastRetention(q),
               position'[q] = position[q]
        PROVE  GoesOn(position[q])'
    BY <2>1, <2>2, <2>3 DEF GoesOn
  <2>4. ASSUME TakePage(q) \/ SkipPastRetention(q)
        PROVE  /\ pc[q] # "down" /\ answer'[q] = Idle /\ answer[q].kind # "none"
               /\ TakePage(q) =>
                    position'[q] = [cursor |-> KeptCursor(answer[q].page, options[q].endLedger),
                                    startLedger |-> 0]
    <3>1. ~(Stop(q, "end-ledger") \/ Stop(q, "caught-up"))
      BY <1>8 DEF Stop, TypeOK
    <3>. QED  BY <2>4, <3>1 DEF TakePage, SkipPastRetention, TypeOK
  <2>5. CASE pc[q] # "down" /\ Stays(q)
    <3>1. ~TakePage(q) /\ ~SkipPastRetention(q)
      BY <2>4, <2>5, IdleType DEF Stays
    <3>2. UNCHANGED <<chain, state, stored, gaps>>
      BY <2>2, <2>5, <3>1
    <3>3. ASSUME answer[q].kind = "page"
          PROVE  GoesOnWith(answer[q].page, options[q].endLedger)'
      BY <2>1, <2>5, <3>2, <3>3 DEF Stays, GoesOnWith, InScope, InGap
    <3>4. ASSUME answer[q].kind = "outside"
          PROVE  answer[q].oldest <= oldest'[options[q].server]
      <4>1. answer[q].oldest \in Nat
        BY <3>4 DEF TypeOK, Answers, Idle, Ledgers
      <4>2. /\ oldest[options[q].server] \in Nat /\ oldest'[options[q].server] \in Nat
            /\ oldest[options[q].server] <= oldest'[options[q].server]
        BY <1>1, <2>1, <2>5, Grows DEF TypeOK, Ledgers
      <4>. QED  BY <2>1, <2>5, <3>4, <4>1, <4>2
    <3>. QED  BY <2>3, <2>5, <3>1, <3>3, <3>4 DEF Stays
  <2>6. ASSUME NEW o \in Options, NEW n \in 0 .. MaxLedger + 1, StartFresh(q, o, n)
        PROVE  GoesOn(position[q])'
    <3>1. /\ position'[q] = [cursor |-> NoCursor, startLedger |-> n] /\ n \in Nat
          /\ state'.cursor = NoCursor /\ state'.startLedger = n
      BY <2>6 DEF StartFresh, Enter, Begin, TypeOK
    <3>. QED  BY <3>1 DEF GoesOn
  <2>7. ASSUME NEW o \in Options, Resume(q, o) PROVE GoesOn(position[q])'
    <3>1. /\ position'[q] = Reached /\ state' = state /\ state \in Rows
      BY <2>7 DEF Resume, Enter, TypeOK, Reached, storeVars
    <3>2. state.startLedger \in Nat
      BY <3>1, Bounds DEF Rows, Ledgers
    <3>. QED  BY <3>1, <3>2 DEF GoesOn, Reached
  <2>8. ASSUME NEW o \in Options,
               Resume(q, o) \/ \E n \in 0 .. MaxLedger + 1 : StartFresh(q, o, n)
        PROVE  answer'[q].kind = "none"
    BY <2>8, StartIsChecked
  <2>9. CASE AskForPage(q)
    <3>. DEFINE page == GetEvents(options[q].server, options[q].filters,
                                  position[q], limit[q])
    <3>1. /\ pc[q] # "down" /\ InWindow(options[q].server, position[q])
          /\ answer'[q] = [kind |-> "page", page |-> page]
          /\ position' = position /\ options' = options
          /\ UNCHANGED <<chain, state, stored, gaps>>
      BY <2>9 DEF AskForPage, Asking, Answered, TypeOK, serverVars, storeVars
    <3>2. GoesOnWith(page, options[q].endLedger)
      BY <3>1, PageGoesOn
    <3>. HIDE DEF page
    <3>3. GoesOnWith(answer[q].page, options[q].endLedger)'
      BY <2>1, <3>1, <3>2 DEF GoesOnWith, InScope, InGap
    <3>4. GoesOn(position[q])'
      BY <2>1, <3>1 DEF GoesOn
    <3>. QED  BY <3>1, <3>3, <3>4
  <2>10. CASE AskTooMuch(q)
    <3>1. /\ pc[q] # "down" /\ answer'[q].kind = "refused"
          /\ position' = position /\ state' = state
      BY <2>10 DEF AskTooMuch, Asking, Answered, TypeOK, storeVars
    <3>2. GoesOn(position[q])'
      BY <2>1, <3>1 DEF GoesOn
    <3>. QED  BY <3>1, <3>2
  <2>11. CASE AskOutsideWindow(q)
    <3>1. /\ pc[q] # "down" /\ position' = position /\ state' = state
          /\ options' = options /\ oldest' = oldest
          /\ answer'[q] = [kind |-> "outside", oldest |-> oldest[options[q].server]]
      BY <2>11 DEF AskOutsideWindow, Asking, Answered, TypeOK, serverVars, storeVars
    <3>2. oldest[options[q].server] \in Nat
      BY <2>1, <3>1 DEF TypeOK, Ledgers
    <3>3. GoesOn(position[q])'
      BY <2>1, <3>1 DEF GoesOn
    <3>. QED  BY <3>1, <3>2, <3>3
  <2>12. CASE TakePage(q)
    <3>. DEFINE cursor == KeptCursor(answer[q].page, options[q].endLedger)
    <3>1. /\ position'[q] = [cursor |-> cursor, startLedger |-> 0]
          /\ answer'[q] = Idle /\ state'.cursor = cursor /\ cursor # NoCursor
      BY <1>3, <2>4, <2>12
    <3>. HIDE DEF cursor
    <3>. QED  BY <3>1, IdleType DEF GoesOn
  <2>13. CASE AskForLess(q)
    <3>1. /\ pc[q] # "down" /\ answer'[q] = Idle
          /\ position' = position /\ state' = state
      BY <2>13 DEF AskForLess, TypeOK, storeVars
    <3>2. GoesOn(position[q])'
      BY <2>1, <3>1 DEF GoesOn
    <3>. QED  BY <3>1, <3>2, IdleType
  <2>14. CASE SkipPastRetention(q)
    BY <2>4, <2>14, SkipGoesOn, IdleType
  <2>. QED
    BY <1>8, <2>5, <2>6, <2>7, <2>8, <2>9, <2>10, <2>11, <2>12, <2>13, <2>14, ProcessSteps
<1>. QED  BY <1>4, <1>5, <1>6, <1>7, <1>8 DEF InOrder, Up

LEMMA InOrderAlways ==
  ASSUME SoleIndexer
  PROVE  Spec => []InOrder
<1>1. TypeOK /\ Genuine /\ NotAhead /\ InOrder /\ [Next]_vars => InOrder'
  BY InOrderStep
<1>2. Spec => []NotAhead
  BY NotAheadAlways DEF SoleIndexer
<1>. QED  BY <1>1, <1>2, InOrderInit, GenuineAlways, IngestTypeCorrect, PTL DEF Spec

\* No stored event lies in a ledger that the database calls never covered
\* (db.ts:63), as long as one indexer at a time brings it up to one end ledger.
THEOREM GapsAlwaysHoldNothing ==
  ASSUME SoleIndexer
  PROVE  Spec => []GapsHoldNothing
<1>1. InOrder => GapsHoldNothing
  BY DEF InOrder
<1>. QED  BY <1>1, InOrderAlways, PTL

-----------------------------------------------------------------------------
(***************************************************************************)
(* The history.  Storing a page is what delivers; any other step may only  *)
(* put more of the history out of reach.                                   *)
(***************************************************************************)

OutOfReach == {e \in Wanted : InGap(LedgerOf(e)) \/ CutOff(e)}
Upto == IF state = NoState THEN NoCursor ELSE state.cursor

LEMMA OutOfReachGrows ==
  ASSUME TypeOK, Genuine, [Next]_vars, state # NoState
  PROVE  Wanted' = Wanted /\ Wanted \subseteq Nat /\ OutOfReach \subseteq OutOfReach'
<1>1. Wanted' = Wanted /\ Wanted \subseteq Nat
  BY AccountedForever DEF Genuine
<1>. SUFFICES ASSUME NEW e \in OutOfReach PROVE InGap(LedgerOf(e))' \/ CutOff(e)'
  BY <1>1 DEF OutOfReach
<1>2. e \in Wanted /\ LedgerOf(e) \in Nat
  BY <1>1, LedgerOfType DEF OutOfReach
<1>3. CASE InGap(LedgerOf(e))
  BY <1>2, <1>3, Grows
<1>4. CASE CutOff(e)
  <2>1. PICK r \in Servers : LedgerOf(e) < oldest[r]
    BY <1>4 DEF CutOff
  <2>2. oldest[r] \in Nat /\ oldest'[r] \in Nat /\ oldest[r] <= oldest'[r]
    BY Grows, TypeStep DEF TypeOK, Ledgers
  <2>3. LedgerOf(e) < oldest'[r]
    BY <1>2, <2>1, <2>2
  <2>. QED  BY <1>4, <2>3, Grows DEF CutOff
<1>. QED  BY <1>3, <1>4 DEF OutOfReach

\* The step that delivers.
LEMMA PageDelivers ==
  ASSUME SoleIndexer, TypeOK, Genuine, Honest, InOrder, [Next]_vars,
         NEW p \in Processes, TakePage(p)
  PROVE  /\ Upto' >= Upto
         /\ \E delivered \in SUBSET {e \in Wanted : Upto < e /\ e <= Upto'} :
              /\ {e \in Wanted : Upto < e /\ e <= Upto'} \ OutOfReach \subseteq delivered
              /\ stored' = stored \cup delivered
<1>. DEFINE page   == answer[p].page
            end    == options[p].endLedger
            cursor == KeptCursor(page, end)
            kept   == KeptEvents(page, end)
<1>1. /\ pc[p] # "down" /\ state \in Rows /\ state # NoState
      /\ answer[p].kind = "page" /\ state' # NoState
  BY RunningHasRow, RowIsNotNoState, Grows DEF TakePage
<1>2. /\ page \in Pages /\ cursor \in Cursors /\ stored' = stored \cup kept
      /\ state'.cursor = cursor /\ end \in Nat \cup {NoLedger}
  BY TakesPage
<1>3. GoesOnWith(page, end) /\ HonestPage(page, limit[p])
  BY <1>1 DEF InOrder, Honest, Up
<1>4. Upto = state.cursor /\ Upto' = cursor /\ Upto \in Int /\ Upto' \in Int
  BY <1>1, <1>2, CursorLedger DEF Upto, Rows, NoCursor
<1>5. Wanted \subseteq Nat
  BY <1>1, OutOfReachGrows
<1>6. kept \subseteq {e \in Wanted : Upto < e /\ e <= Upto'}
  BY <1>3, <1>4 DEF GoesOnWith
<1>7. ASSUME NEW e \in Wanted, Upto < e, e <= Upto', e \notin OutOfReach
      PROVE  e \in kept
  <2>1. page.cursor \in Cursors /\ cursor <= page.cursor
    BY <1>2, KeptPage DEF Pages
  <2>2. e \in Nat /\ e <= page.cursor
    BY <1>2, <1>4, <1>5, <1>7, <2>1, CursorLedger
  <2>3. e \notin stored
    BY <1>1, <1>4, <1>7, <2>2 DEF InOrder
  <2>4. e \in page.events
    BY <1>3, <1>7, <2>2, <2>3 DEF HonestPage, Covers, Accounted, OutOfReach
  <2>5. RunsPast(page, end) => LedgerOf(e) <= end
    <3>. SUFFICES ASSUME RunsPast(page, end) PROVE LedgerOf(e) <= end
      OBVIOUS
    <3>1. end \in Nat /\ cursor = CursorForLedger(end)
      BY <1>2 DEF RunsPast, KeptCursor
    <3>. QED  BY <1>4, <1>7, <2>2, <3>1, CursorEndsLedger
  <2>. QED  BY <2>4, <2>5 DEF KeptEvents
<1>8. Upto' >= Upto
  BY <1>3, <1>4 DEF GoesOnWith
<1>. HIDE DEF kept, cursor
<1>. QED  BY <1>2, <1>6, <1>7, <1>8

LEMMA HistoryStep ==
  ASSUME SoleIndexer
  PROVE  TypeOK /\ Genuine /\ Honest /\ InOrder /\ [Next]_vars
         => [History!Next]_(History!vars)
<1>. SUFFICES ASSUME TypeOK, Genuine, Honest, InOrder, [Next]_vars
              PROVE  History!Next
  BY DEF History!Next
<1>1. ASSUME NEW p \in Processes, NEW o \in Options, NEW n \in 0 .. MaxLedger + 1,
             StartFresh(p, o, n)
      PROVE  History!Open
  <2>1. /\ state = NoState /\ stored = {} /\ gaps = {} /\ stored' = stored
        /\ gaps' = gaps /\ state'.cursor = NoCursor
    BY <1>1 DEF StartFresh, Begin, Genuine, InOrder
  <2>2. Wanted = {} /\ Upto = -1 /\ Upto' = Upto
    BY <2>1 DEF Wanted, Upto, NoCursor
  <2>3. OutOfReach = {} /\ OutOfReach' = {}
    BY <2>1, <2>2 DEF OutOfReach, InGap, CutOff
  <2>. QED
    BY <2>1, <2>2, <2>3 DEF History!Open, OutOfReach, Upto
<1>2. ASSUME NEW p \in Processes, TakePage(p) PROVE History!Deliver
  <2>1. state # NoState
    BY <1>2, RunningHasRow, RowIsNotNoState DEF TakePage
  <2>2. Wanted' = Wanted /\ OutOfReach \subseteq OutOfReach'
    BY <2>1, OutOfReachGrows
  <2>. QED
    BY <1>2, <2>2, PageDelivers DEF History!Deliver, OutOfReach, Upto
<1>3. CASE UNCHANGED <<chain, state, stored>>
  <2>1. CASE state # NoState
    <3>1. Wanted' = Wanted /\ OutOfReach \subseteq OutOfReach'
      BY <2>1, OutOfReachGrows
    <3>. QED  BY <1>3, <3>1 DEF History!Lose, History!Next, OutOfReach
  <2>2. CASE state = NoState
    <3>1. Wanted = {} /\ Wanted' = {}
      BY <1>3, <2>2 DEF Wanted
    <3>2. OutOfReach = {}
      BY <3>1 DEF OutOfReach
    <3>. QED  BY <1>3, <3>1, <3>2 DEF History!Lose, History!Next, OutOfReach
  <2>. QED  BY <2>1, <2>2
<1>. QED  BY <1>1, <1>2, <1>3, StoreSteps DEF History!Next

\* The database is a copy of the wanted history that grows at its end: nothing
\* is stored twice, nothing is passed over that was in reach, and the cursor
\* never goes back, however its one indexer is killed, interrupted, refused or
\* left behind by its server's retention (README.md, "No gap, no duplicates").
THEOREM IngestImplementsEventHistory ==
  ASSUME SoleIndexer, PagesHoldEvents
  PROVE  Spec => ImplementsEventHistory
<1>1. Init => History!Init
  BY DEF Init, StoreInit, History!Init, Wanted, NoCursor
<1>2. TypeOK /\ Genuine /\ Honest /\ InOrder /\ [Next]_vars
        => [History!Next]_(History!vars)
  BY HistoryStep
<1>. QED
  BY <1>1, <1>2, InOrderAlways, HonestAlways, GenuineAlways, IngestTypeCorrect, PTL
     DEF Spec, ImplementsEventHistory, History!Spec
=============================================================================
