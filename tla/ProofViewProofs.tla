--------------------------- MODULE ProofViewProofs ---------------------------
(***************************************************************************)
(* Proofs about the proof view: what its pages claim, of serve.ts beside a *)
(* running indexer and of api/index.ts over its fixture, and what a trace  *)
(* tells of its transaction.                                               *)
(***************************************************************************)
EXTENDS Parts, Extremes, SequenceTheorems

Hosts == {"serve", "api"}

\* A step is one of the view's that the part is, or leaves its variables alone.
LEMMA ViewMoves ==
  ASSUME [Next]_vars
  PROVE  /\ part' = part
         /\ part.name = "api" => View("api")!Next \/ UNCHANGED viewVars
         /\ part.name # "api" => View("serve")!Next \/ UNCHANGED viewVars
  BY DEF Next, vars, OthersRest, Else

-----------------------------------------------------------------------------
(***************************************************************************)
(* The ledger of an id, and the last id of a ledger.                       *)
(***************************************************************************)

Ledger(id) == id \div LedgerSize
End(n) == n * LedgerSize + LedgerSize - 1

LEMMA LedgersInView ==
  ASSUME NEW host \in Hosts
  PROVE  /\ \A id : View(host)!LedgerOf(id) = Ledger(id)
         /\ \A n : View(host)!CursorForLedger(n) = End(n)
  BY DEF View!LedgerOf, View!CursorForLedger, Ledger, End

LEMMA LedgersOrdered ==
  /\ \A id \in Nat : Ledger(id) \in Nat
  /\ \A a, b \in Nat : a <= b => Ledger(a) <= Ledger(b)
  /\ \A n \in Nat : End(n) \in Nat /\ Ledger(End(n)) = n
  /\ \A n, id \in Nat : id <= End(n) <=> Ledger(id) <= n
<1>1. LedgerSize \in Nat \ {0}
  BY LedgersAssumption
<1>2. \A id \in Nat : Ledger(id) \in Nat
  BY <1>1, BlockBounds DEF Ledger
<1>3. \A a, b \in Nat : a <= b => Ledger(a) <= Ledger(b)
  BY <1>1, BlockMonotone DEF Ledger
<1>4. \A n \in Nat : End(n) \in Nat /\ Ledger(End(n)) = n
  BY <1>1, BlockEnd DEF Ledger, End
<1>5. \A n, id \in Nat : id <= End(n) <=> Ledger(id) <= n
  BY <1>1, BlockEnd DEF Ledger, End
<1>. QED  BY <1>2, <1>3, <1>4, <1>5

LEMMA EventsInLedgers ==
  ASSUME NEW e \in Matching
  PROVE  e \in Nat /\ Ledger(e) \in 1 .. MaxLedger /\ Ledger(e) \in Nat
<1>1. Ledger(e) \in 1 .. MaxLedger
  BY LedgersAssumption, LedgersInView DEF Hosts
<1>. QED  BY <1>1, LedgersAssumption

-----------------------------------------------------------------------------
(***************************************************************************)
(* The gaps.  Recording one forgets no ledger of those there were.         *)
(***************************************************************************)

Gaps == [fromLedger : 1 .. MaxLedger, toLedger : 1 .. MaxLedger]
InGaps(n, some) == \E g \in some : n \in g.fromLedger .. g.toLedger

LEMMA MergedCovers ==
  ASSUME NEW host \in Hosts, gaps \subseteq Gaps, NEW gap \in Gaps
  PROVE  /\ View(host)!Merged(gap) \in Gaps
         /\ \A g \in View(host)!Touching(gap) \cup {gap} :
              /\ View(host)!Merged(gap).fromLedger <= g.fromLedger
              /\ g.toLedger <= View(host)!Merged(gap).toLedger
<1>. DEFINE parts == View(host)!Touching(gap) \cup {gap}
            Froms == {g.fromLedger : g \in parts}
            Tos == {g.toLedger : g \in parts}
<1>1. parts \subseteq Gaps
  BY DEF View!Touching
<1>2. /\ Froms \in SUBSET Nat /\ Froms # {} /\ Froms \subseteq 1 .. MaxLedger
      /\ Tos \in SUBSET Nat /\ Tos # {} /\ Tos \subseteq 1 .. MaxLedger
      /\ \A t \in Tos : t <= MaxLedger
  BY <1>1, LedgersAssumption DEF Gaps
<1>3. Min(Froms) \in Froms /\ \A n \in Froms : Min(Froms) <= n
  <2>. HIDE DEF Froms
  <2>. QED  BY <1>2, MinIsLeast
<1>4. Max(Tos) \in Tos /\ \A n \in Tos : n <= Max(Tos)
  <2>. HIDE DEF Tos
  <2>. QED  BY <1>2, MaxIsGreatest, LedgersAssumption
<1>5. View(host)!Merged(gap) = [fromLedger |-> Min(Froms), toLedger |-> Max(Tos)]
  BY DEF View!Merged, View!Min, View!Max, Min, Max
<1>6. View(host)!Merged(gap) \in Gaps
  BY <1>1, <1>3, <1>4, <1>5 DEF Gaps
<1>7. \A g \in parts : Min(Froms) <= g.fromLedger /\ g.toLedger <= Max(Tos)
  BY <1>3, <1>4
<1>. HIDE DEF Froms, Tos
<1>. QED  BY <1>5, <1>6, <1>7

LEMMA GapsGrow ==
  ASSUME NEW host \in Hosts, gaps \subseteq Gaps, NEW gap \in Gaps,
         View(host)!RecordGap(gap)
  PROVE  /\ gaps' \subseteq Gaps
         /\ \A n \in Nat : /\ InGaps(n, gaps) => InGaps(n, gaps')
                           /\ n \in gap.fromLedger .. gap.toLedger => InGaps(n, gaps')
<1>. DEFINE merged == View(host)!Merged(gap)
            touching == View(host)!Touching(gap)
<1>1. gaps' = (gaps \ touching) \cup {merged}
  BY DEF View!RecordGap
<1>2. touching \subseteq Gaps
  BY DEF View!Touching
<1>3. /\ merged \in Gaps
      /\ \A g \in touching \cup {gap} :
           merged.fromLedger <= g.fromLedger /\ g.toLedger <= merged.toLedger
  BY MergedCovers
<1>. HIDE DEF merged, touching
<1>4. ASSUME NEW n \in Nat, NEW g \in touching \cup {gap}, n \in g.fromLedger .. g.toLedger
      PROVE  InGaps(n, gaps')
  <2>1. n \in merged.fromLedger .. merged.toLedger
    BY <1>2, <1>3, <1>4, LedgersAssumption DEF Gaps
  <2>. QED  BY <1>1, <2>1 DEF InGaps
<1>5. ASSUME NEW n \in Nat, NEW g \in gaps \ touching, n \in g.fromLedger .. g.toLedger
      PROVE  InGaps(n, gaps')
  BY <1>1, <1>5 DEF InGaps
<1>. QED  BY <1>1, <1>3, <1>4, <1>5 DEF InGaps

-----------------------------------------------------------------------------
(***************************************************************************)
(* The index: of every ledger up to where it has come, what matched is     *)
(* stored, or the ledger is in a gap, or a page was cut in it.             *)
(***************************************************************************)

Rows == [startLedger : Nat, cursor : Nat, filters : {"filters"}]
CutOff(e) == \E d \in stored : d < e /\ Ledger(d) = Ledger(e)
Covered(e) == e \in stored \/ InGaps(Ledger(e), gaps) \/ CutOff(e)

IndexTyped ==
  /\ state \in {NoState} \cup Rows
  /\ gaps \subseteq Gaps
  /\ position \in Nat \cup {-1}

IndexIsHonest ==
  /\ state = NoState => stored = {} /\ position = -1
  /\ state # NoState =>
       /\ state.startLedger >= 1 /\ state.cursor >= End(state.startLedger - 1)
       /\ position # -1 => position >= End(state.startLedger - 1)
       /\ Ledger(state.cursor) < state.startLedger => stored = {}
       /\ \A e \in Matching :
            /\ Ledger(e) >= state.startLedger
            /\ \/ Ledger(e) <= Ledger(state.cursor)
               \/ position # -1 /\ Ledger(e) <= Ledger(position)
            => Covered(e)

\* The listener of api/index.ts serves only once its one indexer, which records
\* no gaps and stores every event, has caught up with the fixture.
FixtureIsRead(host) ==
  host = "api" =>
    /\ state # NoState => state.startLedger = 1
    /\ position # -1 => state # NoState /\ position = state.cursor
    /\ state # NoState => \A e \in Matching : e <= state.cursor => e \in stored
    /\ listener = "ready" =>
         state # NoState /\ Ledger(state.cursor) = MaxLedger /\ Matching \subseteq stored
    /\ at # "idle" => listener = "ready"

Index(host) == IndexTyped /\ IndexIsHonest /\ FixtureIsRead(host)

\* What was covered, and what was stored, stays so; only a recycled instance
\* loses both, and every request with them.
Growing(host) ==
  \/ /\ stored \subseteq stored' /\ (state # NoState => state' # NoState)
     /\ \A n \in Matching : Covered(n) => Covered(n)'
  \/ View(host)!Recycled

LEMMA IndexerKeeps ==
  ASSUME NEW host \in Hosts, Index(host), View(host)!Indexer
  PROVE  /\ Index(host)' /\ Growing(host)
         /\ UNCHANGED <<listener, at, view, asked, got, page>>
<1>. USE DEF Index, View!Down
<1>0. Matching \subseteq Nat /\ \A e \in Matching : Ledger(e) \in Nat
  BY EventsInLedgers
<1>1. CASE View(host)!Starts
  <2>1. /\ position = -1 /\ UNCHANGED <<listener, at, view, asked, got, page>>
        /\ View(host)!MayIndex
    BY <1>1 DEF View!Starts, View!viewVars
  <2>2. UNCHANGED <<stored, gaps>>
    BY <1>1 DEF View!Starts, View!Begin, View!storeVars
  <2>3. ASSUME state = NoState PROVE Index(host)' /\ Growing(host)
    <3>1. PICK n \in IF host = "api" THEN {1} ELSE 1 .. 2 :
            state' = [startLedger |-> n, cursor |-> End(n - 1), filters |-> "filters"]
      BY <1>1, <2>3, LedgersInView DEF View!Starts, View!Begin
    <3>2. position' = End(n - 1)
      BY <1>1, <2>3, <3>1 DEF View!Starts
    <3>3. /\ n \in Nat /\ n >= 1 /\ n - 1 \in Nat /\ (host = "api" => n = 1)
          /\ End(n - 1) \in Nat /\ Ledger(End(n - 1)) = n - 1
      BY <3>1, LedgersOrdered
    <3>4. state' \in Rows /\ state' # NoState
      BY <3>1, <3>3, NoStateAssumption DEF Rows
    <3>5. IndexTyped'
      BY <2>2, <3>2, <3>3, <3>4 DEF IndexTyped
    <3>6. stored = {} /\ listener' = listener
      BY <2>1, <2>3 DEF IndexIsHonest
    <3>7. IndexIsHonest'
      BY <1>0, <2>2, <3>1, <3>2, <3>3, <3>4, <3>6 DEF IndexIsHonest
    <3>8. ASSUME host = "api", NEW e \in Matching PROVE ~ (e <= state'.cursor)
      <4>1. Ledger(e) >= 1
        BY EventsInLedgers, LedgersAssumption
      <4>. QED  BY <1>0, <3>1, <3>3, <3>8, <4>1, LedgersOrdered
    <3>9. FixtureIsRead(host)'
      BY <2>1, <2>3, <3>1, <3>2, <3>3, <3>4, <3>8 DEF FixtureIsRead
    <3>. QED  BY <2>2, <2>3, <3>5, <3>7, <3>9 DEF Growing, Covered, CutOff
  <2>4. ASSUME state # NoState PROVE Index(host)' /\ Growing(host)
    <3>1. state' = state /\ position' = state.cursor
      BY <1>1, <2>4 DEF View!Starts, View!storeVars
    <3>2. state \in Rows
      BY <2>4 DEF IndexTyped
    <3>3. IndexTyped'
      BY <2>2, <3>1, <3>2 DEF IndexTyped, Rows
    <3>4. IndexIsHonest'
      BY <1>0, <2>2, <2>4, <3>1, <3>2 DEF IndexIsHonest, Covered, CutOff, Rows
    <3>5. FixtureIsRead(host)'
      BY <2>1, <2>2, <2>4, <3>1 DEF FixtureIsRead
    <3>. QED  BY <2>2, <2>4, <3>1, <3>3, <3>4, <3>5 DEF Growing, Covered, CutOff
  <2>. QED  BY <2>1, <2>3, <2>4
<1>2. CASE View(host)!Indexes
  <2>1. /\ position # -1 /\ UNCHANGED <<listener, at, view, asked, got, page>>
        /\ host = "serve" \/ listener = "building"
    BY <1>2 DEF View!Indexes, View!viewVars, View!MayIndex
  <2>2. PICK from \in View(host)!PageStarts, cursor \in View(host)!PageEnds :
          /\ from < cursor
          /\ stored' = stored \cup {e \in Matching : from < e /\ e <= cursor}
          /\ state' = [state EXCEPT !.cursor = cursor]
          /\ gaps' = gaps /\ position' = cursor
    BY <1>2 DEF View!Indexes, View!CommitPage
  <2>3. /\ state # NoState /\ state \in Rows /\ position \in Nat
        /\ state.startLedger \in Nat /\ state.startLedger >= 1
        /\ position >= End(state.startLedger - 1)
    BY <2>1 DEF IndexTyped, IndexIsHonest, Rows
  <2>a. cursor \in Nat /\ (cursor \in Matching \/ \E n \in Nat : cursor = End(n))
    BY <1>0, <2>2, LedgersInView, LedgersOrdered, LedgersAssumption DEF View!PageEnds
  <2>b. /\ from \in Nat /\ position <= from
        /\ from = position \/ (host = "serve" /\ from = End(Ledger(position)))
    <3>1. CASE from = position
      BY <2>3, <3>1
    <3>2. CASE host = "serve" /\ from = End(Ledger(position))
      <4>1. Ledger(position) \in Nat
        BY <2>3, LedgersOrdered
      <4>. QED  BY <2>3, <3>2, <4>1, LedgersOrdered
    <3>. QED  BY <2>2, <3>1, <3>2, LedgersInView DEF View!PageStarts
  <2>4. /\ state' \in Rows /\ state' # NoState
        /\ state'.cursor = cursor /\ state'.startLedger = state.startLedger
    BY <2>2, <2>3, <2>a, NoStateAssumption DEF Rows
  <2>5. IndexTyped'
    BY <2>2, <2>4, <2>a DEF IndexTyped
  <2>6. \A e \in Matching : Covered(e) => Covered(e)'
    BY <2>2 DEF Covered, CutOff
  <2>7. ASSUME NEW e \in Matching, Ledger(e) >= state.startLedger, Ledger(e) <= Ledger(cursor)
        PROVE  Covered(e)'
    <3>1. CASE Ledger(e) <= Ledger(position)
      BY <2>1, <2>3, <2>6, <2>7, <3>1 DEF IndexIsHonest
    <3>2. CASE Ledger(e) > Ledger(position)
      <4>1. from < e
        <5>1. Ledger(position) \in Nat /\ Ledger(e) \in Nat /\ e \in Nat
          BY <1>0, <2>3, LedgersOrdered
        <5>2. ~ (e <= End(Ledger(position)))
          BY <3>2, <5>1, LedgersOrdered
        <5>3. ~ (e <= position)
          BY <2>3, <3>2, <5>1, LedgersOrdered
        <5>4. End(Ledger(position)) \in Nat
          BY <5>1, LedgersOrdered
        <5>. QED  BY <2>3, <2>b, <5>1, <5>2, <5>3, <5>4
      <4>2. CASE e <= cursor
        BY <2>2, <4>1, <4>2 DEF Covered
      <4>3. CASE ~ (e <= cursor)
        <5>1. cursor \in Matching
          <6>. SUFFICES ASSUME NEW n \in Nat, cursor = End(n) PROVE FALSE
            BY <2>a
          <6>1. Ledger(e) <= n
            BY <2>7, LedgersOrdered
          <6>. QED  BY <1>0, <4>3, <6>1, LedgersOrdered
        <5>2. cursor \in stored'
          BY <2>2, <2>a, <5>1
        <5>3. cursor < e /\ Ledger(cursor) = Ledger(e)
          <6>1. cursor < e
            BY <1>0, <2>a, <4>3
          <6>2. Ledger(cursor) <= Ledger(e) /\ Ledger(cursor) \in Nat /\ Ledger(e) \in Nat
            BY <1>0, <2>a, <6>1, LedgersOrdered
          <6>. QED  BY <2>7, <6>1, <6>2
        <5>. QED  BY <5>2, <5>3 DEF Covered, CutOff
      <4>. QED  BY <4>2, <4>3
    <3>3. Ledger(e) \in Nat /\ Ledger(position) \in Nat
      BY <1>0, <2>3, LedgersOrdered
    <3>. QED  BY <3>1, <3>2, <3>3
  <2>8. IndexIsHonest'
    <3>1. state.startLedger - 1 \in Nat
      BY <2>3
    <3>2. /\ End(state.startLedger - 1) \in Nat /\ End(state.startLedger - 1) < cursor
      BY <2>2, <2>3, <2>a, <2>b, <3>1, LedgersOrdered
    <3>3. Ledger(cursor) \in Nat /\ Ledger(cursor) >= state.startLedger
      <4>1. Ledger(cursor) \in Nat /\ ~ (Ledger(cursor) <= state.startLedger - 1)
        BY <2>a, <3>1, <3>2, LedgersOrdered
      <4>. QED  BY <2>3, <4>1
    <3>. QED  BY <2>2, <2>3, <2>4, <2>7, <2>a, <3>2, <3>3 DEF IndexIsHonest
  <2>9. FixtureIsRead(host)'
    <3>. SUFFICES ASSUME host = "api" PROVE FixtureIsRead(host)'
      BY DEF FixtureIsRead
    <3>1. from = position /\ position = state.cursor
      BY <2>1, <2>b DEF FixtureIsRead
    <3>2. \A e \in Matching : e <= cursor => e \in stored'
      BY <1>0, <2>2, <2>3, <3>1 DEF FixtureIsRead
    <3>. QED  BY <2>1, <2>2, <2>3, <2>4, <3>2 DEF FixtureIsRead
  <2>. QED  BY <2>1, <2>2, <2>4, <2>5, <2>6, <2>8, <2>9 DEF Growing
<1>3. CASE View(host)!SkipsHole
  <2>1. /\ position # -1 /\ UNCHANGED <<listener, at, view, asked, got, page>>
        /\ host = "serve"
    BY <1>3 DEF View!SkipsHole, View!viewVars
  <2>2. PICK n \in Ledger(position) + 1 .. MaxLedger :
          /\ View(host)!RecordGap([fromLedger |-> Ledger(position) + 1, toLedger |-> n])
          /\ position' = End(n)
    BY <1>3, LedgersInView DEF View!SkipsHole
  <2>. DEFINE gap == [fromLedger |-> Ledger(position) + 1, toLedger |-> n]
  <2>3. /\ state # NoState /\ state \in Rows /\ position \in Nat
        /\ state.startLedger \in Nat /\ state.startLedger >= 1
        /\ position >= End(state.startLedger - 1)
    BY <2>1 DEF IndexTyped, IndexIsHonest, Rows
  <2>a. /\ Ledger(position) \in Nat /\ n \in Nat /\ Ledger(position) < n
        /\ End(n) \in Nat /\ Ledger(End(n)) = n /\ position <= End(n)
    <3>1. Ledger(position) \in Nat
      BY <2>3, LedgersOrdered
    <3>2. n \in Nat /\ Ledger(position) < n
      BY <2>2, <3>1, LedgersAssumption
    <3>. QED  BY <2>3, <3>1, <3>2, LedgersOrdered
  <2>4. gap \in Gaps
    BY <2>2, <2>a, LedgersAssumption DEF Gaps
  <2>5. /\ gaps' \subseteq Gaps
        /\ \A e \in Nat : /\ InGaps(e, gaps) => InGaps(e, gaps')
                          /\ e \in gap.fromLedger .. gap.toLedger => InGaps(e, gaps')
    BY <2>2, <2>4, GapsGrow DEF IndexTyped
  <2>6. UNCHANGED <<state, stored>>
    BY <2>2 DEF View!RecordGap
  <2>7. \A e \in Matching :
          Covered(e) \/ (Ledger(e) > Ledger(position) /\ Ledger(e) <= n) => Covered(e)'
    <3>. SUFFICES ASSUME NEW e \in Matching,
                         Covered(e) \/ (Ledger(e) > Ledger(position) /\ Ledger(e) <= n)
                  PROVE  Covered(e)'
      OBVIOUS
    <3>0. Ledger(e) \in Nat
      BY <1>0
    <3>1. Ledger(e) > Ledger(position) /\ Ledger(e) <= n =>
            Ledger(e) \in gap.fromLedger .. gap.toLedger
      BY <2>a, <3>0
    <3>. HIDE DEF gap
    <3>. QED  BY <2>5, <2>6, <3>0, <3>1 DEF Covered, CutOff
  <2>8. IndexTyped'
    BY <2>2, <2>5, <2>6, <2>a DEF IndexTyped
  <2>9. IndexIsHonest'
    <3>1. ASSUME NEW e \in Matching, Ledger(e) >= state.startLedger,
                 Ledger(e) <= Ledger(state.cursor) \/ Ledger(e) <= n
          PROVE  Covered(e)'
      <4>0. Ledger(e) \in Nat
        BY <1>0
      <4>1. CASE Ledger(e) <= Ledger(state.cursor) \/ Ledger(e) <= Ledger(position)
        BY <2>1, <2>3, <2>7, <3>1, <4>1 DEF IndexIsHonest
      <4>2. CASE Ledger(e) > Ledger(position) /\ Ledger(e) <= n
        BY <2>7, <4>2
      <4>. QED  BY <2>a, <3>1, <4>0, <4>1, <4>2
    <3>2. End(n) >= End(state.startLedger - 1)
      <4>1. state.startLedger - 1 \in Nat
        BY <2>3
      <4>2. End(state.startLedger - 1) \in Nat
        BY <4>1, LedgersOrdered
      <4>. QED  BY <2>3, <2>a, <4>2
    <3>. QED  BY <2>2, <2>3, <2>6, <2>a, <3>1, <3>2 DEF IndexIsHonest
  <2>10. FixtureIsRead(host)'
    BY <2>1 DEF FixtureIsRead
  <2>. QED  BY <2>1, <2>6, <2>7, <2>8, <2>9, <2>10 DEF Growing
<1>4. CASE View(host)!Dies
  <2>1. position' = -1 /\ UNCHANGED <<state, stored, gaps, listener, at, view, asked, got, page>>
    BY <1>4 DEF View!Dies, View!storeVars, View!viewVars
  <2>. QED  BY <1>0, <2>1 DEF IndexTyped, IndexIsHonest, FixtureIsRead, Growing, Covered, CutOff,
                              Rows
<1>. QED  BY <1>1, <1>2, <1>3, <1>4 DEF View!Indexer

\* The listener's own steps, and an instance that is recycled.
LEMMA ListenerKeeps ==
  ASSUME NEW host \in Hosts, Index(host),
         View(host)!handler \/ View(host)!Built \/ View(host)!Recycled
  PROVE  /\ Index(host)' /\ Growing(host)
         /\ \/ View(host)!Recycled
            \/ UNCHANGED <<at, view, asked, got, page>>
<1>. USE DEF Index, View!Down
<1>1. CASE View(host)!handler
  BY <1>1 DEF View!handler, View!storeVars, IndexTyped, IndexIsHonest, FixtureIsRead, Growing,
              Covered, CutOff
<1>2. CASE View(host)!Built
  <2>1. /\ UNCHANGED <<state, stored, gaps, at, view, asked, got, page>>
        /\ listener = "building"
        /\ \/ /\ listener' = "ready" /\ position' = position /\ position # -1
              /\ Ledger(position) = MaxLedger /\ \A e \in Matching : e <= position
           \/ listener' = "failed" /\ position' = -1
    BY <1>2, LedgersInView DEF View!Built, View!CaughtUp, View!storeVars
  <2>2. IndexTyped'
    BY <2>1 DEF IndexTyped
  <2>3. IndexIsHonest'
    BY <2>1 DEF IndexIsHonest, Covered, CutOff
  <2>4. FixtureIsRead(host)'
    BY <2>1 DEF FixtureIsRead
  <2>. QED  BY <2>1, <2>2, <2>3, <2>4 DEF Growing, Covered, CutOff
<1>3. CASE View(host)!Recycled
  BY <1>3 DEF View!Recycled, View!StoreInit, IndexTyped, IndexIsHonest, FixtureIsRead, Growing
<1>. QED  BY <1>1, <1>2, <1>3 DEF View!handler, View!Built, View!storeVars

\* A request reads the database and leaves it alone.
LEMMA RequestsRead ==
  ASSUME NEW host \in Hosts, Index(host), View(host)!Requests \/ View(host)!Queries
  PROVE  Index(host)' /\ UNCHANGED <<state, stored, gaps, position, listener>>
<1>1. /\ UNCHANGED <<state, stored, gaps, position, listener>>
      /\ at = "idle" => listener = "ready"
  BY DEF View!Requests, View!Queries, View!home, View!unknownPath, View!badHash, View!trace,
         View!Ask, View!getTransaction, View!eventsForTransaction, View!stats, View!readState,
         View!gapsOf, View!recentTransactions, View!Returns, View!Goes, View!storeVars
<1>. QED  BY <1>1 DEF Index, IndexTyped, IndexIsHonest, FixtureIsRead, Covered,
                        CutOff

-----------------------------------------------------------------------------
(***************************************************************************)
(* A request.  What its answers claim so far is covered when it is         *)
(* claimed, and covered or shown as a gap once the gaps have been read.    *)
(***************************************************************************)

Claims(found, e) ==
  found.start # 0 /\ found.through # 0 /\ Ledger(e) \in found.start .. found.through

Shows(found, e) == e \in stored \/ InGaps(Ledger(e), found.gaps) \/ CutOff(e)

Found == [events |-> got.events, first |-> got.first, last |-> got.last,
          inIndex |-> got.inIndex, start |-> got.start, through |-> got.through,
          gaps |-> got.gaps]

AskIsHonest(host) ==
  /\ got = Found
  /\ at = "ingest" /\ stored = {} => got.first = 0 /\ got.last = 0
  /\ at = "gaps" => \A e \in Matching : Claims(got, e) => Covered(e)
  /\ at = "recent" => \A e \in Matching : Claims(got, e) => Shows(got, e)
  /\ host = "api" /\ at \in {"gaps", "recent"} /\ got.start # 0 /\ got.through # 0 =>
       got.start = 1 /\ got.through = MaxLedger /\ Matching \subseteq stored

PageIsHonest(host) == View(host)!PagesAreHonest

ViewKept(host) == Index(host) /\ AskIsHonest(host) /\ PageIsHonest(host)

\* A page made of what a request has found at the end is as honest as that.
LEMMA ShownIsHonest ==
  ASSUME NEW host \in Hosts, NEW found, NEW suggested,
         \A e \in Matching : Claims(found, e) => Shows(found, e),
         host = "api" /\ found.start # 0 /\ found.through # 0 =>
           found.start = 1 /\ found.through = MaxLedger /\ Matching \subseteq stored,
         page' = View(host)!Shown(found, suggested), stored' = stored
  PROVE  PageIsHonest(host)'
<1>1. /\ page'.banner.start = found.start /\ page'.banner.through = found.through
      /\ page'.banner.gaps = found.gaps
  BY DEF View!Shown, View!rangeBanner
<1>. QED  BY <1>1, LedgersInView DEF PageIsHonest, View!PagesAreHonest, View!HasRange,
     View!InRange, View!ShownAsGap, View!CutOff, View!NoLedger, Claims, Shows, CutOff, InGaps

\* What a request has found, and the page last sent, stay true while the
\* indexer goes on and other requests are not there.
LEMMA GrowingKeeps ==
  ASSUME NEW host \in Hosts, ViewKept(host), Growing(host)
         /\ (View(host)!Recycled \/ UNCHANGED <<at, view, asked, got, page>>)
  PROVE  AskIsHonest(host)' /\ PageIsHonest(host)'
<1>1. CASE View(host)!Recycled
  BY <1>1 DEF View!Recycled, View!Nothing, View!NoLedger, View!NoPage, AskIsHonest, Found,
     PageIsHonest, View!PagesAreHonest, View!HasRange, View!HasBanner
<1>2. CASE UNCHANGED <<at, view, asked, got, page>>
  <2>. SUFFICES ASSUME ~View(host)!Recycled PROVE AskIsHonest(host)' /\ PageIsHonest(host)'
    BY <1>1
  <2>1. stored \subseteq stored' /\ \A n \in Matching : Covered(n) => Covered(n)'
    BY DEF Growing
  <2>2. AskIsHonest(host)'
    BY <1>2, <2>1 DEF AskIsHonest, Found, ViewKept, Claims, Shows, CutOff, InGaps
  <2>3. PageIsHonest(host)'
    BY <1>2, <2>1 DEF ViewKept, PageIsHonest, View!PagesAreHonest, View!HasRange,
       View!HasBanner, View!InRange, View!ShownAsGap, View!CutOff
  <2>. QED  BY <2>2, <2>3
<1>. QED  BY <1>1, <1>2

LEMMA RequestsKeep ==
  ASSUME NEW host \in Hosts, ViewKept(host), View(host)!Requests
  PROVE  AskIsHonest(host)' /\ PageIsHonest(host)'
<1>1. /\ at' \in {"stats", "source"} /\ got' = View(host)!Nothing /\ page' = View(host)!NoPage
  BY DEF View!Requests, View!home, View!unknownPath, View!badHash, View!trace, View!Ask,
         View!First, View!Order
<1>. QED  BY <1>1 DEF AskIsHonest, Found, View!Nothing, View!NoLedger, View!NoPage,
     PageIsHonest, View!PagesAreHonest, View!HasRange, View!HasBanner

LEMMA QueriesKeep ==
  ASSUME NEW host \in Hosts, ViewKept(host), View(host)!Queries
  PROVE  AskIsHonest(host)' /\ PageIsHonest(host)'
<1>. USE DEF ViewKept
<1>0. UNCHANGED <<state, stored, gaps, position, listener>>
  BY RequestsRead
<1>a. /\ View(host)!Order[1] = "stats" /\ View(host)!Order[2] = "ingest"
      /\ View(host)!Order[3] = "gaps" /\ View(host)!First = "stats"
  BY DEF View!Order, View!First
<1>b. page' = page => PageIsHonest(host)'
  BY <1>0 DEF PageIsHonest, View!PagesAreHonest, View!HasRange, View!HasBanner, View!InRange,
     View!ShownAsGap, View!CutOff
<1>1. CASE View(host)!getTransaction
  <2>1. /\ got' = got /\ at' \in {"idle", "stats", "events"}
        /\ page' = page \/ page' = View(host)!ErrorPage
    BY <1>1, <1>a DEF View!getTransaction, View!Goes
  <2>2. AskIsHonest(host)'
    BY <2>1 DEF AskIsHonest, Found
  <2>3. PageIsHonest(host)'
    BY <1>b, <2>1 DEF View!ErrorPage, PageIsHonest, View!PagesAreHonest, View!HasRange,
       View!HasBanner
  <2>. QED  BY <2>2, <2>3
<1>2. CASE View(host)!eventsForTransaction
  <2>1. /\ got' = [got EXCEPT !.inIndex = asked \in stored] /\ at' \in {"idle", "stats"}
        /\ page' = page \/ page' = View(host)!ErrorPage
    BY <1>2, <1>a DEF View!eventsForTransaction, View!Goes
  <2>2. AskIsHonest(host)'
    BY <2>1 DEF AskIsHonest, Found
  <2>3. PageIsHonest(host)'
    BY <1>b, <2>1 DEF View!ErrorPage, PageIsHonest, View!PagesAreHonest, View!HasRange,
       View!HasBanner
  <2>. QED  BY <2>2, <2>3
<1>3. CASE View(host)!stats
  <2>1. /\ at' = "ingest" /\ page' = page
        /\ \E events, first, last :
             got' = [got EXCEPT !.events = events,
                                !.first = IF stored = {} THEN 0 ELSE first,
                                !.last = IF stored = {} THEN 0 ELSE last]
    <3>. DEFINE events == View(host)!Cardinality(stored)
                first == View(host)!LedgerOf(View(host)!Min(stored))
                last == View(host)!LedgerOf(View(host)!Max(stored))
                found == [got EXCEPT !.events = events,
                                     !.first = IF stored = {} THEN 0 ELSE first,
                                     !.last = IF stored = {} THEN 0 ELSE last]
    <3>1. View(host)!Returns("stats", found)
      BY <1>3 DEF View!stats, View!NoLedger
    <3>2. \E e, f, l : found = [got EXCEPT !.events = e,
                                          !.first = IF stored = {} THEN 0 ELSE f,
                                          !.last = IF stored = {} THEN 0 ELSE l]
      OBVIOUS
    <3>. HIDE DEF found
    <3>3. at' = "ingest" /\ page' = page /\ got' = found
      BY <1>a, <3>1 DEF View!Returns, View!Goes
    <3>. QED  BY <3>2, <3>3
  <2>2. stored = {} => got'.first = 0 /\ got'.last = 0
    BY <2>1 DEF AskIsHonest, Found
  <2>3. got' = Found'
    BY <2>1 DEF AskIsHonest, Found
  <2>4. AskIsHonest(host)'
    BY <1>0, <2>1, <2>2, <2>3 DEF AskIsHonest
  <2>. QED  BY <1>b, <2>1, <2>4
<1>4. CASE View(host)!readState
  <2>. DEFINE start == IF state = NoState THEN got.first ELSE state.startLedger
              through == IF state = NoState \/ Ledger(state.cursor) < state.startLedger
                         THEN got.last ELSE Ledger(state.cursor)
  <2>1. /\ at = "ingest" /\ at' = "gaps" /\ page' = page
        /\ got' = [got EXCEPT !.start = start, !.through = through]
    <3>1. View(host)!LedgerOf(state.cursor) = Ledger(state.cursor)
      BY LedgersInView
    <3>. QED  BY <1>4, <1>a, <3>1 DEF View!readState, View!NoCursorYet, View!Returns, View!Goes
  <2>2. got' = Found' /\ got'.start = start /\ got'.through = through
    BY <2>1 DEF AskIsHonest, Found
  <2>3. state = NoState \/ Ledger(state.cursor) < state.startLedger => stored = {}
    BY DEF Index, IndexIsHonest
  <2>4. start # 0 /\ through # 0 =>
          /\ state # NoState /\ Ledger(state.cursor) >= state.startLedger
          /\ start = state.startLedger /\ through = Ledger(state.cursor)
          /\ state.startLedger \in Nat /\ Ledger(state.cursor) \in Nat
    <3>1. state # NoState => state.startLedger \in Nat /\ Ledger(state.cursor) \in Nat
      BY LedgersOrdered DEF Index, IndexTyped, Rows
    <3>. QED  BY <2>1, <2>3, <3>1 DEF AskIsHonest
  <2>. HIDE DEF start, through
  <2>5. \A e \in Matching : Claims(got, e)' => Covered(e)'
    <3>. SUFFICES ASSUME NEW e \in Matching, Claims(got', e) PROVE Covered(e)'
      BY DEF Claims
    <3>1. start # 0 /\ through # 0 /\ Ledger(e) \in start .. through
      BY <2>2 DEF Claims
    <3>2. /\ Ledger(e) \in Nat /\ Ledger(e) >= state.startLedger
          /\ Ledger(e) <= Ledger(state.cursor) /\ state # NoState
      BY <2>4, <3>1, EventsInLedgers
    <3>3. Covered(e)
      BY <3>2 DEF Index, IndexIsHonest
    <3>. QED  BY <1>0, <3>3 DEF Covered, CutOff
  <2>6. host = "api" /\ start # 0 /\ through # 0 =>
          start = 1 /\ through = MaxLedger /\ Matching \subseteq stored
    BY <2>1, <2>4 DEF Index, FixtureIsRead
  <2>7. AskIsHonest(host)'
    BY <1>0, <2>1, <2>2, <2>5, <2>6 DEF AskIsHonest
  <2>. QED  BY <1>b, <2>1, <2>7
<1>5. CASE View(host)!gapsOf
  <2>. DEFINE found == [got EXCEPT !.gaps = gaps]
  <2>1. /\ at = "gaps"
        /\ \/ at' = "recent" /\ got' = found /\ page' = page
           \/ at' = "idle" /\ got' = got /\ page' = View(host)!Shown(found, {})
    BY <1>5, <1>a DEF View!gapsOf, View!Returns, View!Goes
  <2>2. /\ found = [Found EXCEPT !.gaps = gaps]
        /\ found.start = got.start /\ found.through = got.through /\ found.gaps = gaps
    BY DEF AskIsHonest, Found
  <2>3. \A e \in Matching : Claims(found, e) => Shows(found, e)
    BY <2>1, <2>2 DEF AskIsHonest, Claims, Shows, Covered
  <2>4. host = "api" /\ found.start # 0 /\ found.through # 0 =>
          found.start = 1 /\ found.through = MaxLedger /\ Matching \subseteq stored
    BY <2>1, <2>2 DEF AskIsHonest
  <2>5. got' = Found'
    BY <2>1, <2>2 DEF AskIsHonest, Found
  <2>. HIDE DEF found
  <2>6. AskIsHonest(host)'
    <3>1. CASE at' = "recent" /\ got' = found
      BY <1>0, <2>3, <2>4, <2>5, <3>1 DEF AskIsHonest, Claims, Shows, CutOff, InGaps
    <3>2. CASE at' = "idle"
      BY <2>5, <3>2 DEF AskIsHonest
    <3>. QED  BY <2>1, <3>1, <3>2
  <2>7. PageIsHonest(host)'
    BY <1>0, <1>b, <2>1, <2>3, <2>4, ShownIsHonest
  <2>. QED  BY <2>6, <2>7
<1>6. CASE View(host)!recentTransactions
  <2>1. /\ at = "recent" /\ at' = "idle" /\ got' = got
        /\ page' = View(host)!Shown(got, View(host)!Newest)
    BY <1>6 DEF View!recentTransactions, View!Goes
  <2>2. PageIsHonest(host)'
    BY <1>0, <2>1, ShownIsHonest DEF AskIsHonest
  <2>. QED  BY <2>1, <2>2 DEF AskIsHonest, Found
<1>. QED  BY <1>1, <1>2, <1>3, <1>4, <1>5, <1>6 DEF View!Queries

LEMMA ViewKeeps ==
  ASSUME NEW host \in Hosts, ViewKept(host), View(host)!Next
  PROVE  ViewKept(host)'
<1>1. CASE View(host)!Indexer
  BY <1>1, IndexerKeeps, GrowingKeeps DEF ViewKept
<1>2. CASE View(host)!handler \/ View(host)!Built \/ View(host)!Recycled
  BY <1>2, ListenerKeeps, GrowingKeeps DEF ViewKept
<1>3. CASE View(host)!Requests
  BY <1>3, RequestsRead, RequestsKeep DEF ViewKept
<1>4. CASE View(host)!Queries
  BY <1>4, RequestsRead, QueriesKeep DEF ViewKept
<1>. QED  BY <1>1, <1>2, <1>3, <1>4 DEF View!Next

LEMMA ViewRests ==
  ASSUME NEW host \in Hosts, ViewKept(host), UNCHANGED viewVars
  PROVE  ViewKept(host)'
<1>1. Index(host)'
  BY DEF ViewKept, viewVars, Index, IndexTyped, IndexIsHonest, FixtureIsRead, Covered,
         CutOff
<1>2. AskIsHonest(host)'
  BY DEF ViewKept, viewVars, AskIsHonest, Found, Covered, Claims, Shows, CutOff
<1>3. PageIsHonest(host)'
  BY DEF ViewKept, viewVars, PageIsHonest, View!PagesAreHonest, View!HasRange, View!HasBanner,
         View!InRange, View!ShownAsGap, View!CutOff
<1>. QED  BY <1>1, <1>2, <1>3 DEF ViewKept

ViewIsHonest ==
  /\ part.name = "api" => ViewKept("api")
  /\ part.name # "api" => ViewKept("serve")

LEMMA ViewIsHonestInitially == Init => ViewIsHonest
<1>. SUFFICES ASSUME NEW host \in Hosts, View(host)!Init PROVE ViewKept(host)
  BY DEF Init, ViewIsHonest, Hosts
<1>1. Index(host)
  BY DEF View!Init, View!StoreInit, View!Down, Index, IndexTyped, IndexIsHonest, FixtureIsRead,
         Hosts
<1>2. AskIsHonest(host)
  BY DEF View!Init, View!Nothing, View!NoLedger, AskIsHonest, Found
<1>3. PageIsHonest(host)
  BY DEF View!Init, View!NoPage, PageIsHonest, View!PagesAreHonest, View!HasRange,
         View!HasBanner
<1>. QED  BY <1>1, <1>2, <1>3 DEF ViewKept

\* No page of the proof view presents a ledger that was never read as one without
\* events, whatever the indexer commits between its queries and wherever its pages
\* are cut; and a page of api/index.ts is over the whole fixture (page.ts:76-103,
\* server.ts:47-58).
THEOREM PagesAlwaysHonest == Spec => []PagesAreHonest
<1>1. ViewIsHonest => PagesAreHonest
  BY DEF ViewIsHonest, ViewKept, PageIsHonest, PagesAreHonest
<1>2. ViewIsHonest /\ [Next]_vars => ViewIsHonest'
  BY ViewMoves, ViewKeeps, ViewRests DEF ViewIsHonest, Hosts
<1>. QED  BY <1>1, <1>2, ViewIsHonestInitially, PTL DEF Spec
-----------------------------------------------------------------------------
(***************************************************************************)
(* Lists made a step at a time: what the decoder and a reader of its trace *)
(* do with each list is settled by its beginning and its last member.      *)
(***************************************************************************)

\* Two lists that begin alike and go on alike are alike.
Alike(f, g, N) ==
  f[0] = g[0] /\ \A n \in 1 .. N : f[n - 1] = g[n - 1] => f[n] = g[n]

LEMMA EndAlike ==
  ASSUME NEW N \in Nat, NEW f, NEW g, Alike(f, g, N)
  PROVE  f[N] = g[N]
<1>. DEFINE S == {n \in 0 .. N : f[n] # g[n]}
<1>. SUFFICES ASSUME S # {} PROVE FALSE
  <2>1. N \in 0 .. N
    OBVIOUS
  <2>. QED  BY <2>1
<1>1. PICK m \in S : \A n \in S : m <= n
  <2>1. S \in SUBSET Nat
    OBVIOUS
  <2>. HIDE DEF S
  <2>. QED  BY <2>1, MinIsLeast
<1>2. m \in 1 .. N
  BY <1>1 DEF Alike
<1>3. m - 1 \in 0 .. N /\ m - 1 \notin S
  BY <1>1, <1>2
<1>. QED  BY <1>1, <1>2, <1>3 DEF Alike

\* f is what becomes of base, a step at a time, each a function of its own.
Folds(f, A, N, base, op) ==
  /\ f \in [0 .. N -> A] /\ f[0] = base
  /\ \A n \in 1 .. N : f[n] = op[n][f[n - 1]]

\* What can go on at each step can go on to the end.
LEMMA Folding ==
  ASSUME NEW A, NEW N \in Nat, NEW base \in A, NEW op \in [1 .. N -> [A -> A]]
  PROVE  \E f : Folds(f, A, N, base, op)
<1>. DEFINE Folded(m) == \E f : Folds(f, A, m, base, op)
            S == {m \in 0 .. N : ~ Folded(m)}
<1>0. N \in 0 .. N
  OBVIOUS
<1>. SUFFICES ASSUME S # {} PROVE FALSE
  <2>1. N \notin S => Folded(N)
    BY <1>0
  <2>. QED  BY <2>1
<1>1. PICK m \in S : \A n \in S : m <= n
  <2>1. S \in SUBSET Nat
    OBVIOUS
  <2>. HIDE DEF S
  <2>. QED  BY <2>1, MinIsLeast
<1>2. m # 0
  <2>1. Folds([n \in 0 .. 0 |-> base], A, 0, base, op)
    BY DEF Folds
  <2>. QED  BY <1>1, <2>1
<1>3. m \in 1 .. N /\ m - 1 \in 0 .. N
  BY <1>1, <1>2
<1>4. PICK f : Folds(f, A, m - 1, base, op)
  <2>1. m - 1 \notin S
    BY <1>1, <1>3
  <2>. QED  BY <1>3, <2>1
<1>5. PICK g : g = [n \in 0 .. m |-> IF n = m THEN op[m][f[m - 1]] ELSE f[n]]
  OBVIOUS
<1>6. op[m] \in [A -> A] /\ f[m - 1] \in A
  BY <1>3, <1>4 DEF Folds
<1>7. g \in [0 .. m -> A]
  <2>1. \A n \in 0 .. m : n # m => n \in 0 .. m - 1
    BY <1>3
  <2>. QED  BY <1>4, <1>5, <1>6, <2>1 DEF Folds
<1>8. g[0] = base
  BY <1>3, <1>4, <1>5 DEF Folds
<1>9. ASSUME NEW n \in 1 .. m PROVE g[n] = op[n][g[n - 1]]
  <2>1. n - 1 \in 0 .. m /\ n - 1 # m /\ n - 1 \in 0 .. m - 1 /\ n \in 0 .. m
    BY <1>3
  <2>2. g[n - 1] = f[n - 1]
    BY <1>5, <2>1
  <2>3. CASE n = m
    BY <1>5, <2>1, <2>2, <2>3
  <2>4. CASE n # m
    <3>1. n \in 1 .. m - 1
      BY <1>3, <2>4
    <3>. QED  BY <1>4, <1>5, <2>1, <2>2, <2>4, <3>1 DEF Folds
  <2>. QED  BY <2>3, <2>4
<1>10. Folds(g, A, m, base, op)
  BY <1>7, <1>8, <1>9 DEF Folds
<1>. QED  BY <1>1, <1>10

-----------------------------------------------------------------------------
(***************************************************************************)
(* The decoder's lists and the reader's, one list at a time.               *)
(***************************************************************************)

Values == Meta!Contents \cup {Meta!NoEntry}
Keys == {Meta!key(e) : e \in Entries}
ChangeKinds == {"state", "created", "updated", "removed", "restored"}
Changes == [kind : ChangeKinds, entry : Entries, is : Values]
DiffRows == [kind : ChangeKinds, entry : Entries, before : Values, after : Values,
             changed : BOOLEAN, identical : BOOLEAN]
Pairings == [pending : [Keys -> Values], rows : Seq(DiffRows)]

LEMMA PairOneTyped ==
  ASSUME NEW paired \in Pairings, NEW change \in Changes
  PROVE  Meta!PairOne(paired, change) \in Pairings
<1>. DEFINE e == change.entry
            before == paired.pending[Meta!key(e)]
<1>1. e \in Entries /\ Meta!key(e) \in Keys /\ before \in Values /\ change.is \in Values
      /\ change.kind \in ChangeKinds /\ Meta!NoEntry \in Values
  BY DEF Changes, Pairings, Keys, Values
<1>2. \A kind \in ChangeKinds, x, y \in Values : Meta!Row(kind, e, x, y) \in DiffRows
  BY <1>1 DEF Meta!Row, Meta!diffFields, DiffRows
<1>3. \A r \in DiffRows : Append(paired.rows, r) \in Seq(DiffRows)
  BY DEF Pairings
<1>. QED  BY <1>1, <1>2, <1>3 DEF Meta!PairOne, Pairings

\* f is what the decoder holds after each of the changes.
Pairs(f, s) ==
  /\ f \in [0 .. Len(s) -> Pairings] /\ f[0] = Meta!Unpaired
  /\ \A n \in 1 .. Len(s) : f[n] = Meta!PairOne(f[n - 1], s[n])
  /\ Meta!Paired(s) = f[Len(s)]

LEMMA PairedIs ==
  ASSUME NEW s \in Seq(Changes)
  PROVE  \E f : Pairs(f, s)
<1>. DEFINE Body(f) == [n \in 0 .. Len(s) |->
                          IF n = 0 THEN Meta!Unpaired ELSE Meta!PairOne(f[n - 1], s[n])]
            chosen == CHOOSE f : f = Body(f)
            op == [n \in 1 .. Len(s) |-> [x \in Pairings |-> Meta!PairOne(x, s[n])]]
<1>0. Len(s) \in Nat /\ Len(s) \in 0 .. Len(s)
  OBVIOUS
<1>1. Meta!Unpaired \in Pairings
  BY DEF Meta!Unpaired, Pairings, Keys, Values
<1>2. op \in [1 .. Len(s) -> [Pairings -> Pairings]]
  <2>1. \A n \in 1 .. Len(s) : s[n] \in Changes
    OBVIOUS
  <2>. QED  BY <2>1, PairOneTyped
<1>3. PICK f : Folds(f, Pairings, Len(s), Meta!Unpaired, op)
  <2>. HIDE DEF op
  <2>. QED  BY <1>0, <1>1, <1>2, Folding
<1>4. \A n \in 1 .. Len(s) : f[n] = Meta!PairOne(f[n - 1], s[n]) /\ n - 1 \in 0 .. Len(s)
  <2>. SUFFICES ASSUME NEW n \in 1 .. Len(s)
                PROVE  f[n] = Meta!PairOne(f[n - 1], s[n]) /\ n - 1 \in 0 .. Len(s)
    OBVIOUS
  <2>1. n - 1 \in 0 .. Len(s) /\ f[n - 1] \in Pairings
    BY <1>3 DEF Folds
  <2>. QED  BY <1>3, <2>1 DEF Folds
<1>5. f = Body(f)
  BY <1>3, <1>4 DEF Folds
<1>6. chosen = Body(chosen)
  BY <1>5
<1>7. Meta!Paired(s) = chosen[Len(s)]
  BY DEF Meta!Paired
<1>. HIDE DEF chosen
<1>8. Alike(f, chosen, Len(s))
  BY <1>3, <1>4, <1>6 DEF Folds, Alike
<1>9. chosen[Len(s)] = f[Len(s)]
  BY <1>0, <1>8, EndAlike
<1>. QED  BY <1>3, <1>4, <1>7, <1>9 DEF Folds, Pairs

LEMMA PairedOn ==
  ASSUME NEW s \in Seq(Changes), NEW c \in Changes
  PROVE  /\ Meta!Paired(s) \in Pairings
         /\ Meta!Paired(Append(s, c)) = Meta!PairOne(Meta!Paired(s), c)
<1>1. PICK N \in Nat : N = Len(s)
  OBVIOUS
<1>2. /\ Append(s, c) \in Seq(Changes) /\ Len(Append(s, c)) = N + 1
      /\ Append(s, c)[N + 1] = c /\ \A n \in 1 .. N : Append(s, c)[n] = s[n]
  BY <1>1
<1>3. PICK f : Pairs(f, s)
  BY PairedIs
<1>4. PICK g : Pairs(g, Append(s, c))
  BY <1>2, PairedIs
<1>5. Alike(f, g, N)
  BY <1>1, <1>2, <1>3, <1>4 DEF Alike, Pairs
<1>6. f[N] = g[N]
  BY <1>5, EndAlike
<1>. QED  BY <1>1, <1>2, <1>3, <1>4, <1>6 DEF Pairs

LEMMA PairedNone ==
  Meta!Paired(<<>>) = Meta!Unpaired
<1>1. <<>> \in Seq(Changes) /\ Len(<<>>) = 0
  OBVIOUS
<1>2. PICK f : Pairs(f, <<>>)
  BY <1>1, PairedIs
<1>. QED  BY <1>1, <1>2 DEF Pairs

Kinds == {"setup", "operation", "teardown"}
Phases == [kind : Kinds, changes : Seq(Changes)]
Steps == [phase : Kinds, changes : Seq(DiffRows)]

LEMMA PushStepTyped ==
  ASSUME NEW steps \in Seq(Steps), NEW p \in Phases
  PROVE  /\ Meta!pairChanges(p.changes) \in Seq(DiffRows)
         /\ Meta!PushStep(steps, p) \in Seq(Steps)
<1>1. p.kind \in Kinds /\ p.changes \in Seq(Changes)
  BY DEF Phases
<1>2. Meta!pairChanges(p.changes) \in Seq(DiffRows)
  <2>1. PICK f : Pairs(f, p.changes)
    BY <1>1, PairedIs
  <2>2. Len(p.changes) \in 0 .. Len(p.changes)
    BY <1>1
  <2>. QED  BY <2>1, <2>2 DEF Pairs, Meta!pairChanges, Pairings
<1>3. \A changes \in Seq(DiffRows) :
        Append(steps, [phase |-> p.kind, changes |-> changes]) \in Seq(Steps)
  BY <1>1 DEF Steps
<1>. QED  BY <1>2, <1>3 DEF Meta!PushStep

\* f is the steps made of each of the phases.
Decodes(f, s) ==
  /\ f \in [0 .. Len(s) -> Seq(Steps)] /\ f[0] = <<>>
  /\ \A n \in 1 .. Len(s) : f[n] = Meta!PushStep(f[n - 1], s[n])
  /\ Meta!readSteps(s) = f[Len(s)]

LEMMA StepsIs ==
  ASSUME NEW s \in Seq(Phases)
  PROVE  \E f : Decodes(f, s)
<1>. DEFINE Body(f) == [n \in 0 .. Len(s) |->
                          IF n = 0 THEN <<>> ELSE Meta!PushStep(f[n - 1], s[n])]
            chosen == CHOOSE f : f = Body(f)
            op == [n \in 1 .. Len(s) |-> [x \in Seq(Steps) |-> Meta!PushStep(x, s[n])]]
<1>0. Len(s) \in Nat /\ Len(s) \in 0 .. Len(s)
  OBVIOUS
<1>1. <<>> \in Seq(Steps)
  OBVIOUS
<1>2. op \in [1 .. Len(s) -> [Seq(Steps) -> Seq(Steps)]]
  <2>1. \A n \in 1 .. Len(s) : s[n] \in Phases
    OBVIOUS
  <2>. QED  BY <2>1, PushStepTyped
<1>3. PICK f : Folds(f, Seq(Steps), Len(s), <<>>, op)
  <2>. HIDE DEF op
  <2>. QED  BY <1>0, <1>1, <1>2, Folding
<1>4. \A n \in 1 .. Len(s) : f[n] = Meta!PushStep(f[n - 1], s[n]) /\ n - 1 \in 0 .. Len(s)
  <2>. SUFFICES ASSUME NEW n \in 1 .. Len(s)
                PROVE  f[n] = Meta!PushStep(f[n - 1], s[n]) /\ n - 1 \in 0 .. Len(s)
    OBVIOUS
  <2>1. n - 1 \in 0 .. Len(s) /\ f[n - 1] \in Seq(Steps)
    BY <1>3 DEF Folds
  <2>. QED  BY <1>3, <2>1 DEF Folds
<1>5. f = Body(f)
  BY <1>3, <1>4 DEF Folds
<1>6. chosen = Body(chosen)
  BY <1>5
<1>7. Meta!readSteps(s) = chosen[Len(s)]
  BY DEF Meta!readSteps
<1>. HIDE DEF chosen
<1>8. Alike(f, chosen, Len(s))
  BY <1>3, <1>4, <1>6 DEF Folds, Alike
<1>9. chosen[Len(s)] = f[Len(s)]
  BY <1>0, <1>8, EndAlike
<1>. QED  BY <1>3, <1>4, <1>7, <1>9 DEF Folds, Decodes

LEMMA StepsOn ==
  ASSUME NEW s \in Seq(Phases), NEW p \in Phases
  PROVE  /\ Meta!readSteps(s) \in Seq(Steps)
         /\ Meta!readSteps(Append(s, p)) = Meta!PushStep(Meta!readSteps(s), p)
<1>1. PICK N \in Nat : N = Len(s)
  OBVIOUS
<1>2. /\ Append(s, p) \in Seq(Phases) /\ Len(Append(s, p)) = N + 1
      /\ Append(s, p)[N + 1] = p /\ \A n \in 1 .. N : Append(s, p)[n] = s[n]
  BY <1>1
<1>3. PICK f : Decodes(f, s)
  BY StepsIs
<1>4. PICK g : Decodes(g, Append(s, p))
  BY <1>2, StepsIs
<1>5. Alike(f, g, N)
  BY <1>1, <1>2, <1>3, <1>4 DEF Alike, Decodes
<1>6. f[N] = g[N]
  BY <1>5, EndAlike
<1>. QED  BY <1>1, <1>2, <1>3, <1>4, <1>6 DEF Decodes

LEMMA StepsNone ==
  Meta!readSteps(<<>>) = <<>>
<1>1. <<>> \in Seq(Phases) /\ Len(<<>>) = 0
  OBVIOUS
<1>2. PICK f : Decodes(f, <<>>)
  BY <1>1, StepsIs
<1>. QED  BY <1>1, <1>2 DEF Decodes

Tolds == [now : [Entries -> Values], truth : [Entries -> BOOLEAN]]

LEMMA FollowsTyped ==
  ASSUME NEW told \in Tolds, NEW row \in DiffRows
  PROVE  Meta!Follows(told, row) \in Tolds
<1>1. Meta!Tells(row, told.now) \in BOOLEAN
  BY DEF Meta!Tells
<1>2. row.entry \in Entries /\ row.after \in Values
  BY DEF DiffRows
<1>. QED  BY <1>1, <1>2 DEF Meta!Follows, Tolds

\* f is what a reader who was told knows after each of the rows.
ReadsRows(f, s, told) ==
  /\ f \in [0 .. Len(s) -> Tolds] /\ f[0] = told
  /\ \A n \in 1 .. Len(s) : f[n] = Meta!Follows(f[n - 1], s[n])
  /\ Meta!ReadRows(told, s) = f[Len(s)]

LEMMA ReadRowsIs ==
  ASSUME NEW s \in Seq(DiffRows), NEW told \in Tolds
  PROVE  \E f : ReadsRows(f, s, told)
<1>. DEFINE Body(f) == [n \in 0 .. Len(s) |->
                          IF n = 0 THEN told ELSE Meta!Follows(f[n - 1], s[n])]
            chosen == CHOOSE f : f = Body(f)
            op == [n \in 1 .. Len(s) |-> [x \in Tolds |-> Meta!Follows(x, s[n])]]
<1>0. Len(s) \in Nat /\ Len(s) \in 0 .. Len(s)
  OBVIOUS
<1>1. told \in Tolds
  OBVIOUS
<1>2. op \in [1 .. Len(s) -> [Tolds -> Tolds]]
  <2>1. \A n \in 1 .. Len(s) : s[n] \in DiffRows
    OBVIOUS
  <2>. QED  BY <2>1, FollowsTyped
<1>3. PICK f : Folds(f, Tolds, Len(s), told, op)
  <2>. HIDE DEF op
  <2>. QED  BY <1>0, <1>1, <1>2, Folding
<1>4. \A n \in 1 .. Len(s) : f[n] = Meta!Follows(f[n - 1], s[n]) /\ n - 1 \in 0 .. Len(s)
  <2>. SUFFICES ASSUME NEW n \in 1 .. Len(s)
                PROVE  f[n] = Meta!Follows(f[n - 1], s[n]) /\ n - 1 \in 0 .. Len(s)
    OBVIOUS
  <2>1. n - 1 \in 0 .. Len(s) /\ f[n - 1] \in Tolds
    BY <1>3 DEF Folds
  <2>. QED  BY <1>3, <2>1 DEF Folds
<1>5. f = Body(f)
  BY <1>3, <1>4 DEF Folds
<1>6. chosen = Body(chosen)
  BY <1>5
<1>7. Meta!ReadRows(told, s) = chosen[Len(s)]
  BY DEF Meta!ReadRows
<1>. HIDE DEF chosen
<1>8. Alike(f, chosen, Len(s))
  BY <1>3, <1>4, <1>6 DEF Folds, Alike
<1>9. chosen[Len(s)] = f[Len(s)]
  BY <1>0, <1>8, EndAlike
<1>. QED  BY <1>3, <1>4, <1>7, <1>9 DEF Folds, ReadsRows

LEMMA ReadRowsOn ==
  ASSUME NEW s \in Seq(DiffRows), NEW row \in DiffRows, NEW told \in Tolds
  PROVE  /\ Meta!ReadRows(told, s) \in Tolds
         /\ Meta!ReadRows(told, Append(s, row)) = Meta!Follows(Meta!ReadRows(told, s), row)
<1>1. PICK N \in Nat : N = Len(s)
  OBVIOUS
<1>2. /\ Append(s, row) \in Seq(DiffRows) /\ Len(Append(s, row)) = N + 1
      /\ Append(s, row)[N + 1] = row /\ \A n \in 1 .. N : Append(s, row)[n] = s[n]
  BY <1>1
<1>3. PICK f : ReadsRows(f, s, told)
  BY ReadRowsIs
<1>4. PICK g : ReadsRows(g, Append(s, row), told)
  BY <1>2, ReadRowsIs
<1>5. Alike(f, g, N)
  BY <1>1, <1>2, <1>3, <1>4 DEF Alike, ReadsRows
<1>6. f[N] = g[N]
  BY <1>5, EndAlike
<1>. QED  BY <1>1, <1>2, <1>3, <1>4, <1>6 DEF ReadsRows

LEMMA ReadRowsNone ==
  ASSUME NEW told \in Tolds
  PROVE  Meta!ReadRows(told, <<>>) = told
<1>1. <<>> \in Seq(DiffRows) /\ Len(<<>>) = 0
  OBVIOUS
<1>2. PICK f : ReadsRows(f, <<>>, told)
  BY <1>1, ReadRowsIs
<1>. QED  BY <1>1, <1>2 DEF ReadsRows

LEMMA ReadRowsTyped ==
  ASSUME NEW told \in Tolds, NEW st \in Steps
  PROVE  Meta!ReadRows(told, st.changes) \in Tolds
<1>1. st.changes \in Seq(DiffRows) /\ Len(st.changes) \in 0 .. Len(st.changes)
  BY DEF Steps
<1>2. PICK f : ReadsRows(f, st.changes, told)
  BY <1>1, ReadRowsIs
<1>. QED  BY <1>1, <1>2 DEF ReadsRows

Start == [now |-> Began, truth |-> [e \in Entries |-> TRUE]]

\* f is what a reader knows after each of the steps.
ReadsSteps(f, s) ==
  /\ f \in [0 .. Len(s) -> Tolds] /\ f[0] = Start
  /\ \A n \in 1 .. Len(s) : f[n] = Meta!ReadRows(f[n - 1], s[n].changes)
  /\ Meta!ReadSteps(s) = f[Len(s)]

LEMMA ReadStepsIs ==
  ASSUME NEW s \in Seq(Steps)
  PROVE  \E f : ReadsSteps(f, s)
<1>. DEFINE Body(f) == [n \in 0 .. Len(s) |->
                          IF n = 0 THEN Start ELSE Meta!ReadRows(f[n - 1], s[n].changes)]
            chosen == CHOOSE f : f = Body(f)
            op == [n \in 1 .. Len(s) |-> [x \in Tolds |-> Meta!ReadRows(x, s[n].changes)]]
<1>0. Len(s) \in Nat /\ Len(s) \in 0 .. Len(s)
  OBVIOUS
<1>1. Start \in Tolds
  BY BeganAssumption DEF Start, Tolds, Values
<1>2. op \in [1 .. Len(s) -> [Tolds -> Tolds]]
  <2>1. \A n \in 1 .. Len(s) : s[n] \in Steps
    OBVIOUS
  <2>. QED  BY <2>1, ReadRowsTyped
<1>3. PICK f : Folds(f, Tolds, Len(s), Start, op)
  <2>. HIDE DEF op
  <2>. QED  BY <1>0, <1>1, <1>2, Folding
<1>4. \A n \in 1 .. Len(s) : f[n] = Meta!ReadRows(f[n - 1], s[n].changes) /\ n - 1 \in 0 .. Len(s)
  <2>. SUFFICES ASSUME NEW n \in 1 .. Len(s)
                PROVE  f[n] = Meta!ReadRows(f[n - 1], s[n].changes) /\ n - 1 \in 0 .. Len(s)
    OBVIOUS
  <2>1. n - 1 \in 0 .. Len(s) /\ f[n - 1] \in Tolds
    BY <1>3 DEF Folds
  <2>. QED  BY <1>3, <2>1 DEF Folds
<1>5. f = Body(f)
  BY <1>3, <1>4 DEF Folds
<1>6. chosen = Body(chosen)
  BY <1>5
<1>7. Meta!ReadSteps(s) = chosen[Len(s)]
  BY DEF Meta!ReadSteps, Start
<1>. HIDE DEF chosen
<1>8. Alike(f, chosen, Len(s))
  BY <1>3, <1>4, <1>6 DEF Folds, Alike
<1>9. chosen[Len(s)] = f[Len(s)]
  BY <1>0, <1>8, EndAlike
<1>. QED  BY <1>3, <1>4, <1>7, <1>9 DEF Folds, ReadsSteps

LEMMA ReadStepsOn ==
  ASSUME NEW s \in Seq(Steps), NEW st \in Steps
  PROVE  /\ Meta!ReadSteps(s) \in Tolds
         /\ Meta!ReadSteps(Append(s, st)) = Meta!ReadRows(Meta!ReadSteps(s), st.changes)
<1>1. PICK N \in Nat : N = Len(s)
  OBVIOUS
<1>2. /\ Append(s, st) \in Seq(Steps) /\ Len(Append(s, st)) = N + 1
      /\ Append(s, st)[N + 1] = st /\ \A n \in 1 .. N : Append(s, st)[n] = s[n]
  BY <1>1
<1>3. PICK f : ReadsSteps(f, s)
  BY ReadStepsIs
<1>4. PICK g : ReadsSteps(g, Append(s, st))
  BY <1>2, ReadStepsIs
<1>5. Alike(f, g, N)
  BY <1>1, <1>2, <1>3, <1>4 DEF Alike, ReadsSteps
<1>6. f[N] = g[N]
  BY <1>5, EndAlike
<1>. QED  BY <1>1, <1>2, <1>3, <1>4, <1>6 DEF ReadsSteps

LEMMA ReadStepsNone ==
  Meta!ReadSteps(<<>>) = Start
<1>1. <<>> \in Seq(Steps) /\ Len(<<>>) = 0
  OBVIOUS
<1>2. PICK f : ReadsSteps(f, <<>>)
  BY <1>1, ReadStepsIs
<1>. QED  BY <1>1, <1>2 DEF ReadsSteps

-----------------------------------------------------------------------------
(***************************************************************************)
(* The trace.  What a reader would be told of what is written so far is    *)
(* the ledger as it is, and the decoder holds the state of every entry     *)
(* that is open; for the entries with an id of their own, and not restored.*)
(***************************************************************************)

Told(list) == Meta!ReadSteps(Meta!readSteps(list))

LEMMA ToldOn ==
  ASSUME NEW F \in Seq(Phases), NEW p \in Phases
  PROVE  /\ Told(F) \in Tolds
         /\ Told(Append(F, p)) = Meta!ReadRows(Told(F), Meta!pairChanges(p.changes))
<1>1. Meta!readSteps(F) \in Seq(Steps)
  BY StepsOn
<1>2. Meta!readSteps(Append(F, p)) = Meta!PushStep(Meta!readSteps(F), p)
  BY StepsOn
<1>3. p.kind \in Kinds /\ Meta!pairChanges(p.changes) \in Seq(DiffRows)
  BY PushStepTyped, <1>1 DEF Phases
<1>. DEFINE st == [phase |-> p.kind, changes |-> Meta!pairChanges(p.changes)]
<1>4. st \in Steps
  BY <1>3 DEF Steps
<1>5. Told(F) \in Tolds
  BY <1>1, <1>4, ReadStepsOn DEF Told
<1>6. CASE p.kind = "operation" \/ Meta!pairChanges(p.changes) # <<>>
  <2>1. Told(Append(F, p)) = Meta!ReadSteps(Append(Meta!readSteps(F), st))
    BY <1>2, <1>6 DEF Told, Meta!PushStep
  <2>. QED  BY <1>1, <1>4, <1>5, <2>1, ReadStepsOn DEF Told
<1>7. CASE ~(p.kind = "operation" \/ Meta!pairChanges(p.changes) # <<>>)
  BY <1>2, <1>5, <1>7, ReadRowsNone DEF Told, Meta!PushStep
<1>. QED  BY <1>5, <1>6, <1>7

Plain == {e \in Entries \ restored : Meta!HasOwnId(e)}

\* A reader who has been told nothing untrue, and how things are.
Right(told) == told \in Tolds /\ \A e \in Plain : told.truth[e] /\ told.now[e] = ledger[e]

\* The phases are F and then p, and are told truly.
Written(F, p) ==
  /\ F \in Seq(Phases) /\ p \in Phases /\ phases = Append(F, p)
  /\ Right(Meta!ReadRows(Told(F), Meta!pairChanges(p.changes)))
  /\ \A e \in open \cap Plain : Meta!Paired(p.changes).pending[Meta!key(e)] = ledger[e]

MetaKept ==
  /\ ledger \in [Entries -> Values] /\ open \subseteq Entries /\ restored \subseteq Entries
  /\ \A e \in open : ledger[e] # Meta!NoEntry
  /\ phases = <<>> => ledger = Began /\ open = {} /\ trace = Meta!NoTrace
  /\ phases # <<>> => \E F, p : Written(F, p)
  /\ trace.is = "trace" => phases # <<>> /\ trace.steps = Meta!readSteps(phases)

LEMMA MetaKeptInitially == Init => MetaKept
  BY BeganAssumption DEF Init, Meta!Init, MetaKept, Values, Meta!NoTrace

\* What a phase adds when it begins: nothing.
LEMMA PhaseBegins ==
  ASSUME MetaKept, NEW kind \in Kinds, trace = Meta!NoTrace, trace' = trace,
         phases' = Append(phases, [kind |-> kind, changes |-> <<>>]),
         open' = {}, UNCHANGED <<ledger, restored>>
  PROVE  MetaKept'
<1>0. PICK F : F = phases
  OBVIOUS
<1>. DEFINE p == [kind |-> kind, changes |-> <<>>]
<1>1. p \in Phases
  BY DEF Phases
<1>2. phases \in Seq(Phases) /\ Right(Told(phases))
  <2>1. CASE phases = <<>>
    <3>1. Meta!readSteps(<<>>) = <<>> /\ Meta!ReadSteps(<<>>) = Start
      BY StepsNone, ReadStepsNone
    <3>2. Start \in Tolds
      BY BeganAssumption DEF Start, Tolds, Values
    <3>3. Told(phases) = Start /\ ledger = Began
      BY <2>1, <3>1 DEF Told, MetaKept
    <3>4. \A e \in Entries : Start.truth[e] /\ Start.now[e] = Began[e]
      BY DEF Start
    <3>5. Right(Told(phases))
      BY <3>2, <3>3, <3>4 DEF Right, Plain
    <3>. QED  BY <2>1, <3>5
  <2>2. CASE phases # <<>>
    <3>1. PICK G, q : Written(G, q)
      BY <2>2 DEF MetaKept
    <3>2. G \in Seq(Phases) /\ q \in Phases /\ phases = Append(G, q)
      BY <3>1 DEF Written
    <3>3. Right(Told(phases))
      BY <3>1, <3>2, ToldOn DEF Written
    <3>4. phases \in Seq(Phases)
      <4>. HIDE DEF Phases
      <4>. QED  BY <3>2
    <3>. QED  BY <3>3, <3>4
  <2>. QED  BY <2>1, <2>2
<1>4. Meta!pairChanges(<<>>) = <<>>
  BY PairedNone DEF Meta!pairChanges, Meta!Unpaired
<1>5. Meta!ReadRows(Told(phases), <<>>) = Told(phases)
  BY <1>2, ReadRowsNone DEF Right
<1>6. \A told : Right(told) => Right(told)'
  BY DEF Right, Plain
<1>7. Written(F, p)'
  BY <1>0, <1>1, <1>2, <1>4, <1>5, <1>6 DEF Written
<1>8. phases' # <<>>
  BY <1>2
<1>. QED  BY <1>7, <1>8 DEF MetaKept, Meta!NoTrace

\* The last phase with one change more.
LEMMA ChangeWritten ==
  ASSUME NEW F \in Seq(Phases), NEW p \in Phases, phases = Append(F, p),
         NEW c \in Changes,
         phases' = [phases EXCEPT ![Len(phases)].changes = Append(@, c)]
  PROVE  LET q == [p EXCEPT !.changes = Append(@, c)]
         IN  q \in Phases /\ phases' = Append(F, q)
<1>. DEFINE q == [p EXCEPT !.changes = Append(@, c)]
<1>1. q \in Phases
  <2>1. p.kind \in Kinds /\ Append(p.changes, c) \in Seq(Changes)
    BY DEF Phases
  <2>. QED  BY <2>1 DEF Phases
<1>2. /\ phases \in Seq(Phases) /\ Len(phases) = Len(F) + 1 /\ Len(phases) \in DOMAIN phases
      /\ phases[Len(phases)] = p
  OBVIOUS
<1>3. phases' = [phases EXCEPT ![Len(phases)] = q]
  BY <1>2
<1>. HIDE DEF q
<1>4. phases' \in Seq(Phases) /\ Len(phases') = Len(F) + 1
  BY <1>1, <1>2, <1>3
<1>5. Append(F, q) \in Seq(Phases) /\ Len(Append(F, q)) = Len(F) + 1
  BY <1>1
<1>6. ASSUME NEW i \in 1 .. Len(F) + 1 PROVE phases'[i] = Append(F, q)[i]
  <2>1. CASE i = Len(F) + 1
    BY <1>1, <1>2, <1>3, <2>1
  <2>2. CASE i # Len(F) + 1
    <3>1. i \in 1 .. Len(F) /\ i \in DOMAIN phases
      BY <1>2, <2>2
    <3>2. phases[i] = F[i]
      BY <3>1
    <3>3. Append(F, q)[i] = F[i]
      BY <1>1, <3>1
    <3>4. phases'[i] = phases[i]
      BY <1>2, <1>3, <2>2, <3>1
    <3>. QED  BY <3>2, <3>3, <3>4
  <2>. QED  BY <2>1, <2>2
<1>7. phases' = Append(F, q)
  BY <1>4, <1>5, <1>6, SeqEqual
<1>. QED  BY <1>1, <1>7 DEF q

\* The change c is written and the last phase becomes q: what is told goes on by
\* the row that c is paired to, if any.
Continued(F, p, c, q) ==
  /\ q \in Phases /\ phases' = Append(F, q) /\ F \in Seq(Phases)
  /\ Meta!Paired(p.changes) \in Pairings
  /\ Meta!Paired(q.changes) = Meta!PairOne(Meta!Paired(p.changes), c)
  /\ \A row \in DiffRows :
       Meta!pairChanges(q.changes) = Append(Meta!pairChanges(p.changes), row) =>
         Meta!ReadRows(Told(F), Meta!pairChanges(q.changes))
           = Meta!Follows(Meta!ReadRows(Told(F), Meta!pairChanges(p.changes)), row)

LEMMA ChangeTold ==
  ASSUME NEW F, NEW p, Written(F, p), NEW c \in Changes,
         phases' = [phases EXCEPT ![Len(phases)].changes = Append(@, c)]
  PROVE  \E q : Continued(F, p, c, q)
<1>. DEFINE q == [p EXCEPT !.changes = Append(@, c)]
<1>1. F \in Seq(Phases) /\ p \in Phases /\ p.changes \in Seq(Changes)
  BY DEF Written, Phases
<1>2. q \in Phases /\ phases' = Append(F, q)
  BY <1>1, ChangeWritten DEF Written
<1>3. q.changes = Append(p.changes, c)
  BY <1>1 DEF Phases
<1>4. /\ Meta!Paired(p.changes) \in Pairings
      /\ Meta!Paired(q.changes) = Meta!PairOne(Meta!Paired(p.changes), c)
  BY <1>1, <1>3, PairedOn
<1>5. Meta!pairChanges(p.changes) \in Seq(DiffRows)
  BY <1>4 DEF Meta!pairChanges, Pairings
<1>6. Told(F) \in Tolds
  BY <1>1, ToldOn
<1>7. ASSUME NEW row \in DiffRows,
             Meta!pairChanges(q.changes) = Append(Meta!pairChanges(p.changes), row)
      PROVE  Meta!ReadRows(Told(F), Meta!pairChanges(q.changes))
               = Meta!Follows(Meta!ReadRows(Told(F), Meta!pairChanges(p.changes)), row)
  BY <1>5, <1>6, <1>7, ReadRowsOn
<1>8. Continued(F, p, c, q)
  BY <1>1, <1>2, <1>4, <1>7 DEF Continued
<1>. QED  BY <1>8

\* No row is told; the ledger is as it was for every plain entry that still is one,
\* and what was pending of those still is.
LEMMA NoRowWritten ==
  ASSUME MetaKept, phases # <<>>, trace = Meta!NoTrace, trace' = trace,
         NEW e \in Entries, NEW kind \in {"state", "restored"}, NEW is \in Values,
         kind = "state" => is = ledger[e] /\ restored' = restored /\ ledger' = ledger,
         kind = "restored" =>
           restored' = restored \cup {e} /\ ledger' = [ledger EXCEPT ![e] = is],
         is # Meta!NoEntry, open' = open \cup {e},
         phases' = [phases EXCEPT ![Len(phases)].changes =
                      Append(@, [kind |-> kind, entry |-> e, is |-> is])]
  PROVE  MetaKept'
<1>. DEFINE c == [kind |-> kind, entry |-> e, is |-> is]
<1>2. c \in Changes
  BY DEF Changes, ChangeKinds
<1>3. PICK F, p : Written(F, p)
  BY DEF MetaKept
<1>4. PICK q : Continued(F, p, c, q)
  <2>. HIDE DEF c
  <2>1. phases' = [phases EXCEPT ![Len(phases)].changes = Append(@, c)]
    BY DEF c
  <2>. QED  BY <1>2, <1>3, <2>1, ChangeTold
<1>5. /\ Meta!Paired(q.changes).rows = Meta!Paired(p.changes).rows
      /\ \A k \in Keys : Meta!Paired(q.changes).pending[k] =
           IF kind = "state" /\ k = Meta!key(e) THEN ledger[e]
           ELSE Meta!Paired(p.changes).pending[k]
  BY <1>4 DEF Continued, Meta!PairOne, Pairings
<1>6. /\ ledger' \in [Entries -> Values] /\ restored' \subseteq Entries
      /\ Plain' \subseteq Plain /\ \A o \in Plain' : ledger'[o] = ledger[o]
  BY DEF MetaKept, Plain
<1>7. \A told : Right(told) => Right(told)'
  BY <1>6 DEF Right
<1>8. \A o \in open' \cap Plain' :
        Meta!Paired(q.changes).pending[Meta!key(o)] = ledger'[o]
  <2>. SUFFICES ASSUME NEW o \in open' \cap Plain'
                PROVE  Meta!Paired(q.changes).pending[Meta!key(o)] = ledger'[o]
    OBVIOUS
  <2>1. o \in Entries /\ o \in Plain /\ Meta!key(o) \in Keys /\ ledger'[o] = ledger[o]
    BY <1>6 DEF Keys, Plain
  <2>2. Meta!key(o) = Meta!key(e) => o = e
    BY <2>1 DEF Plain, Meta!HasOwnId, Meta!key
  <2>3. kind = "restored" => o # e
    BY DEF Plain
  <2>4. o \in open \/ o = e
    OBVIOUS
  <2>5. o \in open => Meta!Paired(p.changes).pending[Meta!key(o)] = ledger[o]
    BY <1>3, <2>1 DEF Written
  <2>6. CASE kind = "state" /\ Meta!key(o) = Meta!key(e)
    BY <1>5, <2>1, <2>2, <2>6
  <2>7. CASE ~(kind = "state" /\ Meta!key(o) = Meta!key(e))
    BY <1>5, <2>1, <2>3, <2>4, <2>5, <2>7
  <2>. QED  BY <2>6, <2>7
<1>9. Written(F, q)'
  BY <1>3, <1>4, <1>5, <1>7, <1>8 DEF Continued, Written, Meta!pairChanges
<1>10. phases' # <<>>
  BY <1>4 DEF Continued
<1>11. open' \subseteq Entries /\ \A o \in open' : ledger'[o] # Meta!NoEntry
  BY DEF MetaKept
<1>. QED  BY <1>6, <1>9, <1>10, <1>11 DEF MetaKept, Meta!NoTrace

\* A row is told: what it says is so, and what was pending of others still is.
LEMMA RowWritten ==
  ASSUME MetaKept, phases # <<>>, trace = Meta!NoTrace, trace' = trace,
         NEW e \in Entries, NEW kind \in {"created", "updated", "removed"}, NEW is \in Values,
         kind = "created" => ledger[e] = Meta!NoEntry /\ open' = open,
         kind # "created" => e \in open /\ open' = open \ {e},
         ledger' = [ledger EXCEPT ![e] = is], restored' = restored,
         phases' = [phases EXCEPT ![Len(phases)].changes =
                      Append(@, [kind |-> kind, entry |-> e, is |-> is])],
         kind = "created" => e \notin open
  PROVE  MetaKept'
<1>. DEFINE c == [kind |-> kind, entry |-> e, is |-> is]
<1>2. c \in Changes
  BY DEF MetaKept, Changes, ChangeKinds
<1>3. PICK F, p : Written(F, p)
  BY DEF MetaKept
<1>4. PICK q : Continued(F, p, c, q)
  <2>. HIDE DEF c
  <2>1. phases' = [phases EXCEPT ![Len(phases)].changes = Append(@, c)]
    BY DEF c
  <2>. QED  BY <1>2, <1>3, <2>1, ChangeTold
<1>. DEFINE before == IF kind = "created" THEN Meta!NoEntry
                      ELSE Meta!Paired(p.changes).pending[Meta!key(e)]
            row == Meta!Row(kind, e, before, is)
            told == Meta!ReadRows(Told(F), Meta!pairChanges(p.changes))
<1>6. \A o \in Entries : Meta!key(o) \in Keys
  BY DEF Keys
<1>5. row \in DiffRows
  <2>1. before \in Values
    BY <1>4, <1>6 DEF Continued, Pairings, Values
  <2>. HIDE DEF before
  <2>. QED  BY <2>1 DEF Meta!Row, Meta!diffFields, DiffRows, ChangeKinds
<1>7. e \in Plain => before = ledger[e]
  BY <1>3 DEF Written
<1>8. Meta!pairChanges(q.changes) = Append(Meta!pairChanges(p.changes), row)
  <2>. HIDE DEF Values
  <2>1. CASE kind = "created"
    BY <1>4, <2>1 DEF Continued, Meta!PairOne, Meta!pairChanges, Pairings
  <2>2. CASE kind # "created"
    BY <1>4, <2>2 DEF Continued, Meta!PairOne, Meta!pairChanges, Pairings
  <2>. QED  BY <2>1, <2>2
<1>a. Right(told) /\ Plain' = Plain
  BY <1>3 DEF Written, Plain
<1>9. Right(Meta!Follows(told, row))'
  <2>. HIDE DEF told, before
  <2>1. Meta!Follows(told, row) \in Tolds
    BY <1>5, <1>a, FollowsTyped DEF Right
  <2>2. row.entry = e /\ row.after = is /\ row.before = before
    BY DEF Meta!Row
  <2>3. ASSUME NEW o \in Plain
        PROVE  Meta!Follows(told, row).truth[o] /\ Meta!Follows(told, row).now[o] = ledger'[o]
    <3>1. o \in Entries /\ told \in Tolds /\ told.truth[o] /\ told.now[o] = ledger[o]
      BY <1>a, <2>3 DEF Right, Plain
    <3>2. CASE o # e
      BY <2>2, <3>1, <3>2 DEF Meta!Follows, Tolds, MetaKept
    <3>3. CASE o = e
      <4>1. before = ledger[e]
        BY <1>7, <2>3, <3>3
      <4>2. Meta!Tells(row, told.now)
        BY <3>1, <3>3, <4>1 DEF Meta!Tells, Meta!Row, Meta!diffFields
      <4>. QED  BY <2>2, <3>1, <3>3, <4>2 DEF Meta!Follows, Tolds, MetaKept
    <3>. QED  BY <3>2, <3>3
  <2>. QED  BY <1>a, <2>1, <2>3 DEF Right
<1>10. \A o \in open' \cap Plain' :
         Meta!Paired(q.changes).pending[Meta!key(o)] = ledger'[o]
  <2>. SUFFICES ASSUME NEW o \in open' \cap Plain'
                PROVE  Meta!Paired(q.changes).pending[Meta!key(o)] = ledger'[o]
    OBVIOUS
  <2>1. o \in Plain /\ o \in Entries /\ o \in open /\ o # e /\ ledger'[o] = ledger[o]
    BY <1>a DEF MetaKept, Plain
  <2>2. Meta!Paired(p.changes).pending[Meta!key(o)] = ledger[o]
    BY <1>3, <2>1 DEF Written
  <2>3. CASE kind = "created"
    BY <1>4, <2>1, <2>2, <2>3 DEF Continued, Meta!PairOne, Pairings
  <2>4. CASE kind # "created"
    <3>1. Meta!key(o) # Meta!key(e)
      BY <2>1 DEF Plain, Meta!HasOwnId, Meta!key
    <3>. QED  BY <1>4, <1>6, <2>1, <2>2, <2>4, <3>1 DEF Continued, Meta!PairOne, Pairings
  <2>. QED  BY <2>3, <2>4
<1>. HIDE DEF row, told
<1>b. Meta!ReadRows(Told(F), Meta!pairChanges(q.changes)) = Meta!Follows(told, row)
  BY <1>4, <1>5, <1>8 DEF Continued, told
<1>11. Written(F, q)'
  BY <1>4, <1>9, <1>10, <1>b DEF Continued, Written
<1>12. phases' # <<>>
  BY <1>4 DEF Continued
<1>13. /\ ledger' \in [Entries -> Values] /\ open' \subseteq Entries
       /\ \A o \in open' : ledger'[o] # Meta!NoEntry
  BY DEF MetaKept
<1>. QED  BY <1>11, <1>12, <1>13 DEF MetaKept, Meta!NoTrace

LEMMA MetaKeptStep ==
  ASSUME MetaKept, [Next]_vars
  PROVE  MetaKept'
<1>1. CASE Meta!Applies
  <2>1. /\ phases = <<>> /\ trace = Meta!NoTrace /\ trace' = trace
        /\ UNCHANGED <<ledger, open, restored>>
        /\ phases' = <<[kind |-> "setup", changes |-> <<>>]>>
    BY <1>1 DEF Meta!Applies
  <2>2. phases' = Append(phases, [kind |-> "setup", changes |-> <<>>])
    BY <2>1
  <2>3. open' = {} /\ "setup" \in Kinds
    BY <2>1 DEF MetaKept, Kinds
  <2>. QED  BY <2>1, <2>2, <2>3, PhaseBegins
<1>2. CASE Meta!NextPhase
  <2>1. PICK kind \in Kinds :
               phases' = Append(phases, [kind |-> kind, changes |-> <<>>])
    BY <1>2 DEF Meta!NextPhase, Kinds
  <2>2. trace = Meta!NoTrace /\ trace' = trace /\ open' = {} /\ UNCHANGED <<ledger, restored>>
    BY <1>2 DEF Meta!NextPhase
  <2>. QED  BY <2>1, <2>2, PhaseBegins
<1>3. CASE Meta!decodeTransaction
  <2>1. /\ phases # <<>> /\ UNCHANGED <<ledger, phases, open, restored>>
        /\ trace'.is = "trace" => trace'.steps = Meta!readSteps(phases)
    BY <1>3 DEF Meta!decodeTransaction, Meta!MetaError
  <2>2. \A F, p : Written(F, p) => Written(F, p)'
    BY <2>1 DEF Written, Right, Plain
  <2>3. PICK F, p : Written(F, p)
    BY <2>1 DEF MetaKept
  <2>. QED  BY <2>1, <2>2, <2>3 DEF MetaKept
<1>4. ASSUME NEW e \in Entries, Meta!State(e) PROVE MetaKept'
  <2>1. ledger[e] \in Values /\ ledger[e] # Meta!NoEntry
    BY <1>4 DEF MetaKept, Meta!State
  <2>. QED  BY <1>4, <2>1, NoRowWritten DEF Meta!State, Meta!Writes, Meta!Writable
<1>5. ASSUME NEW e \in Entries, NEW is \in Values, NEW kind \in {"updated", "removed"},
             Meta!Closes(e, kind, is)
      PROVE  MetaKept'
  BY <1>5, RowWritten DEF Meta!Closes, Meta!Writes, Meta!Writable
<1>6. ASSUME NEW e \in Entries, Meta!Created(e) PROVE MetaKept'
  <2>1. PICK is \in Meta!Contents :
          /\ Meta!Writes([kind |-> "created", entry |-> e, is |-> is])
          /\ ledger' = [ledger EXCEPT ![e] = is]
    BY <1>6 DEF Meta!Created
  <2>2. is \in Values /\ ledger[e] = Meta!NoEntry /\ UNCHANGED <<open, restored>>
    BY <1>6 DEF Meta!Created, Values
  <2>3. e \notin open
    BY <2>2 DEF MetaKept
  <2>. QED  BY <2>1, <2>2, <2>3, RowWritten DEF Meta!Writes, Meta!Writable
<1>7. CASE UNCHANGED metaVars
  <2>1. UNCHANGED <<ledger, phases, open, restored, trace>>
    BY <1>7 DEF metaVars
  <2>2. \A F, p : Written(F, p) => Written(F, p)'
    BY <2>1 DEF Written, Right, Plain
  <2>. QED  BY <2>1, <2>2 DEF MetaKept
<1>8. Meta!Next \/ UNCHANGED metaVars
  BY DEF Next, vars, OthersRest, Else
<1>9. ASSUME NEW e \in Entries, Meta!Updated(e) \/ Meta!Removed(e) PROVE MetaKept'
  BY <1>5, <1>9 DEF Meta!Updated, Meta!Removed, Values
<1>10. ASSUME NEW e \in Entries, Meta!Restored(e) PROVE MetaKept'
  <2>1. PICK is \in Meta!Contents :
          /\ Meta!Writes([kind |-> "restored", entry |-> e, is |-> is])
          /\ ledger' = [ledger EXCEPT ![e] = is]
    BY <1>10 DEF Meta!Restored
  <2>2. is \in Values /\ open' = open \cup {e} /\ restored' = restored \cup {e}
    BY <1>10 DEF Meta!Restored, Values
  <2>3. is # Meta!NoEntry
    BY DEF Meta!Contents, Meta!NoEntry
  <2>. QED  BY <2>1, <2>2, <2>3, NoRowWritten DEF Meta!Writes, Meta!Writable
<1>. QED  BY <1>1, <1>2, <1>3, <1>4, <1>6, <1>7, <1>8, <1>9, <1>10 DEF Meta!Next

\* Reading the steps of a trace in order tells the truth, at every row and in the
\* end, of every entry that has an id of its own and was not restored, for any
\* entries and ids, however many changes and however they are interleaved
\* (decode.ts:218-223, page.ts:4-8).
THEOREM TraceAlwaysFaithful == Spec => []TraceIsFaithful
<1>1. MetaKept => TraceIsFaithful
  <2>. SUFFICES ASSUME MetaKept, trace.is = "trace",
                       NEW e \in Entries \ restored, Meta!HasOwnId(e)
                PROVE  Meta!Faithful(e)
    BY DEF TraceIsFaithful, Meta!TraceIsFaithful
  <2>1. PICK F, p : Written(F, p)
    BY DEF MetaKept
  <2>2. Right(Told(phases)) /\ trace.steps = Meta!readSteps(phases)
    BY <2>1, ToldOn DEF Written, MetaKept
  <2>3. e \in Plain
    BY DEF Plain
  <2>. QED  BY <2>2, <2>3 DEF Told, Right, Meta!Faithful
<1>. QED  BY <1>1, MetaKeptInitially, MetaKeptStep, PTL DEF Spec
=============================================================================
