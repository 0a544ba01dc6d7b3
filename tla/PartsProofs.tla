----------------------------- MODULE PartsProofs -----------------------------
(***************************************************************************)
(* Proofs about the parts that stand alone, each for every value of its    *)
(* constants and, where the other application has a copy, for the copy.    *)
(***************************************************************************)
EXTENDS Parts, Extremes, SequenceTheorems

\* A step is one of the part's, or leaves its variables alone.
LEMMA PartsMove ==
  ASSUME [Next]_vars
  PROVE  /\ Rpc!Next \/ UNCHANGED rpcVars
         /\ View("serve")!Next \/ View("api")!Next \/ UNCHANGED viewVars
         /\ Kit!Next \/ UNCHANGED kitVars
         /\ Actions!Next \/ Privy!ActionsNext \/ UNCHANGED actionVars
         /\ Store!Next \/ Privy!StoreNext \/ UNCHANGED storeVars
         /\ Build!Next \/ UNCHANGED buildVars
         /\ Script!Next \/ Privy!ScriptNext \/ UNCHANGED scriptVars
  BY DEF Next, vars, OthersRest, Else

-----------------------------------------------------------------------------
(***************************************************************************)
(* The Kit.  Whoever asks for it finds the import under way or over.       *)
(***************************************************************************)

KitLoads ==
  /\ imports \in Nat /\ inits \in Nat /\ imports + inits <= 1
  /\ loading = "none" => imports = 0 /\ inits = 0

LEMMA KitLoadsInitially == Init => KitLoads
  BY DEF Init, Kit!Init, KitLoads

LEMMA KitLoadsStep ==
  ASSUME KitLoads, [Next]_vars
  PROVE  KitLoads'
<1>1. CASE Kit!Asked
  BY <1>1 DEF Kit!Asked, KitLoads
<1>2. CASE Kit!Imported
  BY <1>2 DEF Kit!Imported, KitLoads
<1>3. CASE Kit!Reload
  BY <1>3 DEF Kit!Reload, KitLoads
<1>4. CASE UNCHANGED <<loading, imports, inits>>
  BY <1>4 DEF KitLoads
<1>5. ASSUME Kit!Next
      PROVE  Kit!Asked \/ Kit!Imported \/ Kit!Reload \/ UNCHANGED <<loading, imports, inits>>
  BY <1>5 DEF Kit!Next, Kit!Mount, Kit!Restores, Kit!RestoreAsks, Kit!RestoreResolves,
              Kit!RestoreRejects, Kit!Buttons, Kit!connect, Kit!disconnect,
              Kit!signTransaction, Kit!Press, Kit!KitFailed, Kit!authModal, Kit!assertTestnet,
              Kit!Disconnected, Kit!WalletSigns, Kit!SwitchWallet, Kit!import
<1> QED BY <1>1, <1>2, <1>3, <1>4, <1>5, PartsMove DEF kitVars

\* However many mounts and buttons ask for it, and whatever becomes of the
\* import, the Kit is initialised at most once in a load (wallets-kit.ts:31).
THEOREM KitAlwaysInitOnce == Spec => []KitInitOnce
<1>1. KitLoads => KitInitOnce
  BY DEF KitLoads, KitInitOnce, Kit!KitInitOnce
<1> QED BY <1>1, KitLoadsInitially, KitLoadsStep, PTL DEF Spec

-----------------------------------------------------------------------------
(***************************************************************************)
(* The RPC client.                                                         *)
(***************************************************************************)

LEMMA AbortStep ==
  ASSUME [Next]_vars, aborted, rpcAt # "waiting"
  PROVE  rpcAt' # "waiting"
<1>1. ASSUME NEW limit, Rpc!Call(limit)
      PROVE  rpcAt' # "waiting"
  BY <1>1 DEF Rpc!Call, Rpc!Attempt, Rpc!End
<1>2. ASSUME Rpc!Answer
      PROVE  rpcAt' # "waiting"
  BY <1>2 DEF Rpc!Answer, Rpc!End
<1>3. ASSUME NEW error, Rpc!Fail(error)
      PROVE  rpcAt' # "waiting"
  BY <1>3 DEF Rpc!Fail, Rpc!Waits, Rpc!End
<1>4. ~Rpc!Wake /\ ~Rpc!Abort
  BY DEF Rpc!Wake, Rpc!Abort
<1>5. rpcAt' = rpcAt \/ Rpc!Next
  BY PartsMove DEF rpcVars
<1> QED BY <1>1, <1>2, <1>3, <1>4, <1>5 DEF Rpc!Next

\* After the second interrupt no call begins another wait, however its request
\* ended (rpc.ts:145-149).
THEOREM AbortAlwaysStopsWaiting == Spec => AbortStopsWaiting
<1>1. [Next]_vars => [aborted /\ rpcAt # "waiting" => rpcAt' # "waiting"]_(Rpc!vars)
  BY AbortStep
<1> QED BY <1>1, PTL DEF Spec, AbortStopsWaiting, Rpc!AbortStopsWaiting

-----------------------------------------------------------------------------
(***************************************************************************)
(* The action runner, of either application.                               *)
(***************************************************************************)

Results == Actions!Success \cup Actions!toFailure \cup {Actions!NoResult}

\* A link has no timer, and a pending action has shown nothing yet.
LinksHeld ==
  /\ actionStatus \in [Ids -> {"idle", "pending", "success", "info", "error"}]
  /\ result \in [Ids -> Results] /\ timer \in [Ids -> BOOLEAN]
  /\ \A i \in Ids : result[i] = "link" => ~timer[i] /\ actionStatus[i] # "pending"

LEMMA LinksHeldInitially == Init => LinksHeld
  BY DEF Init, Actions!Init, LinksHeld, Results, Actions!NoResult

\* What a step of either runner does to the button it is about.
LEMMA RunnerMoves ==
  ASSUME Actions!Next \/ Privy!ActionsNext
  PROVE  \/ \E i \in Ids :
              \/ Actions!run(i)
              \/ \E s \in {"success", "info", "error"},
                    r \in Actions!Success \cup Actions!toFailure : Actions!settle(i, s, r)
              \/ Actions!Fade(i)
         \/ Actions!Unmount
<1>1. CASE Actions!Next
  BY <1>1 DEF Actions!Next, Actions!Resolves, Actions!Rejects
<1>2. CASE Privy!ActionsNext
  <2>1. /\ \A i : Privy!Actions!run(i) => Actions!run(i)
        /\ \A i : Privy!Actions!Fade(i) => Actions!Fade(i)
        /\ \A i, s, r : Privy!Actions!settle(i, s, r) => Actions!settle(i, s, r)
        /\ Privy!Actions!Unmount => Actions!Unmount
    BY DEF Privy!Actions!run, Actions!run,
           Privy!Actions!NoResult, Actions!NoResult, Privy!Actions!Fade, Actions!Fade,
           Privy!Actions!settle, Actions!settle, Privy!Actions!NeverExpires,
           Actions!NeverExpires, Privy!Actions!Unmount, Actions!Unmount
  <2> QED
    BY <1>2, <2>1 DEF Privy!ActionsNext, Privy!run, Privy!settle, Privy!Fade, Privy!Unmount,
                      Privy!Actions!Resolves, Privy!Actions!Rejects, Privy!Actions!Success,
                      Actions!Success, Privy!Actions!toFailure, Actions!toFailure
<1> QED BY <1>1, <1>2

LEMMA LinksStep ==
  ASSUME LinksHeld, [Next]_vars
  PROVE  /\ LinksHeld'
         /\ \A i \in Ids : result[i] = "link" =>
              result'[i] = "link" \/ actionStatus'[i] = "pending"
<1> USE DEF Results, Actions!Success, Actions!toFailure, Actions!NoResult
<1>1. ASSUME NEW i \in Ids, Actions!run(i)
      PROVE  LinksHeld' /\ \A j \in Ids : result[j] = "link" =>
               result'[j] = "link" \/ actionStatus'[j] = "pending"
  BY <1>1 DEF LinksHeld, Actions!run
<1>2. ASSUME NEW i \in Ids, NEW s \in {"success", "info", "error"},
             NEW r \in Actions!Success \cup Actions!toFailure, Actions!settle(i, s, r)
      PROVE  LinksHeld' /\ \A j \in Ids : result[j] = "link" => result'[j] = "link"
  <2>1. timer' \in [Ids -> BOOLEAN] /\ timer'[i] = (r # "link")
    BY <1>2 DEF LinksHeld, Actions!settle, Actions!NeverExpires
  <2> QED BY <1>2, <2>1 DEF LinksHeld, Actions!settle, Actions!NeverExpires
<1>3. ASSUME NEW i \in Ids, Actions!Fade(i)
      PROVE  LinksHeld' /\ \A j \in Ids : result[j] = "link" => result'[j] = "link"
  BY <1>3 DEF LinksHeld, Actions!Fade
<1>4. ASSUME Actions!Unmount
      PROVE  LinksHeld' /\ \A j \in Ids : result[j] = "link" => result'[j] = "link"
  BY <1>4 DEF LinksHeld, Actions!Unmount
<1>5. ASSUME UNCHANGED actionVars
      PROVE  LinksHeld' /\ \A j \in Ids : result[j] = "link" => result'[j] = "link"
  BY <1>5 DEF LinksHeld, actionVars
<1> QED BY <1>1, <1>2, <1>3, <1>4, <1>5, RunnerMoves, PartsMove

\* The link to a transaction stays under its button until the button is pressed
\* again: no timer, of an earlier result or after an unmount, takes it away
\* (use-actions.ts:91-93).
THEOREM LinksAlwaysStay == Spec => LinksStay
<1>1. LinksHeld /\ [Next]_vars =>
        \A i \in Ids : result[i] = "link" => result'[i] = "link" \/ actionStatus'[i] = "pending"
  BY LinksStep
<1>2. LinksHeld /\ [Next]_vars => LinksHeld'
  BY LinksStep
<1> QED BY <1>1, <1>2, LinksHeldInitially, PTL DEF Spec, LinksStay, Actions!LinksStay

-----------------------------------------------------------------------------
(***************************************************************************)
(* The lists in local storage.                                             *)
(***************************************************************************)

LEMMA Filtering ==
  ASSUME NEW list \in Seq(Nat)
  PROVE  Store!filter(list) = list
<1>. DEFINE D == 0 .. Len(list)
            Body(f) == [n \in D |->
                          IF n = 0 THEN <<>>
                          ELSE IF list[n] # Junk THEN Append(f[n - 1], list[n])
                          ELSE f[n - 1]]
            kept == CHOOSE f : f = Body(f)
            g == [n \in D |-> SubSeq(list, 1, n)]
<1>1. Store!filter(list) = kept[Len(list)]
  BY DEF Store!filter, Store!isEntry
<1>2. \A n \in D : n # 0 => /\ n - 1 \in D /\ list[n] \in Nat
                            /\ Append(SubSeq(list, 1, n - 1), list[n]) = SubSeq(list, 1, n)
  OBVIOUS
<1>3. SubSeq(list, 1, 0) = <<>> /\ SubSeq(list, 1, Len(list)) = list /\ Len(list) \in D
  OBVIOUS
<1>4. g = Body(g)
  <2>. SUFFICES ASSUME NEW n \in D PROVE g[n] = Body(g)[n]
    OBVIOUS
  <2>. QED  BY <1>2, <1>3, JunkAssumption
<1>. HIDE DEF D
<1>5. kept = Body(kept)
  BY <1>4
<1>. HIDE DEF kept
<1>6. \A n \in D : kept[n] = SubSeq(list, 1, n)
  <2>. DEFINE S == {n \in D : kept[n] # SubSeq(list, 1, n)}
  <2>. SUFFICES ASSUME S # {} PROVE FALSE
    OBVIOUS
  <2>1. PICK m \in S : \A n \in S : m <= n
    <3>1. S \in SUBSET Nat
      BY DEF D
    <3>. HIDE DEF S
    <3>. QED  BY <3>1, MinIsLeast
  <2>2. m \in D /\ D \subseteq Int
    BY DEF D
  <2>3. m # 0
    BY <1>3, <1>5, <2>1, <2>2
  <2>4. m - 1 \in D /\ m - 1 \notin S
    BY <1>2, <2>1, <2>2, <2>3
  <2>. QED  BY <1>2, <1>5, <2>1, <2>2, <2>3, <2>4, JunkAssumption
<1>. QED  BY <1>1, <1>3, <1>6

LEMMA NoEntryFiltered ==
  Store!filter(<<Junk>>) = <<>>
<1>. DEFINE Body(f) == [n \in 0 .. 1 |->
                          IF n = 0 THEN <<>>
                          ELSE IF <<Junk>>[n] # Junk THEN Append(f[n - 1], <<Junk>>[n])
                          ELSE f[n - 1]]
            kept == CHOOSE f : f = Body(f)
            g == [n \in 0 .. 1 |-> <<>>]
<1>0. Len(<<Junk>>) = 1 /\ <<Junk>>[1] = Junk
  OBVIOUS
<1>1. Store!filter(<<Junk>>) = kept[1]
  BY <1>0 DEF Store!filter, Store!isEntry
<1>2. g = Body(g)
  <2>. SUFFICES ASSUME NEW n \in 0 .. 1 PROVE g[n] = Body(g)[n]
    OBVIOUS
  <2>. QED  BY <1>0
<1>3. kept = Body(kept)
  BY <1>2
<1>. HIDE DEF kept
<1>4. kept[1] = kept[0] /\ kept[0] = <<>>
  BY <1>0, <1>3
<1>. QED  BY <1>1, <1>4

Entered == Seq(Nat)

\* What a list is cut to is no more than its limit, and cutting it first loses
\* nothing that a longer list would have kept.
LEMMA Cutting ==
  ASSUME NEW k \in Store!Keys, NEW s \in Entered
  PROVE  /\ Store!Cut(k, s) \in Entered
         /\ Store!Cut(k, <<>>) = <<>>
         /\ Store!Cut(k, Store!Cut(k, s)) = Store!Cut(k, s)
         /\ \A e \in Nat :
              /\ <<e>> \o s \in Entered
              /\ Store!Cut(k, <<e>> \o Store!Cut(k, s)) = Store!Cut(k, <<e>> \o s)
<1>. DEFINE l == Store!LimitOf(k)
            cut(q) == SubSeq(q, 1, IF Len(q) < l THEN Len(q) ELSE l)
<1>1. \A q : Store!Cut(k, q) = cut(q)
  BY DEF Store!Cut
<1>2. l \in Nat
  BY LimitAssumption DEF Store!LimitOf
<1>. HIDE DEF l
<1>3. \A q \in Entered :
        /\ cut(q) \in Entered
        /\ Len(cut(q)) = IF Len(q) < l THEN Len(q) ELSE l
        /\ \A i \in 1 .. Len(cut(q)) : cut(q)[i] = q[i]
  BY <1>2 DEF Entered
<1>4. cut(<<>>) = <<>>
  BY <1>2
<1>5. \A p, q \in Entered : Len(p) = Len(q) /\ (\A i \in 1 .. Len(p) : p[i] = q[i]) => p = q
  BY SeqEqual DEF Entered
<1>. HIDE DEF cut
<1>6. \A q \in Entered : Len(q) \in Nat
  BY DEF Entered
<1>7. cut(cut(s)) = cut(s)
  BY <1>2, <1>3, <1>5, <1>6
<1>8. ASSUME NEW e \in Nat
      PROVE  <<e>> \o s \in Entered /\ cut(<<e>> \o cut(s)) = cut(<<e>> \o s)
  <2>. DEFINE p == <<e>> \o s
              q == <<e>> \o cut(s)
  <2>1. \A r \in Entered : /\ <<e>> \o r \in Entered /\ Len(<<e>> \o r) = Len(r) + 1
                           /\ \A i \in 1 .. Len(r) + 1 :
                                (<<e>> \o r)[i] = IF i = 1 THEN e ELSE r[i - 1]
    BY DEF Entered
  <2>2. /\ p \in Entered /\ q \in Entered
        /\ Len(p) = Len(s) + 1 /\ Len(q) = Len(cut(s)) + 1
        /\ \A i \in 1 .. Len(s) + 1 : p[i] = IF i = 1 THEN e ELSE s[i - 1]
        /\ \A i \in 1 .. Len(cut(s)) + 1 : q[i] = IF i = 1 THEN e ELSE cut(s)[i - 1]
    BY <1>3, <2>1
  <2>. HIDE DEF p, q
  <2>a. /\ Len(cut(s)) = IF Len(s) < l THEN Len(s) ELSE l
        /\ Len(cut(p)) = IF Len(p) < l THEN Len(p) ELSE l
        /\ Len(cut(q)) = IF Len(q) < l THEN Len(q) ELSE l
        /\ Len(s) \in Nat
    BY <1>3, <1>6, <2>2
  <2>3. /\ Len(cut(p)) = Len(cut(q))
        /\ Len(cut(s)) \in Nat /\ Len(cut(p)) \in Nat
        /\ Len(cut(p)) <= Len(cut(s)) + 1 /\ Len(cut(s)) <= Len(s)
    BY <1>2, <2>2, <2>a
  <2>4. ASSUME NEW i \in 1 .. Len(cut(p)) PROVE cut(p)[i] = cut(q)[i]
    <3>2. /\ i \in 1 .. Len(s) + 1 /\ i \in 1 .. Len(cut(s)) + 1 /\ i \in Int
          /\ i # 1 => i - 1 \in 1 .. Len(cut(s))
      BY <2>3, <2>a
    <3>3. cut(p)[i] = p[i] /\ cut(q)[i] = q[i]
      BY <1>3, <2>2, <2>3
    <3>4. p[i] = IF i = 1 THEN e ELSE s[i - 1]
      BY <2>2, <3>2
    <3>5. q[i] = IF i = 1 THEN e ELSE cut(s)[i - 1]
      BY <2>2, <3>2
    <3>6. i # 1 => cut(s)[i - 1] = s[i - 1]
      BY <1>3, <3>2
    <3>. QED  BY <3>3, <3>4, <3>5, <3>6
  <2>5. cut(p) \in Entered /\ cut(q) \in Entered
    BY <1>3, <2>2
  <2>. QED  BY <1>5, <2>2, <2>3, <2>4, <2>5 DEF p, q
<1>. QED  BY <1>1, <1>3, <1>4, <1>7, <1>8

\* The copies of a list are typed, what storage keeps is within the limit, and
\* HistorySurvives also holds of what nobody has written yet.
StoreTyped ==
  /\ disk \in [Store!Keys -> Entered \cup {<<Junk>>}]
  /\ cache \in [Tabs -> [Store!Keys -> Entered \cup {Unread}]]
  /\ entries \in Nat
  /\ recorded \in [Store!Keys -> Entered]
  /\ writers \in [Store!Keys -> SUBSET Tabs]
  /\ refused \in [Store!Keys -> BOOLEAN]

Unwritten(k) ==
  /\ recorded[k] = <<>> /\ Store!Parsed(k) = <<>>
  /\ \A t \in Tabs : Store!Known(t, k) = <<>>

WrittenBy(t, k) ==
  /\ Store!Known(t, k) = Store!Cut(k, recorded[k])
  /\ ~refused[k] => Store!Parsed(k) = Store!Cut(k, recorded[k])

StoreKept(k) ==
  /\ Store!Cut(k, Store!Parsed(k)) = Store!Parsed(k)
  /\ writers[k] = {} => Unwritten(k)
  /\ \A t \in Tabs : writers[k] = {t} => WrittenBy(t, k)

StoreKeeps == StoreTyped /\ \A k \in Store!Keys : StoreKept(k)

LEMMA ParsedTyped ==
  ASSUME StoreTyped, NEW k \in Store!Keys
  PROVE  Store!Parsed(k) \in Entered
<1>1. CASE disk[k] = <<Junk>>
  <2>1. <<>> \in Entered
    BY DEF Entered
  <2>. QED  BY <1>1, <2>1, NoEntryFiltered DEF Store!Parsed
<1>2. CASE disk[k] \in Entered
  BY <1>2, Filtering DEF Entered, Store!Parsed
<1>. QED  BY <1>1, <1>2 DEF StoreTyped

LEMMA StoreKeepsInitially == Init => StoreKeeps
<1>. SUFFICES ASSUME Store!Init PROVE StoreKeeps
  BY DEF Init
<1>0. <<>> \in Entered
  BY DEF Entered
<1>1. StoreTyped
  BY <1>0 DEF Store!Init, StoreTyped
<1>2. ASSUME NEW k \in Store!Keys PROVE StoreKept(k)
  <2>1. Store!Parsed(k) = <<>>
    <3>1. CASE k \in LineKeys
      BY <1>0, <3>1, Filtering DEF Store!Init, Store!Parsed, Entered
    <3>2. CASE k \notin LineKeys
      BY <3>2, NoEntryFiltered DEF Store!Init, Store!Parsed
    <3>. QED  BY <3>1, <3>2
  <2>2. \A t \in Tabs : Store!Known(t, k) = <<>>
    BY <2>1 DEF Store!Init, Store!Known
  <2>3. recorded[k] = <<>> /\ writers[k] = {}
    BY DEF Store!Init
  <2>4. Store!Cut(k, <<>>) = <<>>
    BY <1>0, Cutting
  <2>. QED  BY <2>1, <2>2, <2>3, <2>4 DEF StoreKept, Unwritten
<1>. QED  BY <1>1, <1>2 DEF StoreKeeps

\* A key that a step leaves alone keeps what is said of it; what a tab knows
\* of it is the copy in memory or, before it is read, what storage has.
LEMMA StoreUntouched ==
  ASSUME StoreTyped, NEW k \in Store!Keys, StoreKept(k),
         disk'[k] = disk[k], recorded'[k] = recorded[k], writers'[k] = writers[k],
         refused'[k] = refused[k],
         \A t \in Tabs : Store!Known(t, k)' = Store!Known(t, k)
  PROVE  StoreKept(k)'
<1>1. Store!Parsed(k)' = Store!Parsed(k)
  BY DEF Store!Parsed
<1>2. \A s : Store!Cut(k, s)' = Store!Cut(k, s)
  BY DEF Store!Cut, Store!LimitOf
<1>. QED  BY <1>1, <1>2 DEF StoreKept, Unwritten, WrittenBy, Store!Cut, Store!LimitOf

LEMMA ReadKeeps ==
  ASSUME StoreKeeps, NEW t \in Tabs, NEW k \in Store!Keys, Store!read(t, k)
  PROVE  StoreKeeps'
<1>. USE DEF StoreKeeps
<1>1. Store!Parsed(k) \in Entered /\ <<>> \in Entered
  BY ParsedTyped DEF Entered
<1>2. PICK list \in Entered :
        /\ cache' = [cache EXCEPT ![t][k] = list]
        /\ \/ list = Store!Parsed(k) /\ UNCHANGED <<recorded, refused>>
           \/ /\ list = <<>>
              /\ recorded' = IF writers[k] \subseteq {t} THEN [recorded EXCEPT ![k] = <<>>]
                             ELSE recorded
              /\ refused' = [refused EXCEPT ![k] = @ \/ writers[k] \subseteq {t}]
  BY <1>1 DEF Store!read
<1>3. cache[t][k] = Unread /\ UNCHANGED <<disk, entries, writers>>
  BY DEF Store!read
<1>4. StoreTyped'
  <2>1. cache' \in [Tabs -> [Store!Keys -> Entered \cup {Unread}]]
    BY <1>2 DEF StoreTyped
  <2>2. recorded' \in [Store!Keys -> Entered]
    BY <1>1, <1>2 DEF StoreTyped
  <2>3. refused' \in [Store!Keys -> BOOLEAN]
    BY <1>2 DEF StoreTyped
  <2>. QED  BY <1>3, <2>1, <2>2, <2>3 DEF StoreTyped
<1>5. \A u \in Tabs, j \in Store!Keys :
        cache'[u][j] = IF u = t /\ j = k THEN list ELSE cache[u][j]
  BY <1>2 DEF StoreTyped
<1>6. list # Unread
  BY UnreadAssumption DEF Entered
<1>7. \A j \in Store!Keys : Store!Parsed(j)' = Store!Parsed(j)
  BY <1>3 DEF Store!Parsed
<1>8. \A u \in Tabs, j \in Store!Keys :
        Store!Known(u, j)' = IF u = t /\ j = k THEN list ELSE Store!Known(u, j)
  BY <1>5, <1>6, <1>7 DEF Store!Known
<1>9. ASSUME NEW j \in Store!Keys, j # k PROVE StoreKept(j)'
  <2>1. recorded'[j] = recorded[j] /\ refused'[j] = refused[j]
    BY <1>2, <1>9 DEF StoreTyped
  <2>. QED  BY <1>3, <1>8, <1>9, <2>1, StoreUntouched
<1>10. StoreKept(k)'
  <2>1. Store!Cut(k, Store!Parsed(k))' = Store!Parsed(k)'
    BY <1>7 DEF StoreKept, Store!Cut, Store!LimitOf
  <2>2. Store!Known(t, k) = Store!Parsed(k)
    BY <1>3 DEF Store!Known
  <2>3. ASSUME writers'[k] = {} PROVE Unwritten(k)'
    <3>1. Unwritten(k)
      BY <1>3, <2>3 DEF StoreKept
    <3>2. list = <<>>
      BY <1>2, <3>1 DEF Unwritten
    <3>3. recorded'[k] = <<>>
      BY <1>2, <3>1 DEF Unwritten, StoreTyped
    <3>. QED  BY <1>7, <1>8, <3>1, <3>2, <3>3 DEF Unwritten
  <2>4. ASSUME NEW u \in Tabs, writers'[k] = {u} PROVE WrittenBy(u, k)'
    <3>1. WrittenBy(u, k)
      BY <1>3, <2>4 DEF StoreKept
    <3>2. \A s : Store!Cut(k, s)' = Store!Cut(k, s)
      BY DEF Store!Cut, Store!LimitOf
    <3>3. CASE recorded'[k] = recorded[k] /\ refused'[k] = refused[k]
               /\ (u = t => list = Store!Parsed(k))
      BY <1>7, <1>8, <2>2, <3>1, <3>3 DEF WrittenBy, Store!Cut, Store!LimitOf
    <3>4. CASE u = t /\ list = <<>> /\ recorded'[k] = <<>> /\ refused'[k]
      <4>1. Store!Cut(k, <<>>) = <<>>
        BY <1>1, Cutting
      <4>. QED  BY <1>8, <3>4, <4>1 DEF WrittenBy, Store!Cut, Store!LimitOf
    <3>5. writers[k] \subseteq {t} <=> u = t
      BY <1>3, <2>4
    <3>. QED  BY <1>2, <3>3, <3>4, <3>5 DEF StoreTyped
  <2>. QED  BY <2>1, <2>3, <2>4 DEF StoreKept
<1>. QED  BY <1>4, <1>9, <1>10

\* What a recording and the clearing of the log have in common.
LEMMA PublishKeeps ==
  ASSUME StoreKeeps, NEW t \in Tabs, NEW k \in Store!Keys, NEW next \in Entered,
         NEW list \in Entered,
         Store!Publish(t, k, next, next),
         Store!Cut(k, next) = next,
         entries' \in Nat,
         recorded' = [recorded EXCEPT ![k] = list],
         writers[k] \subseteq {t} => next = Store!Cut(k, list)
  PROVE  StoreKeeps'
<1>. USE DEF StoreKeeps
<1>1. PICK ok \in BOOLEAN :
        /\ disk' = IF ok THEN [disk EXCEPT ![k] = next] ELSE disk
        /\ refused' = [refused EXCEPT ![k] = ~ok]
  BY DEF Store!Publish
<1>2. /\ cache' = [cache EXCEPT ![t][k] = next]
      /\ writers' = [writers EXCEPT ![k] = @ \cup {t}]
  BY DEF Store!Publish
<1>3. StoreTyped'
  <2>1. disk' \in [Store!Keys -> Entered \cup {<<Junk>>}]
    BY <1>1 DEF StoreTyped
  <2>2. cache' \in [Tabs -> [Store!Keys -> Entered \cup {Unread}]]
    BY <1>2 DEF StoreTyped
  <2>3. recorded' \in [Store!Keys -> Entered]
    BY DEF StoreTyped
  <2>4. writers' \in [Store!Keys -> SUBSET Tabs]
    BY <1>2 DEF StoreTyped
  <2>5. refused' \in [Store!Keys -> BOOLEAN]
    BY <1>1 DEF StoreTyped
  <2>. QED  BY <2>1, <2>2, <2>3, <2>4, <2>5 DEF StoreTyped
<1>4. \A j \in Store!Keys : j # k =>
        /\ disk'[j] = disk[j] /\ recorded'[j] = recorded[j] /\ writers'[j] = writers[j]
        /\ refused'[j] = refused[j]
        /\ \A u \in Tabs : cache'[u][j] = cache[u][j]
  BY <1>1, <1>2 DEF StoreTyped
<1>5. ASSUME NEW j \in Store!Keys, j # k PROVE StoreKept(j)'
  <2>1. \A u \in Tabs : Store!Known(u, j)' = Store!Known(u, j)
    BY <1>4, <1>5 DEF Store!Known, Store!Parsed
  <2>. QED  BY <1>4, <1>5, <2>1, StoreUntouched
<1>6. /\ recorded'[k] = list
      /\ writers'[k] = writers[k] \cup {t}
      /\ refused'[k] = ~ok
      /\ disk'[k] = IF ok THEN next ELSE disk[k]
      /\ cache'[t][k] = next
  BY <1>1, <1>2 DEF StoreTyped
<1>7. next # Unread
  BY UnreadAssumption DEF Entered
<1>8. Store!Known(t, k)' = next
  BY <1>6, <1>7 DEF Store!Known
<1>9. Store!Parsed(k)' = IF ok THEN next ELSE Store!Parsed(k)
  <2>1. CASE ok
    <3>1. disk'[k] = next /\ next \in Seq(Nat)
      BY <1>6, <2>1 DEF Entered
    <3>. QED  BY <2>1, <3>1, Filtering DEF Store!Parsed
  <2>2. CASE ~ok
    BY <1>6, <2>2 DEF Store!Parsed
  <2>. QED  BY <2>1, <2>2
<1>10. StoreKept(k)'
  <2>1. Store!Cut(k, Store!Parsed(k)) = Store!Parsed(k)
    BY DEF StoreKept
  <2>2. Store!Cut(k, Store!Parsed(k))' = Store!Parsed(k)'
    BY <1>9, <2>1 DEF Store!Cut, Store!LimitOf
  <2>3. writers'[k] # {}
    BY <1>6
  <2>4. ASSUME NEW u \in Tabs, writers'[k] = {u} PROVE WrittenBy(u, k)'
    <3>1. u = t /\ writers[k] \subseteq {t}
      BY <1>6, <2>4
    <3>2. Store!Cut(k, list) = next
      BY <3>1
    <3>3. Store!Cut(k, recorded[k])' = next
      BY <1>6, <3>2 DEF Store!Cut, Store!LimitOf
    <3>4. ~refused'[k] => Store!Parsed(k)' = next
      BY <1>6, <1>9
    <3>. QED  BY <1>8, <3>1, <3>3, <3>4 DEF WrittenBy
  <2>. QED  BY <2>2, <2>3, <2>4 DEF StoreKept
<1>. QED  BY <1>3, <1>5, <1>10

LEMMA RecordKeeps ==
  ASSUME StoreKeeps, NEW t \in Tabs, NEW k \in Store!Keys, Store!Record(t, k)
  PROVE  StoreKeeps'
<1>. USE DEF StoreKeeps
<1>. DEFINE known == Store!Known(t, k)
            next == Store!Cut(k, <<entries'>> \o known)
            list == <<entries'>> \o recorded[k]
<1>1. /\ entries' \in Nat
      /\ recorded' = [recorded EXCEPT ![k] = list]
      /\ Store!Publish(t, k, next, next)
  BY DEF Store!Record, StoreTyped
<1>2. known \in Entered /\ recorded[k] \in Entered
  BY ParsedTyped DEF Store!Known, StoreTyped
<1>3. /\ <<entries'>> \o known \in Entered /\ list \in Entered
      /\ Store!Cut(k, <<entries'>> \o Store!Cut(k, recorded[k])) = Store!Cut(k, list)
  BY <1>1, <1>2, Cutting
<1>4. next \in Entered /\ Store!Cut(k, next) = next
  BY <1>3, Cutting
<1>5. ASSUME writers[k] \subseteq {t} PROVE next = Store!Cut(k, list)
  <2>1. CASE writers[k] = {t}
    <3>1. known = Store!Cut(k, recorded[k])
      BY <2>1 DEF StoreKept, WrittenBy
    <3>. QED  BY <1>3, <3>1
  <2>2. CASE writers[k] = {}
    <3>1. known = <<>> /\ recorded[k] = <<>>
      BY <2>2 DEF StoreKept, Unwritten
    <3>. QED  BY <3>1
  <2>. QED  BY <1>5, <2>1, <2>2
<1>. HIDE DEF next, list
<1>. QED  BY <1>1, <1>3, <1>4, <1>5, PublishKeeps

LEMMA ClearKeeps ==
  ASSUME StoreKeeps, NEW t \in Tabs, Store!clearActivity(t)
  PROVE  StoreKeeps'
<1>1. LogKey \in Store!Keys /\ <<>> \in Entered
  BY DEF Store!Keys, Entered
<1>2. Store!Cut(LogKey, <<>>) = <<>>
  BY <1>1, Cutting
<1>3. /\ Store!Publish(t, LogKey, <<>>, <<>>)
      /\ recorded' = [recorded EXCEPT ![LogKey] = <<>>]
      /\ entries' \in Nat
  BY DEF Store!clearActivity, StoreKeeps, StoreTyped
<1>. QED  BY <1>1, <1>2, <1>3, PublishKeeps

LEMMA ReloadKeeps ==
  ASSUME StoreKeeps, NEW t \in Tabs, Store!Reload(t)
  PROVE  StoreKeeps'
<1>. USE DEF StoreKeeps
<1>1. \A k \in Store!Keys : Store!Parsed(k) \in Entered
  BY ParsedTyped
<1>2. /\ cache' = [cache EXCEPT ![t] = [k \in Store!Keys |-> Unread]]
      /\ recorded' = [k \in Store!Keys |->
           IF t \in writers[k] /\ refused[k] THEN Store!Parsed(k) ELSE recorded[k]]
      /\ refused' = [k \in Store!Keys |-> refused[k] /\ t \notin writers[k]]
      /\ UNCHANGED <<disk, entries, writers>>
  BY DEF Store!Reload, Store!Keys
<1>3. StoreTyped'
  <2>1. cache' \in [Tabs -> [Store!Keys -> Entered \cup {Unread}]]
    BY <1>2 DEF StoreTyped
  <2>2. recorded' \in [Store!Keys -> Entered]
    BY <1>1, <1>2 DEF StoreTyped
  <2>3. refused' \in [Store!Keys -> BOOLEAN]
    BY <1>2 DEF StoreTyped
  <2>. QED  BY <1>2, <2>1, <2>2, <2>3 DEF StoreTyped
<1>4. \A k \in Store!Keys : Store!Parsed(k)' = Store!Parsed(k)
  BY <1>2 DEF Store!Parsed
<1>5. \A u \in Tabs, k \in Store!Keys :
        Store!Known(u, k)' = IF u = t THEN Store!Parsed(k) ELSE Store!Known(u, k)
  BY <1>2, <1>4 DEF Store!Known, StoreTyped
<1>6. ASSUME NEW k \in Store!Keys PROVE StoreKept(k)'
  <2>1. Store!Cut(k, Store!Parsed(k))' = Store!Parsed(k)'
    BY <1>4 DEF StoreKept, Store!Cut, Store!LimitOf
  <2>2. ASSUME writers'[k] = {} PROVE Unwritten(k)'
    <3>1. Unwritten(k)
      BY <1>2, <2>2 DEF StoreKept
    <3>2. recorded'[k] = <<>>
      BY <1>2, <3>1 DEF Unwritten
    <3>. QED  BY <1>4, <1>5, <3>1, <3>2 DEF Unwritten
  <2>3. ASSUME NEW u \in Tabs, writers'[k] = {u} PROVE WrittenBy(u, k)'
    <3>1. writers[k] = {u} /\ WrittenBy(u, k)
      BY <1>2, <2>3 DEF StoreKept
    <3>2. Store!Cut(k, Store!Parsed(k)) = Store!Parsed(k)
      BY DEF StoreKept
    <3>3. CASE u # t
      <4>1. recorded'[k] = recorded[k] /\ (refused'[k] <=> refused[k])
        BY <1>2, <3>1, <3>3
      <4>. QED  BY <1>4, <1>5, <3>1, <3>3, <4>1 DEF WrittenBy, Store!Cut, Store!LimitOf
    <3>4. CASE u = t
      <4>1. recorded'[k] = IF refused[k] THEN Store!Parsed(k) ELSE recorded[k]
        BY <1>2, <3>1, <3>4
      <4>2. Store!Cut(k, recorded'[k]) = Store!Parsed(k)
        BY <3>1, <3>2, <4>1 DEF WrittenBy
      <4>. QED  BY <1>4, <1>5, <3>4, <4>2 DEF WrittenBy, Store!Cut, Store!LimitOf
    <3>. QED  BY <3>3, <3>4
  <2>. QED  BY <2>1, <2>2, <2>3 DEF StoreKept
<1>. QED  BY <1>3, <1>6

\* The other application's storage is used in the same ways.
LEMMA PrivyStores == Privy!StoreNext => Store!Next
<1>. SUFFICES ASSUME NEW t \in Tabs,
                     \/ Privy!readSent(t) \/ Privy!recordSent(t)
                     \/ Privy!readTrustlineTx(t) \/ Privy!recordTrustlineTx(t)
                     \/ Privy!readLog(t) \/ Privy!recordActivity(t) \/ Privy!clearActivity(t)
                     \/ Privy!Store!Reload(t)
              PROVE  Store!Next
  BY DEF Privy!StoreNext
<1>1. SentKeys \subseteq Store!Keys /\ LineKeys \subseteq Store!Keys /\ LogKey \in Store!Keys
  BY DEF Store!Keys
<1>. USE DEF Store!Next
<1>2. \A k : Privy!Store!read(t, k) => Store!read(t, k)
  BY DEF Privy!Store!read, Store!read, Privy!Store!Parsed, Store!Parsed, Privy!Store!filter,
         Store!filter, Privy!Store!isEntry, Store!isEntry
<1>3. \A k : Privy!Store!Record(t, k) => Store!Record(t, k)
  BY DEF Privy!Store!Record, Store!Record, Privy!Store!Publish, Store!Publish,
         Privy!Store!Known, Store!Known, Privy!Store!Cut, Store!Cut, Privy!Store!LimitOf,
         Store!LimitOf, Privy!Store!Parsed, Store!Parsed, Privy!Store!filter,
         Store!filter, Privy!Store!isEntry, Store!isEntry
<1>4. CASE Privy!readSent(t) \/ Privy!readTrustlineTx(t) \/ Privy!readLog(t)
  BY <1>1, <1>2, <1>4 DEF Privy!readSent, Privy!readTrustlineTx, Privy!readLog
<1>5. CASE Privy!recordSent(t) \/ Privy!recordTrustlineTx(t) \/ Privy!recordActivity(t)
  BY <1>1, <1>3, <1>5 DEF Privy!recordSent, Privy!recordTrustlineTx, Privy!recordActivity,
     Privy!Store!recordSent, Privy!Store!recordTrustlineTx, Privy!Store!recordActivity,
     Store!recordSent, Store!recordTrustlineTx, Store!recordActivity
<1>6. CASE Privy!clearActivity(t)
  BY <1>6 DEF Privy!clearActivity, Privy!Store!clearActivity, Store!clearActivity,
     Privy!Store!Publish, Store!Publish
<1>7. CASE Privy!Store!Reload(t)
  BY <1>7 DEF Privy!Store!Reload, Store!Reload, Privy!Store!Keys, Store!Keys,
     Privy!Store!Parsed, Store!Parsed, Privy!Store!filter, Store!filter,
     Privy!Store!isEntry, Store!isEntry
<1>. QED  BY <1>4, <1>5, <1>6, <1>7

LEMMA StoreKeepsStep ==
  ASSUME StoreKeeps, [Next]_vars
  PROVE  StoreKeeps'
<1>1. CASE Store!Next
  <2>1. PICK t \in Tabs :
          \/ \E k \in Store!Keys :
               Store!read(t, k) \/ Store!recordSent(t, k) \/ Store!recordTrustlineTx(t, k)
          \/ Store!recordActivity(t) \/ Store!clearActivity(t) \/ Store!Reload(t)
    BY <1>1 DEF Store!Next
  <2>2. LogKey \in Store!Keys
    BY DEF Store!Keys
  <2>. QED  BY <2>1, <2>2, ReadKeeps, RecordKeeps, ClearKeeps, ReloadKeeps
            DEF Store!recordSent, Store!recordTrustlineTx, Store!recordActivity
<1>2. CASE UNCHANGED storeVars
  <2>1. StoreTyped'
    BY <1>2 DEF StoreKeeps, StoreTyped, storeVars
  <2>2. ASSUME NEW k \in Store!Keys PROVE StoreKept(k)'
    <3>1. \A t \in Tabs : Store!Known(t, k)' = Store!Known(t, k)
      BY <1>2 DEF Store!Known, Store!Parsed, storeVars
    <3>. QED  BY <1>2, <3>1, StoreUntouched DEF StoreKeeps, storeVars
  <2>. QED  BY <2>1, <2>2 DEF StoreKeeps
<1>. QED  BY <1>1, <1>2, PartsMove, PrivyStores

\* What one tab records under a key is what it shows and what a reload finds,
\* newest first and up to the limit, unless storage refused it, in either
\* application (sent.ts:93-106, trustline.ts:30-62, activity-log.ts:76-108).
THEOREM HistoryAlwaysSurvives == Spec => []HistorySurvives
<1>1. StoreKeeps => HistorySurvives
  BY DEF StoreKeeps, StoreKept, WrittenBy, HistorySurvives, Store!HistorySurvives
<1>. QED  BY <1>1, StoreKeepsInitially, StoreKeepsStep, PTL DEF Spec

-----------------------------------------------------------------------------
(***************************************************************************)
(* The verifiers of the reproducible build.                                *)
(***************************************************************************)

Verifies(s) == tool = "verify" /\ step = s

\* What each question of the verifier has settled for the ones after it.
BuildIsTraced ==
  /\ tool = "verify" /\ step \in {"fetch", "source", "hash", "rebuild", "compare"} =>
       anyImage \/ meta.bldimg \in Allowed
  /\ Verifies("rebuild") \/ Verifies("compare") => archive.content = meta.source
  /\ Verifies("compare") =>
       anyImage \/ rebuilt = [source |-> archive.content, image |-> meta.bldimg, meta |-> meta]
  /\ code = Build!Verified => step \in {"compare", "code"} /\ VerdictIsEarned

LEMMA BuildIsTracedInitially == Init => BuildIsTraced
  BY DEF Init, Build!Init, BuildIsTraced, Verifies, Build!Verified, Build!Running

LEMMA BuildStep ==
  ASSUME BuildIsTraced, [Next]_vars
  PROVE  BuildIsTraced'
<1> USE DEF Verifies, Build!Verified, Build!Running, Build!At, Build!Keep, Build!Goes,
            Build!Fails
<1>1. CASE Build!Deploy \/ Build!Upgrade
  BY <1>1 DEF Build!Deploy, Build!Upgrade, BuildIsTraced, VerdictIsEarned,
              Build!VerdictIsEarned
<1>2. CASE Build!Verify \/ Build!Check
  BY <1>2 DEF Build!Verify, Build!Check, BuildIsTraced
<1>3. CASE Build!InfoMeta
  BY <1>3 DEF Build!InfoMeta, BuildIsTraced
<1>4. CASE Build!Allow
  BY <1>4 DEF Build!Allow, Build!ImageAllowed, BuildIsTraced
<1>5. CASE Build!Fetch
  BY <1>5 DEF Build!Fetch, BuildIsTraced
<1>6. CASE Build!SourceArchive
  BY <1>6 DEF Build!SourceArchive, BuildIsTraced
<1>7. CASE Build!Unpack
  BY <1>7 DEF Build!Unpack, BuildIsTraced
<1>8. CASE Build!Rebuild
  BY <1>8 DEF Build!Rebuild, Build!Builds, Build!Recipe, BuildIsTraced
<1>9. CASE Build!Compare
  BY <1>9 DEF Build!Compare, BuildIsTraced, VerdictIsEarned, Build!VerdictIsEarned
<1>10. CASE Build!Instance
  BY <1>10 DEF Build!Instance, BuildIsTraced
<1>11. CASE Build!Code
  BY <1>11 DEF Build!Code, BuildIsTraced, VerdictIsEarned, Build!VerdictIsEarned
<1>12. CASE UNCHANGED buildVars
  BY <1>12 DEF buildVars, BuildIsTraced, VerdictIsEarned, Build!VerdictIsEarned
<1> QED
  BY <1>1, <1>2, <1>3, <1>4, <1>5, <1>6, <1>7, <1>8, <1>9, <1>10, <1>11, <1>12, PartsMove
     DEF Build!Next, Build!VerifySteps

\* A contract passes only if the Wasm last fetched was built from the source and
\* in the image its own metadata names, or the caller accepted any image, though
\* the contract may be upgraded between two questions about it (verify.sh:342,
\* check-deployed-hash.mjs:154).
THEOREM VerdictAlwaysEarned == Spec => []VerdictIsEarned
<1>1. BuildIsTraced => VerdictIsEarned
  BY DEF BuildIsTraced, VerdictIsEarned, Build!VerdictIsEarned
<1> QED BY <1>1, BuildIsTracedInitially, BuildStep, PTL DEF Spec


-----------------------------------------------------------------------------
(***************************************************************************)
(* The script that verifies the contribution library.                      *)
(***************************************************************************)

\* The script with the checks of a signer's contract or without.
Run(signer) == INSTANCE VerifyContribution WITH SignerContract <- signer

\* Its stages, one by one.
ScriptIs(s) ==
  /\ Len(s) \in 12 .. 13
  /\ s[1] = Script!Other("setup")
  /\ s[2] = Script!Call(5, FALSE, "pool", "missing-trustline")
  /\ s[3] = Script!Call(5, TRUE, "pool", "simulation-failed")
  /\ s[4] = Script!Other("addTrustline")
  /\ s[5] = Script!Call(5, FALSE, "pool", "insufficient-balance")
  /\ s[6] = Script!Other("payment")
  /\ s[7] = Script!Call(1, FALSE, "stranger", "missing-trustline")
  /\ s[8] = Script!Call(25, FALSE, "pool", "success")
  /\ s[9] = Script!Other("balances")
  /\ s[10] = Script!Call(5, TRUE, "pool", "success")
  /\ s[11] = Script!Call(999, TRUE, "pool", "simulation-failed")
  /\ s[12] \in {Script!Other("signer"), Script!Other("amounts")}
  /\ Len(s) = 13 => s[13] = Script!Other("amounts")

LEMMA StagesAre ==
  ASSUME NEW signer
  PROVE  ScriptIs(Run(signer)!Stages)
<1> DEFINE A == Script!Other("setup")
           B == Script!Call(5, FALSE, "pool", "missing-trustline")
           C == Script!Call(5, TRUE, "pool", "simulation-failed")
           D == Script!Other("addTrustline")
           E == Script!Call(5, FALSE, "pool", "insufficient-balance")
           F == Script!Other("payment")
           G == Script!Call(1, FALSE, "stranger", "missing-trustline")
           H == Script!Call(25, FALSE, "pool", "success")
           I == Script!Other("balances")
           J == Script!Call(5, TRUE, "pool", "success")
           K == Script!Call(999, TRUE, "pool", "simulation-failed")
           L == Script!Other("signer")
           M == Script!Other("amounts")
           s == Run(signer)!Stages
<1>1. signer => s = <<A>> \o <<B, C, D, E, F, G>> \o <<H, I, J, K>> \o <<L>> \o <<M>>
  BY DEF Run!Stages, Run!Setup, Run!FailureTaxonomy, Run!SuccessCase, Run!Signer,
         Run!AmountHandling, Run!Call, Run!Other, Script!Call, Script!Other
<1>2. ~signer => s = <<A>> \o <<B, C, D, E, F, G>> \o <<H, I, J, K>> \o <<>> \o <<M>>
  BY DEF Run!Stages, Run!Setup, Run!FailureTaxonomy, Run!SuccessCase, Run!Signer,
         Run!AmountHandling, Run!Call, Run!Other, Script!Call, Script!Other
<1> HIDE DEF A, B, C, D, E, F, G, H, I, J, K, L, M, s
<1>3. (<<A>> \o <<B, C, D, E, F, G>> \o <<H, I, J, K>> \o <<L>> \o <<M>>)[12] = L
  OBVIOUS
<1>4. CASE signer
  <2> s = <<A>> \o <<B, C, D, E, F, G>> \o <<H, I, J, K>> \o <<L>> \o <<M>>
    BY <1>1, <1>4
  <2>1. Len(s) = 13 /\ s[1] = A /\ s[2] = B /\ s[3] = C /\ s[4] = D /\ s[5] = E /\ s[6] = F
    OBVIOUS
  <2>2. s[7] = G /\ s[8] = H /\ s[9] = I
    OBVIOUS
  <2>3. s[10] = J /\ s[11] = K
    OBVIOUS
  <2>4. s[12] = L
    BY <1>3, Zenon
  <2>5. s[13] = M
    OBVIOUS
  <2>6. 13 \in 12 .. 13
    OBVIOUS
  <2> QED
    BY <2>1, <2>2, <2>3, <2>4, <2>5, <2>6, Zenon
       DEF ScriptIs, A, B, C, D, E, F, G, H, I, J, K, L, M, s
<1>5. CASE ~signer
  <2> s = <<A>> \o <<B, C, D, E, F, G>> \o <<H, I, J, K>> \o <<>> \o <<M>>
    BY <1>2, <1>5
  <2>1. Len(s) = 12 /\ s[1] = A /\ s[2] = B /\ s[3] = C /\ s[4] = D /\ s[5] = E /\ s[6] = F
    OBVIOUS
  <2>2. s[7] = G /\ s[8] = H /\ s[9] = I /\ s[10] = J /\ s[11] = K /\ s[12] = M
    OBVIOUS
  <2>3. 12 \in 12 .. 13 /\ 12 # 13
    OBVIOUS
  <2> QED
    BY <2>1, <2>2, <2>3, Zenon DEF ScriptIs, A, B, C, D, E, F, G, H, I, J, K, L, M, s
<1> QED BY <1>4, <1>5 DEF s

\* The books, as the stages passed so far leave them.
Books ==
  /\ stage \in 1 .. 14 /\ net \in [line : BOOLEAN, paid : BOOLEAN]
  /\ donor \in [line : BOOLEAN, held : Nat] /\ (donor.line <=> stage > 4)
  /\ donor.held = IF stage < 7 THEN 0 ELSE IF stage < 9 THEN 100
                  ELSE IF stage < 11 THEN 75 ELSE 70
  /\ pool = IF stage < 9 THEN 0 ELSE IF stage < 11 THEN 25 ELSE 30
  /\ stage > 6 => net.paid

\* The checks hold the library to what a right one would have answered.
PassesByTheBooks ==
  /\ failures \in 0 .. 1
  /\ exit = Script!Running => Books /\ (failures = 0 => wrong = {})
  /\ PassMeansRight

LEMMA PassesByTheBooksInitially == Init => PassesByTheBooks
  BY DEF Init, Script!Init, PassesByTheBooks, Books, Script!Running, PassMeansRight,
         Script!PassMeansRight

LEMMA PassesStep ==
  ASSUME NEW signer, PassesByTheBooks, Run(signer)!Next
  PROVE  PassesByTheBooks'
<1> DEFINE s == Run(signer)!Stages
           c == s[stage]
<1>1. ScriptIs(s)
  BY StagesAre
<1> HIDE DEF s
<1> USE DEF PassesByTheBooks, PassMeansRight, Script!PassMeansRight, Script!Running, Run!Running,
            Run!Throws, Run!Advances, Run!check, Run!Finds
<1>2. exit = 99 /\ Books /\ (failures = 0 => wrong = {})
  BY DEF Run!Next, Run!SetUp, Run!Contributes, Run!addTrustline, Run!Pays, Run!Balances,
         Run!ChecksAnswer, Run!Ends, Run!Interrupted, Run!At
<1>3. CASE Run(signer)!Interrupted
  BY <1>2, <1>3 DEF Run!Interrupted
<1>4. CASE Run(signer)!Ends
  BY <1>1, <1>2, <1>4 DEF Run!Ends, Books, ScriptIs, s
<1>5. ASSUME stage <= Len(s)
      PROVE  /\ stage = 1 => c = Script!Other("setup")
             /\ stage = 2 => c = Script!Call(5, FALSE, "pool", "missing-trustline")
             /\ stage = 3 => c = Script!Call(5, TRUE, "pool", "simulation-failed")
             /\ stage = 4 => c = Script!Other("addTrustline")
             /\ stage = 5 => c = Script!Call(5, FALSE, "pool", "insufficient-balance")
             /\ stage = 6 => c = Script!Other("payment")
             /\ stage = 7 => c = Script!Call(1, FALSE, "stranger", "missing-trustline")
             /\ stage = 8 => c = Script!Call(25, FALSE, "pool", "success")
             /\ stage = 9 => c = Script!Other("balances")
             /\ stage = 10 => c = Script!Call(5, TRUE, "pool", "success")
             /\ stage = 11 => c = Script!Call(999, TRUE, "pool", "simulation-failed")
             /\ stage > 11 => c \in {Script!Other("signer"), Script!Other("amounts")}
             /\ stage \in 1 .. 13
  <2> DEFINE last == Len(s)
  <2>1. /\ last \in 12 .. 13 /\ stage \in 1 .. 14 /\ stage <= last
        /\ last = 13 => s[13] = Script!Other("amounts")
    BY <1>1, <1>2, <1>5 DEF Books, ScriptIs
  <2> HIDE DEF last
  <2>2. stage \in 1 .. 13
    BY <2>1
  <2>3. stage > 11 => stage = 12 \/ (stage = 13 /\ last = 13)
    BY <2>1
  <2>4. stage > 11 => c \in {Script!Other("signer"), Script!Other("amounts")}
    BY <1>1, <2>1, <2>3 DEF ScriptIs
  <2>5. /\ stage = 1 => c = Script!Other("setup")
        /\ stage = 2 => c = Script!Call(5, FALSE, "pool", "missing-trustline")
        /\ stage = 3 => c = Script!Call(5, TRUE, "pool", "simulation-failed")
        /\ stage = 4 => c = Script!Other("addTrustline")
    BY <1>1 DEF ScriptIs
  <2>6. /\ stage = 5 => c = Script!Call(5, FALSE, "pool", "insufficient-balance")
        /\ stage = 6 => c = Script!Other("payment")
        /\ stage = 7 => c = Script!Call(1, FALSE, "stranger", "missing-trustline")
        /\ stage = 8 => c = Script!Call(25, FALSE, "pool", "success")
    BY <1>1 DEF ScriptIs
  <2>7. /\ stage = 9 => c = Script!Other("balances")
        /\ stage = 10 => c = Script!Call(5, TRUE, "pool", "success")
        /\ stage = 11 => c = Script!Call(999, TRUE, "pool", "simulation-failed")
    BY <1>1 DEF ScriptIs
  <2> HIDE DEF c
  <2> QED BY <2>2, <2>4, <2>5, <2>6, <2>7
<1> HIDE DEF c
<1>6. ASSUME stage <= Len(s)
      PROVE  /\ c.do = "setup" => stage = 1
             /\ c.do = "addTrustline" => stage = 4
             /\ c.do = "payment" => stage = 6
             /\ c.do = "balances" => stage = 9
             /\ c.do \in {"signer", "amounts"} => stage \in 12 .. 13
             /\ c.do = "contribute" =>
                  \/ stage = 2 /\ c = Script!Call(5, FALSE, "pool", "missing-trustline")
                  \/ stage = 3 /\ c = Script!Call(5, TRUE, "pool", "simulation-failed")
                  \/ stage = 5 /\ c = Script!Call(5, FALSE, "pool", "insufficient-balance")
                  \/ stage = 7 /\ c = Script!Call(1, FALSE, "stranger", "missing-trustline")
                  \/ stage = 8 /\ c = Script!Call(25, FALSE, "pool", "success")
                  \/ stage = 10 /\ c = Script!Call(5, TRUE, "pool", "success")
                  \/ stage = 11 /\ c = Script!Call(999, TRUE, "pool", "simulation-failed")
  BY <1>5, <1>6 DEF Script!Call, Script!Other
<1> DEFINE Next1 == stage' = stage + 1 /\ exit' = 99
           Found(ok, right) == (failures' = IF ok THEN failures ELSE 1)
                                 /\ (wrong' = IF right THEN wrong ELSE wrong \cup {stage})
\* What a stage does to the rest is enough if no wrong answer passes its check.
<1>a. ASSUME NEW ok \in BOOLEAN, NEW right \in BOOLEAN, ok => right, Found(ok, right)
      PROVE  failures' \in 0 .. 1 /\ (failures' = 0 => wrong' = {})
  BY <1>2, <1>a
<1> HIDE DEF Found
<1>b. Run(signer)!LibraryActs =>
        net' \in [line : BOOLEAN, paid : BOOLEAN] /\ net'.paid = net.paid
  BY <1>2 DEF Run!LibraryActs, Books
<1>7. CASE Run(signer)!SetUp
  BY <1>2, <1>6, <1>7 DEF Run!SetUp, Run!At, Books, c, s
<1>8. CASE Run(signer)!addTrustline
  <2>1. stage = 4 /\ stage' = 5 /\ UNCHANGED <<pool, failures, wrong, exit>>
    BY <1>6, <1>8 DEF Run!addTrustline, Run!At, c, s
  <2>2. donor' \in [line : BOOLEAN, held : Nat] /\ donor'.line /\ donor'.held = donor.held
    BY <1>2, <1>8 DEF Run!addTrustline, Books
  <2> QED BY <1>2, <1>8, <1>b, <2>1, <2>2 DEF Books, Run!addTrustline
<1>9. CASE Run(signer)!Pays
  <2>1. stage = 6 /\ stage' = 7 /\ UNCHANGED <<pool, failures, wrong, exit>>
    BY <1>6, <1>9 DEF Run!Pays, Run!At, c, s
  <2>2. /\ donor' \in [line : BOOLEAN, held : Nat]
        /\ donor'.line = donor.line /\ donor'.held = donor.held + 100
    BY <1>2, <1>9 DEF Run!Pays, Books
  <2>3. net' \in [line : BOOLEAN, paid : BOOLEAN] /\ net'.paid
    BY <1>2, <1>9 DEF Run!Pays, Books
  <2> QED BY <1>2, <2>1, <2>2, <2>3 DEF Books
<1>10. CASE Run(signer)!Balances
  <2>1. stage = 9 /\ Next1 /\ UNCHANGED <<donor, pool>>
    BY <1>2, <1>6, <1>10 DEF Run!Balances, Run!At, c, s
  <2>2. PICK left \in {0, 25, 75, 100}, has \in {0, 25, 75, 100} :
               Found(left = 75 /\ has = 25, left = donor.held /\ has = pool)
    BY <1>10 DEF Run!Balances, Found
  <2>3. donor.held = 75 /\ pool = 25
    BY <1>2, <2>1 DEF Books
  <2>4. failures' \in 0 .. 1 /\ (failures' = 0 => wrong' = {})
    BY <1>a, <2>2, <2>3
  <2> QED BY <1>2, <1>10, <1>b, <2>1, <2>4 DEF Books, Run!Balances
<1>11. CASE Run(signer)!ChecksAnswer("signer") \/ Run(signer)!ChecksAnswer("amounts")
  <2>1. stage \in 12 .. 13 /\ Next1 /\ UNCHANGED <<donor, pool, net>>
    BY <1>2, <1>6, <1>11 DEF Run!ChecksAnswer, Run!At, c, s
  <2>2. PICK ok \in BOOLEAN : Found(ok, ok)
    BY <1>11 DEF Run!ChecksAnswer, Found
  <2>3. failures' \in 0 .. 1 /\ (failures' = 0 => wrong' = {})
    BY <1>a, <2>2
  <2> QED BY <1>2, <2>1, <2>3 DEF Books
<1>12. CASE Run(signer)!Contributes
  <2>1. stage <= Len(s) /\ c.do = "contribute"
    BY <1>12 DEF Run!Contributes, Run!At, c, s
  <2>2. PICK answer \in Run(signer)!Answers :
          /\ wrong' = IF answer = Run(signer)!Right(c) THEN wrong ELSE wrong \cup {stage}
          /\ c.expect # "success" => Run(signer)!expectFailure(answer, c.expect)
          /\ c.expect = "success" /\ answer = "success" => Next1 /\ failures' = failures
          /\ c.expect = "success" /\ answer # "success" => exit' = 1 /\ failures' = failures
    BY <1>2, <1>12 DEF Run!Contributes, c, s
  <2>3. /\ Run(signer)!Right(c) = "success" =>
             /\ donor' = [donor EXCEPT !.held = @ - c.amount] /\ pool' = pool + c.amount
        /\ Run(signer)!Right(c) # "success" => UNCHANGED <<donor, pool>>
        /\ Run(signer)!LibraryActs
    BY <1>12 DEF Run!Contributes, c, s
  <2>4. c.expect = Run(signer)!Right(c)
    BY <1>2, <1>6, <2>1 DEF Run!Right, Script!Call, Books
  <2>5. CASE stage \in {2, 3, 5, 7, 11}
    <3>1. c.expect # "success"
      BY <1>6, <2>1, <2>5 DEF Script!Call
    <3>2. Next1 /\ UNCHANGED <<donor, pool>> /\ Found(answer = c.expect, answer = c.expect)
      BY <1>2, <2>2, <2>3, <2>4, <3>1 DEF Run!expectFailure, Run!ExpectsKind, Found
    <3>3. failures' \in 0 .. 1 /\ (failures' = 0 => wrong' = {})
      BY <1>a, <3>2
    <3> QED BY <1>2, <1>b, <2>3, <2>5, <3>2, <3>3 DEF Books
  <2>6. CASE stage \in {8, 10} /\ answer # "success"
    <3>1. exit' = 1 /\ failures' = failures
      BY <1>6, <2>1, <2>2, <2>6 DEF Script!Call
    <3> QED BY <3>1
  <2>7. CASE stage \in {8, 10} /\ answer = "success"
    <3>1. c.expect = "success" /\ (stage = 8 => c.amount = 25) /\ (stage = 10 => c.amount = 5)
      BY <1>6, <2>1, <2>7 DEF Script!Call
    <3>2. Next1 /\ UNCHANGED <<failures, wrong>>
      BY <2>2, <2>4, <2>7, <3>1
    <3>3. donor' = [donor EXCEPT !.held = @ - c.amount] /\ pool' = pool + c.amount
      BY <2>3, <2>4, <3>1
    <3>4. CASE stage = 8
      <4>1. /\ donor' \in [line : BOOLEAN, held : Nat] /\ donor'.line = donor.line
            /\ donor'.held = 75 /\ pool' = 25
        BY <1>2, <3>1, <3>3, <3>4 DEF Books
      <4> QED BY <1>2, <1>b, <2>3, <3>2, <3>4, <4>1 DEF Books
    <3>5. CASE stage = 10
      <4>1. /\ donor' \in [line : BOOLEAN, held : Nat] /\ donor'.line = donor.line
            /\ donor'.held = 70 /\ pool' = 30
        BY <1>2, <3>1, <3>3, <3>5 DEF Books
      <4> QED BY <1>2, <1>b, <2>3, <3>2, <3>5, <4>1 DEF Books
    <3> QED BY <2>7, <3>4, <3>5
  <2> QED BY <1>6, <2>1, <2>5, <2>6, <2>7
<1> QED BY <1>3, <1>4, <1>7, <1>8, <1>9, <1>10, <1>11, <1>12 DEF Run!Next

LEMMA PrivyRunsWithoutSigner == Privy!ScriptNext => Run(FALSE)!Next
<1>1. Privy!Script!Stages = Run(FALSE)!Stages
  BY DEF Privy!Script!Stages, Run!Stages, Privy!Script!Setup, Run!Setup,
         Privy!Script!FailureTaxonomy, Run!FailureTaxonomy, Privy!Script!SuccessCase,
         Run!SuccessCase, Privy!Script!Signer, Run!Signer, Privy!Script!AmountHandling,
         Run!AmountHandling, Privy!Script!Call, Run!Call, Privy!Script!Other, Run!Other
<1> USE <1>1 DEF Privy!Script!At, Run!At, Privy!Script!Running, Run!Running, Privy!Script!check,
                 Run!check, Privy!Script!Advances, Run!Advances, Privy!Script!Throws, Run!Throws,
                 Privy!Script!Finds, Run!Finds, Privy!Script!LibraryActs, Run!LibraryActs
<1>2. Privy!Script!Contributes => Run(FALSE)!Contributes
  BY DEF Privy!Script!Contributes, Run!Contributes, Privy!Script!Answers, Run!Answers,
         Privy!Script!Kinds, Run!Kinds, Privy!Script!Right, Run!Right,
         Privy!Script!expectFailure, Run!expectFailure, Privy!Script!ExpectsKind,
         Run!ExpectsKind
<1>3. Privy!setup => Run(FALSE)!SetUp \/ Run(FALSE)!addTrustline \/ Run(FALSE)!Pays
  BY DEF Privy!setup, Privy!Script!SetUp, Run!SetUp, Privy!Script!addTrustline,
         Run!addTrustline, Privy!Script!Pays, Run!Pays
<1>4. Privy!balanceChecks => Run(FALSE)!Balances
  BY DEF Privy!balanceChecks, Privy!Script!Balances, Run!Balances
<1>5. Privy!amountChecks => Run(FALSE)!ChecksAnswer("amounts")
  BY DEF Privy!amountChecks, Privy!Script!ChecksAnswer, Run!ChecksAnswer
<1>6. Privy!verdict => Run(FALSE)!Ends \/ Run(FALSE)!Interrupted
  BY DEF Privy!verdict, Privy!Script!Ends, Run!Ends, Privy!Script!Interrupted, Run!Interrupted
<1> QED
  BY <1>2, <1>3, <1>4, <1>5, <1>6, Zenon
     DEF Privy!ScriptNext, Privy!contributeChecks, Run!Next

LEMMA KitRunsWithSigner == Script!Next => Run(SignerContract)!Next
<1>1. Script!Stages = Run(SignerContract)!Stages
  BY DEF Script!Stages, Run!Stages, Script!Setup, Run!Setup, Script!FailureTaxonomy,
         Run!FailureTaxonomy, Script!SuccessCase, Run!SuccessCase, Script!Signer, Run!Signer,
         Script!AmountHandling, Run!AmountHandling, Script!Call, Run!Call, Script!Other,
         Run!Other
<1> USE <1>1 DEF Script!At, Run!At, Script!Running, Run!Running, Script!check, Run!check,
                 Script!Advances, Run!Advances, Script!Throws, Run!Throws,
                 Script!Finds, Run!Finds, Script!LibraryActs, Run!LibraryActs
<1>2. Script!Contributes => Run(SignerContract)!Contributes
  BY DEF Script!Contributes, Run!Contributes, Script!Answers, Run!Answers, Script!Kinds,
         Run!Kinds, Script!Right, Run!Right, Script!expectFailure, Run!expectFailure, Script!ExpectsKind, Run!ExpectsKind
<1>3. /\ Script!SetUp => Run(SignerContract)!SetUp
      /\ Script!addTrustline => Run(SignerContract)!addTrustline
      /\ Script!Pays => Run(SignerContract)!Pays
      /\ Script!Balances => Run(SignerContract)!Balances
  BY DEF Script!SetUp, Run!SetUp, Script!addTrustline, Run!addTrustline, Script!Pays, Run!Pays,
         Script!Balances, Run!Balances
<1>4. ASSUME NEW what \in {"signer", "amounts"}
      PROVE  Script!ChecksAnswer(what) => Run(SignerContract)!ChecksAnswer(what)
  BY DEF Script!ChecksAnswer, Run!ChecksAnswer
<1>5. /\ Script!Ends => Run(SignerContract)!Ends
      /\ Script!Interrupted => Run(SignerContract)!Interrupted
  BY DEF Script!Ends, Run!Ends, Script!Interrupted, Run!Interrupted
<1> QED BY <1>2, <1>3, <1>4, <1>5 DEF Script!Next, Run!Next

\* The script passes only a library that answered every call, and told both
\* balances, as a right one would have from the same start, and only if the donor
\* could be paid, whatever the library answers and does to the donor's account and
\* whichever stage the network fails (verify-contribution.mts:297-302, and the
\* Privy copy of it).
THEOREM PassAlwaysMeansRight == Spec => []PassMeansRight
<1>1. ASSUME PassesByTheBooks, [Next]_vars
      PROVE  PassesByTheBooks'
  <2>1. CASE Script!Next
    BY <1>1, <2>1, KitRunsWithSigner, PassesStep
  <2>2. CASE Privy!ScriptNext
    BY <1>1, <2>2, PrivyRunsWithoutSigner, PassesStep
  <2>3. CASE UNCHANGED scriptVars
    BY <1>1, <2>3 DEF scriptVars, PassesByTheBooks, Books, PassMeansRight, Script!PassMeansRight
  <2> QED BY <1>1, <2>1, <2>2, <2>3, PartsMove
<1>2. PassesByTheBooks => PassMeansRight
  BY DEF PassesByTheBooks
<1> QED BY <1>1, <1>2, PassesByTheBooksInitially, PTL DEF Spec
=============================================================================
