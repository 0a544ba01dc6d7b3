---------------------------- MODULE BrowserStore ----------------------------
(***************************************************************************)
(* What an onboarding application keeps in local storage: the history of   *)
(* an address (lib/ui/sent.ts), its opt-in transaction (lib/ui/trustline.ts) *)
(* and the activity log (lib/ui/activity-log.ts).  Each keeps a copy in    *)
(* memory, read from storage once per load, and writes the whole list back *)
(* at every change.  Storage is shared by the tabs of a browser; the       *)
(* copies are not.                                                         *)
(***************************************************************************)
EXTENDS Naturals, Sequences, FiniteSets

CONSTANTS
  Tabs,       \* tabs of one browser
  SentKeys,   \* histories, one per ledger and address
  LineKeys,   \* opt-in transactions, one per address
  LogKey,     \* the activity log
  Limit,      \* LIMIT of the histories and of the log
  Unread,     \* a list that was not read yet
  Junk,       \* something in storage that is not an entry
  MaxEntries  \* bound on the entries ever recorded

Keys == SentKeys \cup LineKeys \cup {LogKey}

VARIABLES
  disk,      \* what local storage holds
  cache,     \* what each tab has in memory of it
  entries,   \* how many entries have been recorded
  recorded,  \* what was recorded under each key since it was last cleared or lost
  writers,   \* the tabs that have written each key
  refused    \* whether storage has refused the last change of a key

vars == <<disk, cache, entries, recorded, writers, refused>>

Init ==
  /\ disk = [k \in Keys |-> IF k \in LineKeys THEN <<>> ELSE <<Junk>>]
  /\ cache = [t \in Tabs |-> [k \in Keys |-> Unread]]
  /\ entries = 0
  /\ recorded = [k \in Keys |-> <<>>]
  /\ writers = [k \in Keys |-> {}]
  /\ refused = [k \in Keys |-> FALSE]

isEntry(e) == e # Junk
filter(list) ==
  LET kept[n \in 0 .. Len(list)] ==
        IF n = 0 THEN <<>>
        ELSE IF isEntry(list[n]) THEN Append(kept[n - 1], list[n]) ELSE kept[n - 1]
  IN  kept[Len(list)]
Parsed(k) == filter(disk[k])

LimitOf(k) == IF k \in LineKeys THEN 1 ELSE Limit
Cut(k, s) == SubSeq(s, 1, IF Len(s) < LimitOf(k) THEN Len(s) ELSE LimitOf(k))

\* Fault: a list that was not read yet is taken for an empty one.
KnownInMemory(t, k) == IF cache[t][k] = Unread THEN <<>> ELSE cache[t][k]

Known(t, k) == IF cache[t][k] = Unread THEN Parsed(k) ELSE cache[t][k]

\* Rendering reads a list for the first time; storage that cannot be read, as
\* in a private window, passes for an empty list.
read(t, k) ==
  /\ cache[t][k] = Unread
  /\ \/ /\ cache' = [cache EXCEPT ![t][k] = Parsed(k)]
        /\ UNCHANGED <<recorded, refused>>
     \/ /\ cache' = [cache EXCEPT ![t][k] = <<>>]
        /\ recorded' = IF writers[k] \subseteq {t} THEN [recorded EXCEPT ![k] = <<>>]
                       ELSE recorded
        /\ refused' = [refused EXCEPT ![k] = @ \/ writers[k] \subseteq {t}]
  /\ UNCHANGED <<disk, entries, writers>>

\* A list is replaced in memory and, unless storage refuses, on disk.
Publish(t, k, next, onDisk) ==
  /\ cache' = [cache EXCEPT ![t][k] = next]
  /\ \E ok \in BOOLEAN :
       /\ disk' = IF ok THEN [disk EXCEPT ![k] = onDisk] ELSE disk
       /\ refused' = [refused EXCEPT ![k] = ~ok]
  /\ writers' = [writers EXCEPT ![k] = @ \cup {t}]

Record(t, k) ==
  LET next == Cut(k, <<entries'>> \o Known(t, k)) IN
  /\ entries < MaxEntries /\ entries' = entries + 1
  /\ Publish(t, k, next, next)
  /\ recorded' = [recorded EXCEPT ![k] = <<entries'>> \o @]

recordSent(t, k) == k \in SentKeys /\ Record(t, k)
recordTrustlineTx(t, k) == k \in LineKeys /\ Record(t, k)
recordActivity(t) == Record(t, LogKey)

clearActivity(t) ==
  /\ Publish(t, LogKey, <<>>, <<>>)
  /\ recorded' = [recorded EXCEPT ![LogKey] = <<>>]
  /\ UNCHANGED entries

\* A reload forgets what is in memory, and with it what storage refused.
Reload(t) ==
  /\ cache' = [cache EXCEPT ![t] = [k \in Keys |-> Unread]]
  /\ recorded' = [k \in Keys |->
       IF t \in writers[k] /\ refused[k] THEN Parsed(k) ELSE recorded[k]]
  /\ refused' = [k \in Keys |-> refused[k] /\ t \notin writers[k]]
  /\ UNCHANGED <<disk, entries, writers>>

Next == \E t \in Tabs :
  \/ \E k \in Keys : read(t, k) \/ recordSent(t, k) \/ recordTrustlineTx(t, k)
  \/ recordActivity(t) \/ clearActivity(t) \/ Reload(t)

Spec == Init /\ [][Next]_vars

-----------------------------------------------------------------------------
\* sent.ts:21-23, trustline.ts:5-12: what one tab records under a key it shows,
\* newest first, and a reload does not lose, up to the limit, unless storage
\* refused it; whatever else storage holds and the other keys are used for.
HistorySurvives ==
  \A t \in Tabs, k \in Keys : writers[k] = {t} =>
    /\ Known(t, k) = Cut(k, recorded[k])
    /\ ~refused[k] => Parsed(k) = Cut(k, recorded[k])
=============================================================================
