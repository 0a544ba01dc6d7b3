-------------------------------- MODULE Parts -------------------------------
(***************************************************************************)
(* The parts of the examples that no other part interacts with, side by    *)
(* side: a behaviour of this module is a behaviour of one of them, the     *)
(* others standing where they start.  Their state spaces add up.           *)
(***************************************************************************)
EXTENDS Integers, Sequences, FiniteSets

CONSTANTS
  Nobody, Accounts,                                                   \* KitSession
  MaxAttempts, PageLimit,                                             \* RpcClient
  Ids,                                                                \* ActionRunner
  Tabs, SentKeys, LineKeys, LogKey, Limit, Unread, Junk, MaxEntries,  \* BrowserStore
  NoState, LedgerSize, MaxLedger, Matching, RecentLimit,              \* ProofView
  Entries, Id, Began, MaxChanges,                                     \* MetaTrace
  Sources, Images, Allowed, Absent, NoWasm,                           \* VerifyBuild
  SignerContract                                                      \* VerifyContribution

ASSUME LimitAssumption == Limit \in Nat
ASSUME UnreadAssumption == Unread \notin Seq(Nat)
ASSUME JunkAssumption == Junk \notin Nat
ASSUME NoStateAssumption == NoState \notin [startLedger : Nat, cursor : Nat, filters : {"filters"}]

VARIABLES
  part,
  rpcAt, attempt, aborted, requests, outcome,
  state, stored, gaps, position, listener, at, view, asked, got, page,
  loading, imports, inits, remembered, active, network, restore, mount, ready,
  connection, job, returned,
  actionStatus, result, timer, mounted,
  disk, cache, entries, recorded, writers, refused,
  version, status, ledger, phases, open, restored, trace,
  contract, tool, anyImage, step, meta, deployed, archive, rebuilt, code,
  stage, donor, pool, net, failures, wrong, exit

Rpc == INSTANCE RpcClient WITH at <- rpcAt
View(host) == INSTANCE ProofView WITH Host <- host
ASSUME LedgersAssumption ==
  /\ LedgerSize \in Nat \ {0} /\ MaxLedger \in Nat /\ Matching \subseteq Nat
  /\ \A e \in Matching : View("serve")!LedgerOf(e) \in 1 .. MaxLedger
Kit == INSTANCE KitSession
Actions == INSTANCE ActionRunner WITH status <- actionStatus
Store == INSTANCE BrowserStore
Meta == INSTANCE MetaTrace
ASSUME BeganAssumption == Began \in [Entries -> Meta!Contents \cup {Meta!NoEntry}]
Build == INSTANCE VerifyBuild WITH exit <- code
Script == INSTANCE VerifyContribution
Privy == INSTANCE PrivyCopies WITH status <- actionStatus

rpcVars == <<rpcAt, attempt, aborted, requests, outcome>>
viewVars == <<state, stored, gaps, position, listener, at, view, asked, got, page>>
kitVars == <<loading, imports, inits, remembered, active, network, restore, mount, ready,
             connection, job, returned>>
actionVars == <<actionStatus, result, timer, mounted>>
storeVars == <<disk, cache, entries, recorded, writers, refused>>
metaVars == <<version, status, ledger, phases, open, restored, trace>>
buildVars == <<contract, tool, anyImage, step, meta, deployed, archive, rebuilt, code>>
scriptVars == <<stage, donor, pool, net, failures, wrong, exit>>
vars == <<part, rpcVars, viewVars, kitVars, actionVars, storeVars, metaVars, buildVars,
          scriptVars>>

Part(name, key) == [name |-> name, key |-> key]
Parts ==
  {Part(n, Nobody) : n \in {"rpc", "serve", "api", "kit", "actions", "privy actions", "meta",
                            "build", "script", "privy script"}}
    \cup {Part(n, k) : n \in {"store", "privy store"}, k \in Store!Keys}

Init ==
  /\ part \in Parts
  /\ Rpc!Init /\ IF part.name = "api" THEN View("api")!Init ELSE View("serve")!Init
  /\ Kit!Init /\ Actions!Init /\ Store!Init /\ Meta!Init /\ Build!Init /\ Script!Init

Else(mine, theirs) == part.name \notin mine => UNCHANGED theirs

OthersRest ==
  /\ Else({"rpc"}, rpcVars) /\ Else({"serve", "api"}, viewVars) /\ Else({"kit"}, kitVars)
  /\ Else({"actions", "privy actions"}, actionVars)
  /\ Else({"store", "privy store"}, storeVars)
  /\ Else({"meta"}, metaVars) /\ Else({"build"}, buildVars)
  /\ Else({"script", "privy script"}, scriptVars)

\* A part that keeps one list in storage leaves the others alone.
OneKey ==
  \A k \in Store!Keys \ {part.key} : \A t \in Tabs : writers'[k] = {} /\ cache'[t][k] = Unread

Next ==
  /\ UNCHANGED part
  /\ \/ part.name = "rpc" /\ Rpc!Next
     \/ part.name = "serve" /\ View("serve")!Next
     \/ part.name = "api" /\ View("api")!Next
     \/ part.name = "kit" /\ Kit!Next
     \/ part.name = "actions" /\ Actions!Next
     \/ part.name = "privy actions" /\ Privy!ActionsNext
     \/ part.name = "meta" /\ Meta!Next
     \/ part.name = "build" /\ Build!Next
     \/ part.name = "script" /\ Script!Next
     \/ part.name = "privy script" /\ Privy!ScriptNext
     \/ part.name = "store" /\ Store!Next /\ OneKey
     \/ part.name = "privy store" /\ Privy!StoreNext /\ OneKey
  /\ OthersRest

KitSteps(A) == part.name = "kit" /\ A /\ UNCHANGED part /\ OthersRest

Spec == Init /\ [][Next]_vars

\* An import settles, and a wallet that was asked for its address answers.
FairSpec == Spec /\ WF_vars(KitSteps(Kit!Imported)) /\ WF_vars(KitSteps(Kit!Restores))

-----------------------------------------------------------------------------
\* wallets-kit.ts:31: the Kit is initialised once in a load, however many
\* mounts and buttons await it at a time.
KitInitOnce == Kit!KitInitOnce

\* kit-session.tsx:28-31: the starting-up state settles, though the Kit may
\* fail to load, the wallet to answer and the first mount to be cancelled.
StartupEnds == part.name = "kit" /\ mount > 0 ~> ready \/ mount = 0

\* use-actions.ts:91-93: no timer, of this result or of an earlier one of the
\* button, takes a link away: it stays until the button is pressed again.
LinksStay == Actions!LinksStay

\* sent.ts:21-23, trustline.ts:5-12: what one tab records under a key it shows,
\* and a reload does not lose, up to the limit, unless storage refused it.
HistorySurvives == Store!HistorySurvives

\* rpc.ts:145-149: no call begins another wait after the second interrupt,
\* however the request it abandons ends.
AbortStopsWaiting == Rpc!AbortStopsWaiting

\* ingest.ts:309-313, page.ts:76-103: a page never presents a ledger that was
\* never read as one without events, though its range and its gaps are of
\* different moments; the rest of a ledger that a full page was cut in may be
\* missing from a page of serve.ts.
PagesAreHonest ==
  IF part.name = "api" THEN View("api")!PagesAreHonest ELSE View("serve")!PagesAreHonest

\* decode.ts:218-223: reading the steps in order tells the truth, at every row and
\* in the end, of every entry with an id of its own that was not restored,
\* however the network interleaved the changes.
TraceIsFaithful == Meta!TraceIsFaithful

\* verify.sh:342: a contract passes only if the Wasm last fetched was built from
\* the source and in the image its metadata names, though it may have been
\* upgraded since the metadata was read.
VerdictIsEarned == Build!VerdictIsEarned

\* verify-contribution.mts:297-302: the script passes only a library every
\* answer of which was the one called for at that moment.
PassMeansRight == Script!PassMeansRight
=============================================================================
