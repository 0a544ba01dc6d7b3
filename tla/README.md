# Verification of stellar-examples

TLA+ models, TLC runs and TLAPS proofs for the examples repository
`stellar-examples`. Paths are relative to `examples/`.

## 1. Inventory

The repository is a set of examples that share conventions but no runtime.
Those below hold logic with state.

### Attestation gate (`soroban-attestation-gate/contract/src`)

A Soroban contract: a pool of one asset, split into three buckets, that pays
out only against an approval signed by a quorum of authority keys.

* State: configuration (admin, authority keys, threshold, distributor, asset),
  bucket balances, the next distribution sequence, the lifetime of the instance
  entry. All in one instance entry.
* Operations: `__constructor` (once, at deployment), `contribute` (anyone),
  `distribute` (the distributor, with an attestation and signatures), views.
* Interactions: the asset contract's `transfer` and `balance`; the host's
  ed25519 verification, ledger clock, network id and state archival; readers of
  the event stream.
* Hard behaviours: approvals are made off the chain and may be submitted by
  anyone who holds the distributor's key, in any order, again, elsewhere, late,
  with any list of signatures; several deployments may share keys; the balance
  the buckets account for is kept by another contract whose issuer may claw it
  back; everything a failed call wrote must be undone.
* Correct when: each payout is what a quorum approved, for this pool, network
  and asset, before it lapsed; slots pay once and in order; buckets never claim
  more than the pool holds; the event stream rebuilds the buckets; a pool in use
  is not archived.

### Event indexer (`stellar-trace/src`)

`npm run ingest` pages through `getEvents` of an RPC server into SQLite.

* `ingest.ts`, `bin/ingest.ts`: the loop. State in memory: position (cursor or
  start ledger), page limit, the two interrupt signals. Operations: preflight,
  resume or begin, ask, commit a page, ask for less, skip past retention, sleep,
  stop.
* `db.ts`: the database. State: the `ingest_state` row, `events`, `ingest_gaps`.
  Operations, one transaction each: `begin`, `commitPage`, `recordGap`; queries.
* `toid.ts`: ids and cursors, a ledger packed above a position.
* `rpc.ts`: the JSON-RPC client, with retries, a timeout and an abort signal.
* `offline/replay.ts`, `offline/fixtures.ts`: a captured slice served with the
  paging rules of a server.
* `config.ts`, `filters.ts`, `network.ts`: validated configuration.
* `meta/*`, `decoders/*`: pure functions from XDR to a readable trace.
* `web/*`, `bin/serve.ts`, `bin/trace.ts`, `api/index.ts`: the proof view, which
  reads the database an indexer may be writing.
* Hard behaviours: the server keeps a rolling window that moves between two
  requests; a page may be cut by its limit in the middle of a ledger, or by a
  scan cap that is not reported; the process may be interrupted or killed
  anywhere; providers differ in how far they are; two processes may share one
  database; a big page may be refused.
* Correct when: the stored cursor never claims more than is stored; what could
  not be stored is recorded as a gap and nothing else is; a restart continues as
  if nothing had happened; the loop rests only at the tip; it catches up; an
  interrupt stops it.

### Proof view (`stellar-trace/src/web`, `api/index.ts`, `meta`)

* `web/server.ts`, `web/page.ts`: a request is answered from several queries of
  the database and one of a source of transactions. `api/index.ts` fills a
  database of its own from a fixture first and keeps the listener as a promise.
* `meta/decode.ts`: a transaction's steps, put together from the flat lists of
  ledger entry changes in its meta.
* Hard behaviours: an indexer of another process may commit between two queries
  of one page; a build may fail, an instance be recycled; changes of different
  entries are interleaved and one entry changes in several phases.
* Correct when: no page presents what was never seen as what did not happen;
  read in order, a trace tells the truth and ends in the ledger as it is.

### Wallet applications (`stellar-wallets-kit-onboarding`, `privy-stellar-onboarding`)

Two Next.js pages, alike but for the signer.

* `app/page.tsx`: session and address, balances shown, confirmation, ticks. Two
  effects follow the address; every button starts a job that closes over the
  address it was pressed with.
* `lib/stellar/contribute.ts`: opt in, opt out and contribute: read, simulate,
  sign, send, poll.
* `lib/ui`: the status of each button (`use-actions.ts`), and three lists in
  local storage with a copy in memory (`sent.ts`, `trustline.ts`,
  `activity-log.ts`).
* `lib/signing/wallets-kit.ts`, `lib/wallet/kit-session.tsx`,
  `lib/wallet/privy-session.tsx`: where a session comes from.
* `scripts/verify-contribution.mts`: the library against testnet, stage by stage.
* Hard behaviours: actions overlap with each other, with a change of account,
  with a logout and with a reload; the account moves while a transaction is
  being built; a transaction is dropped, delayed, or applied after its answer was
  lost; mounts and buttons await one import; tabs share local storage.
* Correct when: a press moves money at most once and success is said only of what
  was applied; history, ticks and balances are of the address they are shown
  for; no button, bar or start-up waits for ever; what is recorded survives.

### Reproducible build (`soroban-reproducible-build`)

`verify.sh` fetches a deployed contract, reads the metadata of its build, fetches
the source archive, rebuilds and compares, with one exit code for each way to
fail; `check-deployed-hash.mjs` compares the network with the last local build.
Hard: the contract may be upgraded between two requests, an archive may be
anything, an image may be hostile. Correct when a contract passes only if it is
what its metadata says. A counter contract serves as input.

### CI (`soroban-ci`, `.github/workflows`)

Declarative job definitions. Not modelled.

## 2. Modules

| Module | What it is |
| --- | --- |
| `AttestationGate` | the contract, its asset contracts, keys and clock |
| `ApprovedPayouts` | what a gated pool promises, abstractly |
| `AttestationGateProofs` | theorems about `AttestationGate` |
| `MCAttestationGate` | instances for TLC |
| `Toid` | event ids and cursors |
| `EventServer` | RPC servers as `getEvents` shows them |
| `TraceStore` | the database |
| `Ingest` | the indexer processes; extends `EventServer` and `TraceStore` |
| `EventHistory` | what an indexer promises, abstractly |
| `EventServerProofs` | theorems about `EventServer`: ids, ledgers and one page |
| `IngestProofs` | theorems about `Ingest` |
| `MCIngest`, `MCIngestHabits` | instances for TLC |
| `StellarNetwork` | accounts, trustlines, the queue of transactions, other devices |
| `SpendCall` | what a button that moves money promises, abstractly |
| `Contribute` | `contribute`, `addTrustline`, `removeTrustline` over `StellarNetwork` |
| `MCContribute` | properties and instances for TLC |
| `ContributeProofs` | theorems about `Contribute` |
| `WalletPage` | the wallets-kit page: session, effects, buttons, dialog, jobs |
| `PrivyPage` | the Privy page, as an instance of `WalletPage` with its own session |
| `WalletPageProofs` | theorems about `WalletPage`, and that both pages are one |
| `MCPages`, `MCWalletPage` | instances for TLC; what comments say wrongly |
| `RpcClient` | one JSON-RPC call with retries, waits and the abort signal |
| `ProofView` | the views and `api/index.ts` over the database of `TraceStore` |
| `MetaTrace` | the meta decoder, and the network that writes what it reads |
| `MCMetaTrace` | an instance for TLC |
| `KitSession` | the Kit's import, restore, connect, disconnect and signatures |
| `ActionRunner` | the buttons of `use-actions.ts` and their timers |
| `BrowserStore` | the lists in local storage, in several tabs |
| `VerifyBuild` | `verify.sh` and `check-deployed-hash.mjs` |
| `VerifyContribution` | the contribution script against any library |
| `PrivyCopies` | the files the Privy application shares with the other |
| `Parts` | the last nine side by side, and what each promises |
| `PartsProofs` | theorems about six of them |
| `ProofViewProofs` | theorems about `ProofView` and `MetaTrace` |
| `MCParts` | an instance for TLC |
| `Extremes` | lemmas about least and greatest numbers |

Definitions keep the source's names where they can. A definition whose comment
begins with *fault* is a plausible bug in the definition after it. Nothing uses
it; it is there to be put in that definition's place, and the property it should
break must then fail.

### AttestationGate

An invocation of the contract runs alone and is undone in full when it fails, so
a call is one action. Its conjuncts are the code's checks in the code's order,
and a refused call changes nothing. `Constructor`, `Contribute` and `Distribute`
are the three entry points; `Split`, `VerifyQuorum`, `RightDoor`, `Fresh`,
`AssertSolvent` and `ExtendTtl` are their parts. `Sign`, `SendToPool`,
`ClawBack`, `CloseLedger` and `Restore` are the world. A signature is the pair of
its key and its message: only a key's holder makes one, and `distribute` may be
given any list of existing signatures, with any index, valid or not. `lastUse` is
a history variable.

An i128 or u64 matters only where an operation on it is refused, so the widths
are constants and the guards compare with them. The XDR of an attestation is the
attestation itself: every field is in it. The SHA-256 in a disbursement is
replaced by what it commits to.

A deployment may list a key twice, which the constructor does not check. The gate
then asks for a quorum of *seats*, which is what `PayoutsAreApproved` and
`ApprovedPayouts` say: `SeatsFor` are the seats whose key signed. That these are
as many distinct keys (`DistinctKeysSigned`) is what the comments promise; it
holds where no key has two seats (`NoKeyTwice`) and not otherwise. `gate_core` deploys with distinct keys and with one
key in both seats.

### Ingest

Code between two awaits is one step. A request takes two: `AskForPage`,
`AskTooMuch` and `AskOutsideWindow` compute the server's answer from the window
it has then; `TakePage`, `AskForLess`, `SkipPastRetention` and `GiveUp` act on it
later, and in between the window moves, the process is interrupted or killed, the
request is lost, and another process writes the database. Each operation of
`TraceStore` is one transaction, so `Kill` may fall between any two of them and
never inside one; that a transaction is atomic and durable is SQLite's promise
(WAL, `synchronous = FULL`), not something checked here. What a process holds in
memory is reset when it stops.

`EventServer` takes its paging from `offline/replay.ts`, which is the
repository's own account of what a server does, and adds what a live server does
beyond it: the window rolls, and a page above `Capacity` may be declined. What a
server will ever hold is fixed at the start (`chain`); `CloseLedger` reveals it.
Servers may differ in network and in how far they are.

Abstracted: an event is its id; a filter set is its fingerprint; the passphrase
in `ingest_state` is always `NETWORK_PASSPHRASE`, so its check on resume cannot
fail and is left out; `cursor_ledger` is the ledger of `cursor`; the counters of
the summary, logging and the poll interval are left out. Retries inside the RPC
client (they are `RpcClient`) appear only as a request that answers or fails. A process that loses the
race to `begin` fails on the primary key, which changes nothing.

### Contribute, StellarNetwork

A call is a task with a program counter at its awaits: check, load, simulate,
sign, send or submit, poll. Between two of them the network applies, drops or
delays queued transactions, the account receives, spends elsewhere or is changed
by another call. Answers may be lost, and a submission may fail without reaching the
queue, be refused or be queued: `Send` and `Submit` may report a failure for any
reason, and `MustRefuse` is only what a server cannot accept. A transaction is what
it pays, its sequence number, what it was simulated and signed as, and the last
moment it may land (`until`, from `setTimeout(180)`); fees and XDR are left out.
`Timeout` stands for the 180 seconds and `now` for the network's clock, in moments
of any length. `setTimeout` counts from the device's clock, which here may be slow
but not fast: a fast one sets a later bound, and nothing in the code can know.
`SpendCall` is the abstract promise; `KeepsPromise` is the refinement.

### WalletPage, PrivyPage

A step is one render's worth of code between awaits. A job remembers the address
it was pressed with and writes, when it ends, into the page as it is then. What
moves money is abstracted to what `SpendCall` promises of it. The `Step1` to
`Step7` operators say when a button can be reached. `PrivyPage` names the Privy
page's own lines for the same operations and differs in its session. A reading is two requests: a failed one for USDC reads as no line
(`ReadingsOf`), and an effect whose other request failed records nothing
(`Unread`), as it does for an account nobody funded.

### ProofView

Each query of a page is a step and the indexer's commits fall between any two of
them. `Order` is the order in which `state()` asks. A page the indexer commits ends
at any event or at the end of any ledger (`PageEnds`), and the next one starts
there, or past that ledger if it has aged out meanwhile (`PageStarts`). While a
page is cut inside a ledger the banner names that ledger as indexed:
`PagesAreHonest` excuses such a ledger by name (`CutOff`); `RangeIsIndexed` does not,
and is not so. With `Host = "api"` the only indexer is
the listener's own build over a fixture, which goes on to the end of the last
ledger, and there nothing is excused. The indexer here runs without `--end-ledger`.

### MetaTrace

The network writes a transaction's phases: for each entry the state before, then
update or removal, with other entries' changes in between, or an entry restored from
the archive, then changed or not. The decoder pairs what it finds and passes over
what it does not name. An entry is the fields rendered and the ones that are not.
`TraceIsFaithful` lets a reader follow the rows from the ledger as it was, of every
entry that was not restored and has an id of its own (`HasOwnId`: the code cuts the
key of contract data off, so two entries may share one, and those may be open at
once). `RestoredIsTold` says the same of restored entries, and `meta_restored`
shows that it is not so. `pairChanges` keeps the code's map of
pending states by id; what it and the reader do with a list is written as a
recursive function of the list's beginnings, which can be proved about.

### KitSession, ActionRunner, BrowserStore, RpcClient

Each is the state machine of its file. The wallet behind the Kit switches
account or network, declines, or hands back something else; the browser reloads;
local storage refuses reads and writes; the server answers with any of the errors
the client tells apart.

### VerifyBuild, VerifyContribution

A Wasm is the source and image it was built from and the metadata it carries,
which may lie. A build by an allowed image is what it should be; any other image
may emit anything. `contribute`, `addTrustline` and `getUsdcBalance` are all the
library's under test: each may answer anything and do anything to the donor's
account, so the script's model keeps two books, `net` for what the network enforces
(the issuer's payment needs a trustline) and `donor` and `pool` for what a right
library would have left. An exit code of zero then shows that every answer was
right and that the donor could be paid. It does not show that money moved: the
balances are read through the library too.

## 3. Runs

| Run | Question | Bounds |
| --- | --- | --- |
| `gate_core` | payouts approved, ordered, covered; events rebuild buckets; implements `ApprovedPayouts` | one pool, two keys, good and bad thresholds, two rival approvals for a slot and a successor, few ledgers |
| `gate_adverse` | approvals for the wrong pool, network or asset; no call succeeds on a pool it leaves insolvent | two pools with the same keys, an approval that one contribution can pay and its three misdirections, an issuer that takes money back, four successful calls within one ledger (expiry and archiving are `gate_core`'s) |
| `ingest_core` | honest cursor, true and separate gaps, nothing foreign stored, rests and ends where it says, implements `EventHistory`; catches up; interrupts stop it | a window of two ledgers out of five, a scan cap of two, pages of one or two events, up to two events a ledger; a live server, a fixture, a mainnet server; two filter sets |
| `ingest_shared` | honest cursor with two writers | two processes, two providers, three ledgers; one interrupt each, while there are two ledgers; processes are symmetric |
| `contribute_core` | implements `SpendCall`; preflight foresees; fails only for what moved; lands in time; every call ends | two callers on one account, two transactions sent, two polls, two moments of which a transaction may land in one |
| `wallet_pages` | history and ticks are of the right address; no shown balance is burned unasked; one spend at a time; nothing stays pending | two wallets, two transactions, two logins; liveness with one wallet and the buttons that read or fund it |
| `parts` | nine properties of nine parts, one or two of each | two tabs and three keys of storage; two mounts; three attempts; three ledgers; three entries and four changes; two sources and two images |
| `ingest_cut_ledger`, `ingest_rewind`, `page_burn_unasked`, `page_log_after_logout`, `meta_restored` | five statements of comments that the code does not keep | as above; two entries |

Why these bounds: a window of two ledgers with five in all lets the cursor age
out twice, so that gaps meet; a cap of two leaves quiet stretches that need
several empty pages; pages of one and two events against ledgers of up to two put
the cursor inside a ledger, at its end and past the end ledger. For the gate, the
amounts 0, 1, 8, 10 and 12 (6 and 8 with two pools) make shares that truncate,
buckets that just suffice and ones that do not, and rivals for a slot are what
replay and reordering need. Two wallets are what it takes to answer one while
another is shown; two polls leave one to find a transaction and one to give up; a
second moment is one in which a transaction of the first is too late.
Three changes with a state before them are what it takes to interleave two
entries. Three attempts have a first, a middle and a last. Every bound is a named
constant. All runs allow deadlock: an indexer that has ended, on a chain that has
reached its bound, has nothing to do, and neither has a page out of transactions.

`MCIngestHabits`, `MCPages` and `Parts` give each behaviour a *habit* or a
*part*: the command lines and histories, the buttons and wallets, or the component
of that behaviour. It is chosen at the start and kept, so that state spaces add up
where they would multiply. What one habit keeps apart is not interleaved: an
indexer with an end ledger and one without (they rewind each other's cursor, see
below), and some buttons of a page: each is in some habit of `wallet_pages`, a
contribution is interleaved with the trustline switch (on the Privy page too), and
payments are in habits of their own with two wallets. `Parts` composes parts
that share no state in the code either.

`CursorIsHonest` excuses an event in one case, `CutOff`: it shared a ledger with
a stored event and has aged out. That excuse is what `ingest_cut_ledger` shows to
be needed.

Fairness. `HabitSpec` of the indexer is weak fairness of the steps of a running
process: the event loop runs what is ready, timers fire, and a request settles
because each attempt has a timeout and attempts are counted. Starting a process,
closing a ledger, a signal, a kill and a failure have none. `CatchesUp` therefore
speaks of an indexer that stays up, and needs the server to accept some page size
(`Capacity` is at least `MinPageLimit`). `contribute_core` is fair to the steps of
a call, not to the network. `wallet_pages` is fair in one habit, to jobs, effects
and answers, which settle one way or the other, and not to a wallet picker; that
habit has one wallet, for with two the bar may be left waiting (see below). Its
two liveness properties say `[]<>` where they could say `~>`, which for a thing that
comes back is the same and cheaper to check. `parts` is fair to the Kit's
import, which settles, and to a restore in progress; the wallet's answer there is
an assumption the code makes too, for it sets no timeout.

### What disagrees

* `ingest_cut_ledger`: the gap starts at `ledgerOf(cursor) + 1`, but a full page
  leaves the cursor inside a ledger, whose rest is then in no gap.
* `ingest_rewind`: resuming with `--end-ledger` behind the cursor moves it back;
  after the window moves, stored ledgers are recorded as never covered.
* `page_burn_unasked`: the dialog looks at the balance last read, the removal
  burns the one the network reports.
* `page_log_after_logout`: an action that ends after the logout writes into the
  cleared log.
* `meta_restored`: a restored entry has no row, and if it is then updated its row
  says there was nothing before.

Seen and not kept as a run, each of them reachable in a model here or in the code.
Where a formula is named it is in the module, and TLC refutes it:

* One key in two seats passes a threshold of two "distinct" keys:
  `DistinctKeysSigned`, added to `gate_core`.
* The banner says that ledgers are indexed up to the one of the cursor, of which a
  full page may have stored only the beginning: `RangeIsIndexed` of `ProofView`.
* A transaction no filter matched is said to be outside the indexed range, also when
  its ledger is inside: `OutsideIsOutside` of `ProofView`.
* A refresh started for one address replaces the balances read for the next one,
  which the effect's *cancelled* flag keeps the effect from doing; the bar then
  shimmers until something refreshes again: `NewerReadingStays` of `MCWalletPage`.
* With `--limit 0` every page counts as full: `--once` never stops, and a
  fixture's cursor passes events that were never delivered: with `PageLimit` at
  zero TLC finds `CursorIsHonest` violated. No run asks for zero, and the theorem
  assumes it away by name (`PagesHoldEvents`).
* A provider that is *behind* the cursor gives the same window error as one whose
  history aged out. `ingest` then records a gap that ends before it starts, and
  starts again from the provider's oldest ledger. The cursor stays honest
  (`ingest_shared`), and rows are inserted once.
* A transaction still queued when `contribute` stops polling is reported as
  "the network did not take it" and may still be applied, until its time bound
  passes (`LandsInTime`); a second press before that may pay twice.
* Two tabs overwrite each other's history.
* `restoreKit` restores an address without the network check that `connectKit`'s
  caller makes, so an address refused for its network is connected after a reload.
* The decoder's ids of contract data are cut off, so that two entries with long
  keys may share one and be told with each other's state; `TraceIsFaithful` speaks
  of entries with an id of their own.
* `verify-contribution.mts` reads the balances it checks through the library it
  checks, so a library that says it moved the money passes.
* `verify.sh` saves a downloaded archive under a name without an ending and then
  refuses it as an unsupported format.

## 4. Proofs

Every safety invariant, every action property and all three refinements that
the passing runs check are theorems, for all values of the constants: any number of
processes, callers, wallets, entries and events, any widths and bounds. Each rests on
the named `ASSUME`s of its modules, which TLC evaluates in the runs, and where a
theorem needs more its hypothesis is named below.

### The gate: `AttestationGateProofs`

| Theorem | From |
| --- | --- |
| `TypeCorrect` | `TypeStep`: each action keeps the types |
| `SolventAlways`, without clawback | `SolventStep`: a contribution adds to the buckets what it moved in (`SplitIsExact`), a payout takes out what it moves, and other transfers do not lower a pool's balance (`TransferSparesOthers`) |
| `SlotsAlwaysPaidInOrder` | `SlotsStep`: the sequence is the number of payouts so far |
| `AlwaysQuietBeforeArchived` | `QuietStep`: every call that succeeds leaves the threshold to live, and a restoration comes after it has passed |
| `CallsAlwaysLeavePoolSolvent` | the types, and that only a constructor, a contribution and a payout touch buckets |
| `PayoutsAlwaysApproved` | `QuorumOfSeats`: distinct indexes that verified are seats whose keys signed; `ApprovedForever`: signatures are never withdrawn |
| `DistinctKeysAlwaysSigned`, if `NoKeyTwice` | the last one: seats with distinct keys have as many keys |
| `Implementation` | `PayoutRefines` for a payout, `OtherStepsRefine` for the rest |
| `EventsAlwaysRebuildBuckets` | `ReadOn`: an event prolongs a reading; `OneReading`: a stream has one |

`PayoutsAreApproved` and `Solvent` are not inductive alone. The inductive
invariant adds the types, that a pool's payouts are numbered by its sequence and
that an address without a contract has neither buckets, slots nor events.

`EventsRebuildBuckets` is about a stream of any length. The induction over it is
that of the behaviour: the invariant says that *some* reading of the stream ends in
the buckets, which every event prolongs, and a least position at which two
readings would differ (`MinIsLeast`) shows that there is only one.

### The indexer: `EventServerProofs`, `IngestProofs`

`GetEventsIsRight` says what one page is: only matching events, in the window and
past the request, all of them up to the page's cursor, and all of the cursor's
ledger if the page is not full. It uses how ids are packed (`LedgerOfType` and its
like) and that a least or greatest of a finite set is one (`Extremes`).

| Theorem | Assumes | From |
| --- | --- | --- |
| `IngestTypeCorrect` | | each step keeps the types, a merged gap included |
| `StoredAlwaysGenuine` | | `Genuine`: a process that is up runs for the database's network and filters |
| `CursorAlwaysHonest` | `PagesHoldEvents` | `Honest` |
| `AlwaysRestsAtTheTip`, `AlwaysEndsAtTheEnd` | `PagesHoldEvents` | `Honest`, and that only a page in hand concludes a run |
| `GapsAlwaysApart` | `SoleProvider` | `NotAhead`: no position is beyond the provider's tip, so no gap is empty |
| `GapsAlwaysHoldNothing` | `SoleIndexer` | `InOrder` |
| `IngestImplementsEventHistory` | `SoleIndexer`, `PagesHoldEvents` | `Honest` and `InOrder`: storing a page delivers, other steps only put more out of reach |

`CursorIsHonest` says something of the stored cursor only; a page about to be
stored, or a position about to be asked from, could break it. `Honest` therefore
says the same of all three (`HonestUpTo`, `HonestPage`, `HonestFrom`), and that a
cursor stands on a stored event or at the end of a ledger (`Anchored`), without
which the rest of a half-read ledger would be lost unnoticed when it ages out. It
holds with any number of processes and providers. `InOrder` adds what one
indexer alone keeps: a request goes on from the stored cursor, what its page adds
is new and in no gap, and gaps have aged out of the window.

`PagesHoldEvents` is that the page limit is not zero or no server is a fixture (see
`--limit 0` above). `SoleProvider` is that all command lines that serve testnet
name one server, `SoleIndexer` that there is also one process and one end ledger:
the runs show what happens otherwise (`ingest_rewind`, and a provider that is
behind, above).

### The wallet applications: `ContributeProofs`, `WalletPageProofs`

| Theorem | From |
| --- | --- |
| `PreflightAlwaysForesees`, `AlwaysFailsOnlyIfMoved`, `AlwaysLandsInTime` | `Sound` |
| `CallsKeepTheirPromise` (`SpendCall`) | `Sound`, and that a step concerns one caller (`Alone`) |
| `RowsAlwaysReal`, `TickAlwaysEarned`, `AlwaysOneSpend` | `Earned` |
| `ShownBalanceAlwaysAskedAbout` | the types, and what a press and the dialog do |
| `KitPageIsOne`, `PrivyPageIsOne` | each step of a page is one of `PageNext` |

`Sound` says of each caller what it holds on to (`HoldsOn`: the transaction it sent
is its own, as signed, and success is said of one that landed), whose steps are
whose (`OwnSteps`) and that what was built fits what was read and must land within
the time allowed (`ReadsFit`); of the network, that what is queued is undecided; and
that no two callers hold one transaction (`OneEach`). The network and other devices
may do anything between two steps.

`Earned` adds to the three properties that a job's transaction is its own
(`JobsOwnTheirTx`) and that an effect has found only what is there: a row, or a
tick, is written from these two, when the page may have moved on to another
address. `OneSpends` is `OneSpendAtATime` with what keeps it: the button of a job
under way is pending and the dialog closed. All are proved of `PageSpec`, whose steps
are those of either page; two refinements carry them to `WalletPage` and to
`PrivyPage` (with `CreatesWallet = TRUE`, the only value that page has).

### The parts: `PartsProofs`, `ProofViewProofs`

| Theorem | Inductive invariant |
| --- | --- |
| `KitAlwaysInitOnce` | `KitLoads`: before anyone asked nothing was imported, and imports under way and done are at most one |
| `AbortAlwaysStopsWaiting` | none needed: each step after the interrupt |
| `LinksAlwaysStay` | `LinksHeld`: a link has no timer |
| `HistoryAlwaysSurvives` | `StoreKeeps`: what storage keeps is within the limit, and a key nobody has written is empty for every tab |
| `VerdictAlwaysEarned` | `BuildIsTraced`: what each question of the verifier has settled for those after it |
| `PassAlwaysMeansRight` | `PassesByTheBooks`: with no check failed, every answer so far was the right one for the donor's and the pool's money as a right library would have left them, stage by stage |
| `PagesAlwaysHonest` | `ViewKept`: the index is honest but for ledgers a page was cut in, what a request has found so far claims no more than that, and the api's listener is ready only after its fixture was read to the end; blocks of ids (`BlockBounds`, `BlockMonotone`, in `Extremes`) say which ledger an id is of |
| `TraceAlwaysFaithful` | `MetaKept`: of each entry not restored and with an id of its own, what a reader would be told of the changes so far is the ledger as it is, and the decoder holds its state while it is open |

Where the Privy application has a copy of a part, the theorem is also about the copy
(`PrivyStores`, `PrivyRunsWithoutSigner`).

`HistoryAlwaysSurvives` and `TraceAlwaysFaithful` are about recursive functions.
`Folding` proves that what can go on at each step of a list can go on to its end,
and `EndAlike` that it ends in one way, both from least counterexamples; `PairedOn`,
`StepsOn`, `ReadRowsOn` and `ReadStepsOn` then say what one more member of a list
does, which is all that the steps of the network need.

The assumptions on constants there: the limit of a list is a number; what is not read
yet, and what is not an entry, are no entries (`UnreadAssumption`,
`JunkAssumption`); matching ledgers are ledgers; no row is not a row
(`NoStateAssumption`); each entry begins as something or as nothing
(`BeganAssumption`).

### Only model-checked

Liveness, under the fairness of section 3: `CatchesUp`, `SignalStops`,
`CallsEnd`, `ActionsEnd`, `NeverShimmersForever`, `StartupEnds`. The prover has no
rules for fairness or `ENABLED`. The statements that the code does not keep
have counterexamples and no theorem, but for `DistinctKeysSigned`, which is one
under the hypothesis the code does not check.

## 5. Plan

1. Done: the gate; the indexer; the contribution path; both pages; the RPC client,
   proof view, decoder, sessions, storage and verifiers; a theorem for every
   safety property and all three refinements.
2. Next: `lib/signing/privy.ts`, with a signature that arrives after its session
   has gone; the decoder registry.

### Not modelled

CI definitions and the counter contract have no state of interest. Rendering,
wording and styling are not what could go wrong, and neither is how an entry, an
event or an amount is put into words (`meta/entries.ts` beyond its fields,
`decoders/*`, `lib/stellar/assets.ts`). Configuration and filter encoding are
validated constants of a run. Capturing a fixture is file I/O around the paging
that is modelled. `serve.ts` and `trace.ts` start once and print.
