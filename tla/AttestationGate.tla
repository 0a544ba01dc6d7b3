--------------------------- MODULE AttestationGate ---------------------------
(***************************************************************************)
(* The attestation-gated pool of soroban-attestation-gate/contract:        *)
(* several deployments of the contract, the asset contracts they hold      *)
(* their money in, the ledger clock, and the authority keys that approve   *)
(* payouts off the chain.                                                  *)
(*                                                                         *)
(* An invocation of the contract is one step: the host runs it alone and a *)
(* refusal, a trap or a failed transfer reverts everything it wrote.  So a *)
(* call is an action whose guards are the checks of the code in the code's *)
(* order, each followed by the error its failure returns, and a refused    *)
(* call is a stuttering step.                                              *)
(***************************************************************************)
EXTENDS Integers, Sequences, FiniteSets

CONSTANTS
  Pools,          \* addresses of the deployments
  Accounts,       \* addresses of everyone else
  Assets,         \* asset contracts
  Keys,           \* ed25519 keys of the authorities
  Configs,        \* what a constructor may be called with
  Attestations,   \* the approvals the keys may be asked to sign
  Amounts,        \* the amounts a call may carry
  InitialBalance, \* what the accounts hold before the first ledger
  NetworkId,      \* the network the deployments live on
  NotDeployed,    \* the configuration of an address with no contract yet
  MayClawBack,    \* whether the issuer of an asset takes money back
  MaxI128,        \* the largest i128
  MaxU64,         \* the largest u64
  TtlThreshold,   \* TTL_THRESHOLD
  TtlExtendTo,    \* TTL_EXTEND_TO
  MinTtl,         \* the lifetime the network gives a new or restored entry
  MaxLedger,      \* bound on the ledger clock
  MaxSigned,      \* bound on the signatures ever made
  MaxEvents,      \* bound on the calls that succeed
  MaxSigs         \* bound on the signatures one call submits

Category == {"Direct", "Operations", "Reserve"}

Addresses == Accounts \cup Pools

Attestation ==
  [recipient : Addresses, asset : Assets, category : Category,
   amount : Int, sequence : 0 .. MaxU64, expiry_ledger : Nat,
   pool : Pools, network_id : STRING]

Config ==
  [admin : Accounts, authority : Seq(Keys), threshold : Nat,
   distributor : Accounts, asset : Assets]

\* The widths only matter as bounds, so any natural number may stand for one.
ASSUME WidthAssumption == MaxI128 \in Nat /\ MaxU64 \in Nat

ASSUME AmountAssumption ==
  /\ Amounts \subseteq Int
  /\ InitialBalance \in [Assets -> [Addresses -> Nat]]

ASSUME AttestationAssumption ==
  /\ Attestations \subseteq Attestation
  /\ NetworkId \in STRING

\* A key may be listed twice, as the constructor allows.
ASSUME ConfigAssumption == Configs \subseteq Config /\ NotDeployed \notin Configs

ASSUME TtlAssumption ==
  /\ MinTtl \in Nat /\ TtlThreshold \in Nat /\ TtlExtendTo \in Nat
  /\ TtlThreshold <= TtlExtendTo

ASSUME AddressAssumption == Accounts \cap Pools = {}

VARIABLES
  config,          \* DataKey::{Admin, Authority, Threshold, Distributor, Asset}
  buckets,         \* DataKey::Buckets
  distributionSeq, \* DataKey::DistributionSeq
  liveUntil,       \* last ledger at which the instance entry is live
  lastUse,         \* history: ledger of the last call that succeeded
  balance,         \* the balances the asset contracts keep
  ledger,          \* the sequence number of the current ledger
  signed,          \* the signatures that exist, as <<key, attestation>>
  events           \* the event stream

vars == <<config, buckets, distributionSeq, liveUntil, lastUse, balance,
          ledger, signed, events>>

poolVars == <<config, buckets, distributionSeq, liveUntil, lastUse, events>>

-----------------------------------------------------------------------------
(***************************************************************************)
(* The allocation split.                                                   *)
(***************************************************************************)

BpsOperations == 2000
BpsReserve    == 1000
BpsTotal      == 10000

\* The multiplication is checked: it is refused, never wrapped.
BpsFits(amount, bps) == amount * bps <= MaxI128

Bps(amount, bps) == (amount * bps) \div BpsTotal

SplitFits(amount) ==
  BpsFits(amount, BpsOperations) /\ BpsFits(amount, BpsReserve)

\* Direct takes the remainder.
Split(amount) ==
  LET operations == Bps(amount, BpsOperations)
      reserve    == Bps(amount, BpsReserve)
  IN  [c \in Category |->
         IF c = "Operations" THEN operations
         ELSE IF c = "Reserve" THEN reserve
         ELSE amount - operations - reserve]

Total(b) == b["Direct"] + b["Operations"] + b["Reserve"]

-----------------------------------------------------------------------------
(***************************************************************************)
(* The asset contract, as the pool calls it.                               *)
(***************************************************************************)

CanTransfer(asset, from, amount) == amount >= 0 /\ balance[asset][from] >= amount

AfterTransfer(asset, from, to, amount) ==
  [balance EXCEPT ![asset] =
     [h \in Addresses |->
        @[h] - (IF h = from THEN amount ELSE 0) + (IF h = to THEN amount ELSE 0)]]

-----------------------------------------------------------------------------
(***************************************************************************)
(* Parts of an invocation.                                                 *)
(***************************************************************************)

Deployed(p) == config[p] # NotDeployed

\* An archived instance has to be restored before it runs again.
Live(p) == ledger <= liveUntil[p]

ExtendTtlWhenExpired(until) ==            \* fault: no margin
  IF until < ledger THEN ledger + TtlExtendTo ELSE until

\* extend_ttl(TTL_THRESHOLD, TTL_EXTEND_TO) on an entry live until `until`.
ExtendTtl(until) ==
  IF until - ledger < TtlThreshold THEN ledger + TtlExtendTo ELSE until

AssertSolventNever(p, b, bal) == TRUE     \* fault: the check is dropped

\* assert_solvent over the buckets and the balances the call has written.
AssertSolvent(p, b, bal) == Total(b) <= bal[config[p].asset][p]

\* A signature verifies under the key that made it, over the bytes it was
\* made over, and under nothing else.
Ed25519Verify(key, message, signature) == signature = <<key, message>>

Indexes(sigs) == {sigs[i].index : i \in DOMAIN sigs}

\* fault: counts signatures instead of distinct indexes
VerifyQuorumByCount(authority, threshold, message, sigs) ==
  /\ \A i \in DOMAIN sigs :
       /\ sigs[i].index < Len(authority)
       /\ Ed25519Verify(authority[sigs[i].index + 1], message,
                        sigs[i].signature)
  /\ Len(sigs) >= threshold

VerifyQuorum(authority, threshold, message, sigs) ==
  /\ \A i \in DOMAIN sigs :
       /\ sigs[i].index < Len(authority)                     \* UnknownSigner
       /\ Ed25519Verify(authority[sigs[i].index + 1], message,
                        sigs[i].signature)                   \* traps
  /\ Cardinality(Indexes(sigs)) >= threshold                 \* ThresholdNotMet

\* What a submitter can put in `sigs`: any of the signatures that exist, under
\* any index, in any order, one of them twice if it likes.
SigLists(authority) ==
  UNION {[1 .. n -> [index : 0 .. Len(authority), signature : signed]] :
            n \in 0 .. MaxSigs}

ArgumentsMatch(a, recipient, category, amount) ==            \* AttestationMismatch
  a.recipient = recipient /\ a.category = category /\ a.amount = amount

RightDoorAnyPool(p, a) ==                 \* fault: `pool` is not compared
  a.network_id = NetworkId /\ a.asset = config[p].asset

RightDoor(p, a) ==
  /\ a.pool = p                                              \* WrongPool
  /\ a.network_id = NetworkId                                \* WrongNetwork
  /\ a.asset = config[p].asset                               \* WrongAsset

FreshAnySlot(p, a) ==                     \* fault: `sequence` is not compared
  a.expiry_ledger > ledger

FreshAnyLaterSlot(p, a) ==                \* fault: a slot may be skipped
  a.expiry_ledger > ledger /\ a.sequence >= distributionSeq[p]

Fresh(p, a) ==
  /\ a.expiry_ledger > ledger                                \* Expired
  /\ a.sequence = distributionSeq[p]                         \* SequenceMismatch

-----------------------------------------------------------------------------
(***************************************************************************)
(* The operations of the contract.                                         *)
(***************************************************************************)

ConstructorAnyThreshold(p, c) ==          \* fault: the threshold is not checked
  /\ ~Deployed(p)
  /\ config' = [config EXCEPT ![p] = c]
  /\ liveUntil' = [liveUntil EXCEPT ![p] = ExtendTtl(ledger + MinTtl)]
  /\ lastUse' = [lastUse EXCEPT ![p] = ledger]
  /\ UNCHANGED <<buckets, distributionSeq, balance, ledger, signed, events>>

Constructor(p, c) ==
  /\ ~Deployed(p)
  /\ c.threshold # 0 /\ c.threshold <= Len(c.authority)      \* InvalidThreshold
  /\ config' = [config EXCEPT ![p] = c]
  /\ distributionSeq' = [distributionSeq EXCEPT ![p] = 0]
  /\ buckets' = [buckets EXCEPT ![p] = [k \in Category |-> 0]]
  /\ liveUntil' = [liveUntil EXCEPT ![p] = ExtendTtl(ledger + MinTtl)]
  /\ lastUse' = [lastUse EXCEPT ![p] = ledger]
  /\ UNCHANGED <<balance, ledger, signed, events>>

Contribute(p, from, amount) ==
  LET asset    == config[p].asset
      parts    == Split(amount)
      credited == [c \in Category |-> buckets[p][c] + parts[c]]
      moved    == AfterTransfer(asset, from, p, amount)
  IN  /\ Deployed(p) /\ Live(p)
      /\ amount > 0                                          \* InvalidAmount
      /\ CanTransfer(asset, from, amount)                    \* traps
      /\ SplitFits(amount)                                   \* Overflow
      /\ \A c \in Category : credited[c] <= MaxI128          \* Overflow
      /\ Total(parts) = amount                               \* SplitMismatch
      /\ Total(credited) <= MaxI128                          \* Overflow
      /\ AssertSolvent(p, credited, moved)                   \* Insolvent
      /\ balance' = moved
      /\ buckets' = [buckets EXCEPT ![p] = credited]
      /\ liveUntil' = [liveUntil EXCEPT ![p] = ExtendTtl(@)]
      /\ lastUse' = [lastUse EXCEPT ![p] = ledger]
      /\ events' = Append(events,
           [type |-> "Contribution", pool |-> p, contributor |-> from,
            amount |-> amount, parts |-> parts, ledger |-> ledger])
      /\ UNCHANGED <<config, distributionSeq, ledger, signed>>

\* fault: every payout is drawn from the same bucket
DebitedDirect(p, category, amount) == [buckets[p] EXCEPT !["Direct"] = @ - amount]

Debited(p, category, amount) == [buckets[p] EXCEPT ![category] = @ - amount]

\* fault: the debit is computed but never stored
StoreDebitedNever(p, debited) == UNCHANGED buckets

StoreDebited(p, debited) == buckets' = [buckets EXCEPT ![p] = debited]

Distribute(p, caller, recipient, category, amount, a) ==
  LET asset   == config[p].asset
      debited == Debited(p, category, amount)
      moved   == AfterTransfer(asset, p, recipient, amount)
  IN  /\ Deployed(p) /\ Live(p)
      /\ caller = config[p].distributor                      \* require_auth
      /\ amount > 0                                          \* InvalidAmount
      /\ ArgumentsMatch(a, recipient, category, amount)
      /\ RightDoor(p, a)
      /\ Fresh(p, a)
      /\ \E sigs \in SigLists(config[p].authority) :
           VerifyQuorum(config[p].authority, config[p].threshold, a, sigs)
      /\ buckets[p][category] >= amount                      \* InsufficientBucket
      /\ distributionSeq[p] < MaxU64                         \* Overflow
      /\ CanTransfer(asset, p, amount)                       \* traps
      /\ AssertSolvent(p, debited, moved)                    \* Insolvent
      /\ StoreDebited(p, debited)
      /\ distributionSeq' = [distributionSeq EXCEPT ![p] = @ + 1]
      /\ liveUntil' = [liveUntil EXCEPT ![p] = ExtendTtl(@)]
      /\ lastUse' = [lastUse EXCEPT ![p] = ledger]
      /\ balance' = moved
      /\ events' = Append(events,
           [type |-> "Disbursement", pool |-> p, recipient |-> recipient,
            category |-> category, amount |-> amount,
            sequence |-> distributionSeq[p], attestation |-> a,
            ledger |-> ledger])
      /\ UNCHANGED <<config, ledger, signed>>

-----------------------------------------------------------------------------
(***************************************************************************)
(* The world around the contract.                                          *)
(***************************************************************************)

\* An authority key signs an approval, perhaps one that rivals another for the
\* same slot, perhaps before the pool it names is deployed.
Sign(k, a) ==
  /\ Cardinality(signed) < MaxSigned
  /\ signed' = signed \cup {<<k, a>>}
  /\ UNCHANGED <<poolVars, balance, ledger>>

\* Money sent straight to a pool's address, past the contract.
SendToPool(asset, from, p, amount) ==
  /\ amount > 0 /\ CanTransfer(asset, from, amount)
  /\ balance' = AfterTransfer(asset, from, p, amount)
  /\ UNCHANGED <<poolVars, ledger, signed>>

\* The issuer of an asset that allows it takes money back from a pool.
ClawBack(asset, p, amount) ==
  /\ MayClawBack
  /\ amount > 0 /\ CanTransfer(asset, p, amount)
  /\ balance' = [balance EXCEPT ![asset][p] = @ - amount]
  /\ UNCHANGED <<poolVars, ledger, signed>>

CloseLedger ==
  /\ ledger < MaxLedger
  /\ ledger' = ledger + 1
  /\ UNCHANGED <<poolVars, balance, signed>>

\* Anyone may restore an archived instance.
Restore(p) ==
  /\ Deployed(p) /\ ~Live(p)
  /\ liveUntil' = [liveUntil EXCEPT ![p] = ledger + MinTtl]
  /\ UNCHANGED <<config, buckets, distributionSeq, lastUse, balance, ledger,
                 signed, events>>

-----------------------------------------------------------------------------
Init ==
  /\ config = [p \in Pools |-> NotDeployed]
  /\ buckets = [p \in Pools |-> [c \in Category |-> 0]]
  /\ distributionSeq = [p \in Pools |-> 0]
  /\ liveUntil = [p \in Pools |-> 0]
  /\ lastUse = [p \in Pools |-> 0]
  /\ balance = InitialBalance
  /\ ledger = 0
  /\ signed = {}
  /\ events = <<>>

ContributeStep ==
  Len(events) < MaxEvents /\
  \E p \in Pools, from \in Accounts, amount \in Amounts :
     Contribute(p, from, amount)

DistributeStep ==
  Len(events) < MaxEvents /\
  \E p \in Pools, caller \in Accounts, recipient \in Addresses,
     category \in Category, amount \in Amounts, a \in Attestations :
       Distribute(p, caller, recipient, category, amount, a)

Next ==
  \/ \E p \in Pools, c \in Configs : Constructor(p, c)
  \/ ContributeStep
  \/ DistributeStep
  \/ \E k \in Keys, a \in Attestations : Sign(k, a)
  \/ \E asset \in Assets, from \in Accounts, p \in Pools, amount \in Amounts :
        SendToPool(asset, from, p, amount)
  \/ \E asset \in Assets, p \in Pools, amount \in Amounts :
        ClawBack(asset, p, amount)
  \/ CloseLedger
  \/ \E p \in Pools : Restore(p)

Spec == Init /\ [][Next]_vars

-----------------------------------------------------------------------------
(***************************************************************************)
(* Properties.                                                             *)
(***************************************************************************)

Contribution ==
  [type : {"Contribution"}, pool : Pools, contributor : Accounts,
   amount : Nat, parts : [Category -> Nat], ledger : Nat]

Disbursement ==
  [type : {"Disbursement"}, pool : Pools, recipient : Addresses,
   category : Category, amount : Nat, sequence : Nat,
   attestation : Attestations, ledger : Nat]

Payouts(p) ==
  {i \in DOMAIN events : events[i].type = "Disbursement" /\ events[i].pool = p}

\* Types: no bucket and no balance is ever negative, and every deployment has
\* a configuration its constructor accepted.
TypeOK ==
  /\ config \in [Pools -> Configs \cup {NotDeployed}]
  /\ \A p \in Pools : Deployed(p) =>
        config[p].threshold \in 1 .. Len(config[p].authority)
  /\ buckets \in [Pools -> [Category -> Nat]]
  /\ distributionSeq \in [Pools -> 0 .. MaxU64]
  /\ liveUntil \in [Pools -> Nat]
  /\ lastUse \in [Pools -> Nat]
  /\ balance \in [Assets -> [Addresses -> Nat]]
  /\ ledger \in Nat
  /\ signed \subseteq Keys \X Attestations
  /\ events \in Seq(Contribution \cup Disbursement)

\* While no issuer takes money back, the buckets of a pool never claim more
\* than the pool holds, whatever is contributed, paid out (to the pool itself
\* too) or sent past the contract (lib.rs, assert_solvent).
Solvent ==
  \A p \in Pools : Deployed(p) =>
     Total(buckets[p]) <= balance[config[p].asset][p]

\* The slot of the approval that the i-th event spent.
Slot(i) == events[i].attestation.sequence

\* Approvals are spent strictly in order and each slot pays once: the approvals
\* spent by a pool carry the numbers 0, 1, 2, ... with no gap and no repeat,
\* and the counter is the next one (lib.rs, distribute, freshness and replay).
SlotsPaidInOrder ==
  \A p \in Pools :
    /\ \A i \in Payouts(p) : Slot(i) < distributionSeq[p]
    /\ \A i, j \in Payouts(p) : i < j => Slot(i) < Slot(j)
    /\ \A n \in 0 .. distributionSeq[p] - 1 : \E i \in Payouts(p) : Slot(i) = n

\* What an event says of the buckets of p.
Replay(p, b, e) ==
  IF e.pool # p THEN b
  ELSE IF e.type = "Contribution"
       THEN [c \in Category |-> b[c] + e.parts[c]]
       ELSE [b EXCEPT ![e.category] = @ - e.amount]

\* The buckets of p to a reader with only the event stream.
Rebuilt(p) ==
  LET after[n \in 0 .. Len(events)] ==
        IF n = 0 THEN [c \in Category |-> 0] ELSE Replay(p, after[n - 1], events[n])
  IN  after[Len(events)]

\* A reader with only the event stream can rebuild the buckets of every pool
\* (types.rs, the comment on Contribution; README.md, Interface).
EventsRebuildBuckets == \A p \in Pools : Rebuilt(p) = buckets[p]

\* The seats of p's authority whose keys have signed a.
SeatsFor(p, a) ==
  {i \in DOMAIN config[p].authority : <<config[p].authority[i], a>> \in signed}

\* What a payout of p needs behind it: a quorum of the authority's seats over an
\* approval for this pool, this network and this asset.
Approved(p, a) ==
  /\ Deployed(p)
  /\ a.pool = p /\ a.network_id = NetworkId /\ a.asset = config[p].asset
  /\ Cardinality(SeatsFor(p, a)) >= config[p].threshold

\* The payout e is exactly what its approval says, and landed in time.
Backed(p, e) ==
  /\ Approved(p, e.attestation)
  /\ e.recipient = e.attestation.recipient
  /\ e.category = e.attestation.category
  /\ e.amount = e.attestation.amount
  /\ e.sequence = e.attestation.sequence
  /\ e.ledger < e.attestation.expiry_ledger

\* Every payout that ever left a pool is exactly what the keys of a quorum of its
\* seats signed: recipient, bucket, amount and slot, at a ledger before the
\* approval lapsed (lib.rs, distribute; attest.rs, verify_quorum).
PayoutsAreApproved ==
  \A p \in Pools : \A i \in Payouts(p) : Backed(p, events[i])

\* The keys of p that have signed a: fewer than the seats, when one has two.
SignersOf(p, a) == {config[p].authority[i] : i \in SeatsFor(p, a)}

\* "Require that at least `threshold` **distinct** authority keys signed" (attest.rs:9,
\* types.rs:103): no payout has fewer keys behind it than the threshold.  It holds if
\* NoKeyTwice does; a pool that gives one key two seats pays against one signature.
DistinctKeysSigned ==
  \A p \in Pools : \A i \in Payouts(p) :
    Cardinality(SignersOf(p, events[i].attestation)) >= config[p].threshold

\* What that takes of those who deploy.
NoKeyTwice ==
  \A c \in Configs : \A i, j \in DOMAIN c.authority :
     c.authority[i] = c.authority[j] => i = j

\* A pool is archived only after more than TTL_THRESHOLD quiet ledgers: every
\* call that succeeds, a payout as much as a contribution, leaves the instance
\* at least that long to live (lib.rs, the extend_ttl calls).
QuietBeforeArchived ==
  \A p \in Pools : Deployed(p) => liveUntil[p] >= lastUse[p] + TtlThreshold

\* A pool whose buckets change ends the step solvent.
ChangedIsCovered ==
  \A p \in Pools :
    buckets'[p] # buckets[p] =>
      Total(buckets'[p]) <= balance'[config'[p].asset][p]

\* Even when an issuer takes money back, no call succeeds on a pool without
\* leaving that pool solvent (lib.rs, assert_solvent after every change).
CallsLeavePoolSolvent == [][ChangedIsCovered]_vars

-----------------------------------------------------------------------------
(***************************************************************************)
(* The abstract specification this one implements.                         *)
(***************************************************************************)

Paid == {events[i].attestation :
           i \in {j \in DOMAIN events : events[j].type = "Disbursement"}}

Abstract == INSTANCE ApprovedPayouts WITH
  Approvals <- Attestations,
  pots      <- buckets,
  slot      <- distributionSeq,
  approved  <- {a \in Attestations : Approved(a.pool, a)},
  spent     <- Paid

\* A pool pays approvals one slot at a time, each at most once and only out of
\* the bucket it names, whatever keys, submitters, issuers and clock do: the
\* contract implements ApprovedPayouts (lib.rs, contribute and distribute).
ImplementsApprovedPayouts == Abstract!Spec
=============================================================================
