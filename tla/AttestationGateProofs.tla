------------------------ MODULE AttestationGateProofs ------------------------
(***************************************************************************)
(* Theorems about AttestationGate, for every set of deployments, keys,     *)
(* configurations, approvals and amounts.                                  *)
(***************************************************************************)
EXTENDS AttestationGate, Extremes, SequenceTheorems

\* The split of an amount is exact, and no part of it is negative
\* (policy.rs, split: Direct takes the remainder).
LEMMA SplitIsExact ==
  ASSUME NEW amount \in Nat
  PROVE  /\ Split(amount) \in [Category -> Nat]
         /\ Total(Split(amount)) = amount
<1>1. /\ Bps(amount, BpsOperations) \in Nat
      /\ Bps(amount, BpsReserve) \in Nat
      /\ Bps(amount, BpsOperations) + Bps(amount, BpsReserve) <= amount
  BY DEF Bps, BpsOperations, BpsReserve, BpsTotal
<1>. QED  BY <1>1 DEF Split, Total, Category

\* A transfer of what the sender holds keeps every balance a natural number,
\* and raises or keeps the balance of anyone but the sender.
LEMMA TransferType ==
  ASSUME TypeOK, NEW asset \in Assets, NEW from \in Addresses,
         NEW to \in Addresses, NEW amount \in Int,
         CanTransfer(asset, from, amount)
  PROVE  /\ AfterTransfer(asset, from, to, amount)
              \in [Assets -> [Addresses -> Nat]]
         /\ \A x \in Assets, h \in Addresses :
              AfterTransfer(asset, from, to, amount)[x][h] =
                IF x = asset
                THEN balance[x][h] - (IF h = from THEN amount ELSE 0)
                                   + (IF h = to THEN amount ELSE 0)
                ELSE balance[x][h]
  BY DEF TypeOK, CanTransfer, AfterTransfer

\* A transfer takes from nobody but the sender.
LEMMA TransferSparesOthers ==
  ASSUME TypeOK, NEW asset \in Assets, NEW from \in Addresses,
         NEW to \in Addresses, NEW amount \in Int,
         CanTransfer(asset, from, amount),
         NEW x \in Assets, NEW h \in Addresses, h # from
  PROVE  AfterTransfer(asset, from, to, amount)[x][h] >= balance[x][h]
<1>1. balance[x][h] \in Nat
  BY DEF TypeOK
<1>2. amount \in Nat
  BY DEF CanTransfer
<1>3. AfterTransfer(asset, from, to, amount)[x][h] =
        IF x = asset
        THEN balance[x][h] - (IF h = from THEN amount ELSE 0)
                           + (IF h = to THEN amount ELSE 0)
        ELSE balance[x][h]
  BY TransferType
<1>4. CASE x = asset /\ h = to
  BY <1>1, <1>2, <1>3, <1>4
<1>5. CASE ~(x = asset /\ h = to)
  BY <1>1, <1>2, <1>3, <1>5
<1>. QED  BY <1>4, <1>5

\* An entry extended at this ledger never gets a shorter life.
LEMMA ExtendTtlType ==
  ASSUME NEW until \in Nat, ledger \in Nat
  PROVE  /\ ExtendTtl(until) \in Nat
         /\ ExtendTtl(until) >= ledger + TtlThreshold
  BY TtlAssumption DEF ExtendTtl

\* One step of every action keeps the types.
LEMMA TypeStep == TypeOK /\ [Next]_vars => TypeOK'
<1>. SUFFICES ASSUME TypeOK, [Next]_vars PROVE TypeOK'
  OBVIOUS
<1>. USE DEF TypeOK
<1>1. ASSUME NEW p \in Pools, NEW c \in Configs, Constructor(p, c)
      PROVE  TypeOK'
  <2>1. ledger + MinTtl \in Nat /\ c \in Config
    BY TtlAssumption, ConfigAssumption
  <2>2. ExtendTtl(ledger + MinTtl) \in Nat
    BY <2>1, ExtendTtlType
  <2>3. c.threshold \in 1 .. Len(c.authority)
    BY <1>1, <2>1 DEF Constructor, Config
  <2>4. config' \in [Pools -> Configs \cup {NotDeployed}]
    BY <1>1 DEF Constructor
  <2>5. \A q \in Pools : Deployed(q)' =>
          config'[q].threshold \in 1 .. Len(config'[q].authority)
    BY <1>1, <2>3 DEF Constructor, Deployed
  <2>6. distributionSeq' \in [Pools -> 0 .. MaxU64]
    BY <1>1, WidthAssumption DEF Constructor
  <2>. QED  BY <1>1, <2>2, <2>4, <2>5, <2>6 DEF Constructor
<1>2. CASE ContributeStep
  <2>. PICK p \in Pools, from \in Accounts, amount \in Amounts :
              Contribute(p, from, amount)
    BY <1>2 DEF ContributeStep
  <2>. DEFINE asset == config[p].asset
  <2>1. /\ amount \in Nat /\ p \in Addresses /\ from \in Addresses
        /\ asset \in Assets
    BY AmountAssumption, ConfigAssumption
       DEF Contribute, Addresses, Deployed, Config
  <2>2. Split(amount) \in [Category -> Nat]
    BY <2>1, SplitIsExact
  <2>3. [c \in Category |-> buckets[p][c] + Split(amount)[c]] \in [Category -> Nat]
    BY <2>2
  <2>4. buckets' \in [Pools -> [Category -> Nat]]
    BY <2>3 DEF Contribute
  <2>5. balance' \in [Assets -> [Addresses -> Nat]]
    BY <2>1, TransferType DEF Contribute
  <2>6. liveUntil' \in [Pools -> Nat]
    BY ExtendTtlType DEF Contribute
  <2>7. events' \in Seq(Contribution \cup Disbursement)
    <3>1. [type |-> "Contribution", pool |-> p, contributor |-> from,
           amount |-> amount, parts |-> Split(amount), ledger |-> ledger]
            \in Contribution
      BY <2>1, <2>2 DEF Contribution
    <3>. QED  BY <3>1 DEF Contribute
  <2>. QED
    BY <2>4, <2>5, <2>6, <2>7 DEF Contribute, Deployed
<1>3. CASE DistributeStep
  <2>. PICK p \in Pools, caller \in Accounts, recipient \in Addresses,
            category \in Category, amount \in Amounts, a \in Attestations :
              Distribute(p, caller, recipient, category, amount, a)
    BY <1>3 DEF DistributeStep
  <2>. DEFINE asset == config[p].asset
  <2>1. /\ amount \in Nat /\ p \in Addresses /\ asset \in Assets
    BY AmountAssumption, ConfigAssumption
       DEF Distribute, Addresses, Deployed, Config
  <2>2. [buckets[p] EXCEPT ![category] = @ - amount] \in [Category -> Nat]
    BY <2>1 DEF Distribute, Debited, StoreDebited
  <2>3. buckets' \in [Pools -> [Category -> Nat]]
    BY <2>2 DEF Distribute, Debited, StoreDebited
  <2>4. balance' \in [Assets -> [Addresses -> Nat]]
    <3>1. CanTransfer(asset, p, amount)
      BY DEF Distribute
    <3>2. AfterTransfer(asset, p, recipient, amount)
            \in [Assets -> [Addresses -> Nat]]
      BY <2>1, <3>1, TransferType
    <3>. QED  BY <3>2 DEF Distribute
  <2>5. liveUntil' \in [Pools -> Nat]
    BY ExtendTtlType DEF Distribute, Debited, StoreDebited
  <2>6. distributionSeq' \in [Pools -> 0 .. MaxU64]
    BY WidthAssumption DEF Distribute, Debited, StoreDebited
  <2>7. events' \in Seq(Contribution \cup Disbursement)
    <3>1. [type |-> "Disbursement", pool |-> p, recipient |-> recipient,
           category |-> category, amount |-> amount,
           sequence |-> distributionSeq[p], attestation |-> a,
           ledger |-> ledger] \in Disbursement
      BY <2>1, WidthAssumption DEF Disbursement
    <3>. QED  BY <3>1 DEF Distribute, Debited, StoreDebited
  <2>. QED
    BY <2>3, <2>4, <2>5, <2>6, <2>7 DEF Distribute, Debited, StoreDebited, Deployed
<1>4. ASSUME NEW k \in Keys, NEW a \in Attestations, Sign(k, a)
      PROVE  TypeOK'
  BY <1>4 DEF Sign, poolVars, Deployed
<1>5. ASSUME NEW asset \in Assets, NEW from \in Accounts, NEW p \in Pools,
             NEW amount \in Amounts, SendToPool(asset, from, p, amount)
      PROVE  TypeOK'
  <2>1. balance' \in [Assets -> [Addresses -> Nat]]
    BY <1>5, AmountAssumption, TransferType DEF SendToPool, Addresses
  <2>. QED  BY <1>5, <2>1 DEF SendToPool, poolVars, Deployed
<1>6. ASSUME NEW asset \in Assets, NEW p \in Pools, NEW amount \in Amounts,
             ClawBack(asset, p, amount)
      PROVE  TypeOK'
  <2>1. p \in Addresses /\ amount \in Nat
    BY <1>6, AmountAssumption DEF ClawBack, Addresses
  <2>2. balance[asset][p] - amount \in Nat
    BY <1>6, <2>1 DEF ClawBack, CanTransfer
  <2>3. [balance[asset] EXCEPT ![p] = @ - amount] \in [Addresses -> Nat]
    BY <2>1, <2>2
  <2>4. balance' \in [Assets -> [Addresses -> Nat]]
    BY <1>6, <2>3 DEF ClawBack
  <2>. QED  BY <1>6, <2>4 DEF ClawBack, poolVars, Deployed
<1>7. CASE CloseLedger
  BY <1>7 DEF CloseLedger, poolVars, Deployed
<1>8. ASSUME NEW p \in Pools, Restore(p) PROVE TypeOK'
  BY <1>8, TtlAssumption DEF Restore, Deployed
<1>9. CASE UNCHANGED vars
  BY <1>9 DEF vars, Deployed
<1>. QED
  BY <1>1, <1>2, <1>3, <1>4, <1>5, <1>6, <1>7, <1>8, <1>9 DEF Next

LEMMA TypeInit == Init => TypeOK
  BY WidthAssumption, AmountAssumption, ConfigAssumption
     DEF Init, TypeOK, Deployed

\* No balance and no bucket is ever negative, and the counter stays a u64
\* (lib.rs: the checked arithmetic and the guards of every operation).
THEOREM TypeCorrect == Spec => []TypeOK
  BY TypeInit, TypeStep, PTL DEF Spec

-----------------------------------------------------------------------------
(***************************************************************************)
(* Solvency.                                                               *)
(***************************************************************************)

\* No step but a claw-back makes a pool insolvent.
LEMMA SolventStep ==
  ASSUME ~MayClawBack
  PROVE  TypeOK /\ Solvent /\ [Next]_vars => Solvent'
<1>. SUFFICES ASSUME TypeOK, Solvent, [Next]_vars,
                     NEW q \in Pools, Deployed(q)'
              PROVE  Total(buckets[q])' <= balance'[config'[q].asset][q]
  BY DEF Solvent
<1>. DEFINE Goal == Total(buckets[q])' <= balance'[config'[q].asset][q]
<1>a. Deployed(q) =>
        /\ config[q].asset \in Assets
        /\ Total(buckets[q]) \in Nat
        /\ Total(buckets[q]) <= balance[config[q].asset][q]
  BY ConfigAssumption DEF TypeOK, Solvent, Deployed, Config, Total, Category
<1>b. q \in Addresses /\ q \notin Accounts
  BY AddressAssumption DEF Addresses
<1>1. ASSUME NEW p \in Pools, NEW c \in Configs, Constructor(p, c)
      PROVE  Goal
  <2>1. CASE q = p
    <3>1. Total(buckets'[q]) = 0
      BY <1>1, <2>1 DEF Constructor, Total, TypeOK, Category
    <3>2. config'[q].asset \in Assets
      BY <1>1, <2>1, ConfigAssumption DEF Constructor, TypeOK, Config
    <3>3. balance'[config'[q].asset][q] \in Nat
      BY <1>1, <1>b, <3>2 DEF Constructor, TypeOK
    <3>. QED  BY <3>1, <3>3 DEF Total
  <2>2. CASE q # p
    BY <1>1, <1>a, <2>2 DEF Constructor, Deployed, TypeOK, Total
  <2>. QED  BY <2>1, <2>2
<1>2. CASE ContributeStep
  <2>. PICK p \in Pools, from \in Accounts, amount \in Amounts :
              Contribute(p, from, amount)
    BY <1>2 DEF ContributeStep
  <2>1. /\ amount \in Nat /\ p \in Addresses /\ from \in Addresses
        /\ config[p].asset \in Assets
    BY AmountAssumption, ConfigAssumption
       DEF Contribute, Addresses, Deployed, Config, TypeOK
  <2>2. CASE q = p
    BY <2>2 DEF Contribute, AssertSolvent, Total, TypeOK
  <2>3. CASE q # p
    <3>1. /\ Deployed(q) /\ config'[q] = config[q] /\ buckets'[q] = buckets[q]
      BY <2>3 DEF Contribute, Deployed, TypeOK
    <3>2. /\ balance' = AfterTransfer(config[p].asset, from, p, amount)
          /\ CanTransfer(config[p].asset, from, amount)
      BY DEF Contribute
    <3>3. from # q
      BY <1>b
    <3>4. balance[config[q].asset][q] \in Nat
      BY <1>a, <1>b, <3>1 DEF TypeOK
    <3>5. balance'[config[q].asset][q] = balance[config[q].asset][q]
      BY <2>1, <2>3, <3>1, <3>2, <3>3, <3>4, <1>a, <1>b, TransferType
    <3>. QED  BY <3>1, <3>5, <1>a DEF Total
  <2>. QED  BY <2>2, <2>3
<1>3. CASE DistributeStep
  <2>. PICK p \in Pools, caller \in Accounts, recipient \in Addresses,
            category \in Category, amount \in Amounts, a \in Attestations :
              Distribute(p, caller, recipient, category, amount, a)
    BY <1>3 DEF DistributeStep
  <2>1. /\ amount \in Nat /\ p \in Addresses /\ config[p].asset \in Assets
    BY AmountAssumption, ConfigAssumption
       DEF Distribute, Debited, StoreDebited, Addresses, Deployed, Config, TypeOK
  <2>2. CASE q = p
    BY <2>2 DEF Distribute, Debited, StoreDebited, AssertSolvent, Total, TypeOK
  <2>3. CASE q # p
    <3>1. /\ Deployed(q) /\ config'[q] = config[q] /\ buckets'[q] = buckets[q]
      BY <2>3 DEF Distribute, Debited, StoreDebited, Deployed, TypeOK
    <3>2. /\ balance' = AfterTransfer(config[p].asset, p, recipient, amount)
          /\ CanTransfer(config[p].asset, p, amount)
      BY DEF Distribute, Debited, StoreDebited
    <3>3. balance[config[q].asset][q] \in Nat
      BY <1>a, <1>b, <3>1 DEF TypeOK
    <3>4. balance'[config[q].asset][q] >= balance[config[q].asset][q]
      BY <2>1, <2>3, <3>1, <3>2, <1>a, <1>b, TransferSparesOthers
    <3>5. balance'[config[q].asset][q] \in Nat
      BY <2>1, <3>1, <3>2, <1>a, <1>b, TransferType
    <3>. QED  BY <3>1, <3>3, <3>4, <3>5, <1>a DEF Total
  <2>. QED  BY <2>2, <2>3
<1>4. ASSUME NEW k \in Keys, NEW a \in Attestations, Sign(k, a)
      PROVE  Goal
  BY <1>4, <1>a DEF Sign, poolVars, Deployed, Total
<1>5. ASSUME NEW asset \in Assets, NEW from \in Accounts, NEW p \in Pools,
             NEW amount \in Amounts, SendToPool(asset, from, p, amount)
      PROVE  Goal
  <2>1. Deployed(q) /\ config' = config /\ buckets' = buckets
    BY <1>5 DEF SendToPool, poolVars, Deployed
  <2>2. amount \in Nat /\ from \in Addresses /\ p \in Addresses /\ from # q
    BY <1>5, <1>b, AmountAssumption DEF SendToPool, Addresses
  <2>3. /\ balance' = AfterTransfer(asset, from, p, amount)
        /\ CanTransfer(asset, from, amount)
    BY <1>5 DEF SendToPool
  <2>4. balance[config[q].asset][q] \in Nat
    BY <1>a, <1>b, <2>1 DEF TypeOK
  <2>5. balance'[config[q].asset][q] >= balance[config[q].asset][q]
    BY <2>1, <2>2, <2>3, <1>a, <1>b, TransferSparesOthers
  <2>6. balance'[config[q].asset][q] \in Nat
    BY <2>1, <2>2, <2>3, <1>a, <1>b, TransferType
  <2>. QED  BY <2>1, <2>4, <2>5, <2>6, <1>a DEF Total
<1>6. ASSUME NEW asset \in Assets, NEW p \in Pools, NEW amount \in Amounts,
             ClawBack(asset, p, amount)
      PROVE  Goal
  BY <1>6 DEF ClawBack
<1>7. CASE CloseLedger
  BY <1>7, <1>a DEF CloseLedger, poolVars, Deployed, Total
<1>8. ASSUME NEW p \in Pools, Restore(p) PROVE Goal
  BY <1>8, <1>a DEF Restore, Deployed, Total
<1>9. CASE UNCHANGED vars
  BY <1>9, <1>a DEF vars, Deployed, Total
<1>. QED
  BY <1>1, <1>2, <1>3, <1>4, <1>5, <1>6, <1>7, <1>8, <1>9 DEF Next

\* The buckets of a pool never claim more than it holds, as long as no issuer
\* takes money back (lib.rs, assert_solvent).
THEOREM SolventAlways ==
  ASSUME ~MayClawBack
  PROVE  Spec => []Solvent
<1>1. Init => Solvent
  BY DEF Init, Solvent, Deployed
<1>2. TypeOK /\ Solvent /\ [Next]_vars => Solvent'
  BY SolventStep
<1>. QED  BY <1>1, <1>2, TypeCorrect, PTL DEF Spec


\* Every successful call leaves TTL_THRESHOLD ledgers of life, the clock only
\* brings archival nearer, and a restoration comes after it.
LEMMA QuietStep ==
  ASSUME TypeOK, QuietBeforeArchived, [Next]_vars
  PROVE  QuietBeforeArchived'
<1>. DEFINE Renewed(p) == /\ lastUse' = [lastUse EXCEPT ![p] = ledger]
                          /\ liveUntil'[p] >= ledger + TtlThreshold
                          /\ \A r \in Pools \ {p} : liveUntil'[r] = liveUntil[r]
            Kept == lastUse' = lastUse /\ liveUntil' = liveUntil
<1>0. ledger \in Nat /\ TtlThreshold \in Nat /\ MinTtl \in Nat
  BY TtlAssumption DEF TypeOK
<1>a. ASSUME NEW p \in Pools, Renewed(p),
             \A r \in Pools \ {p} : config'[r] = config[r]
      PROVE  QuietBeforeArchived'
  BY <1>a DEF QuietBeforeArchived, Deployed, TypeOK
<1>b. ASSUME Kept, config' = config
      PROVE  QuietBeforeArchived'
  BY <1>b DEF QuietBeforeArchived, Deployed
<1>1. ASSUME NEW p \in Pools, NEW c \in Configs, Constructor(p, c)
      PROVE  QuietBeforeArchived'
  <2>1. ExtendTtl(ledger + MinTtl) >= ledger + TtlThreshold
    BY <1>0, ExtendTtlType
  <2>2. Renewed(p) /\ \A r \in Pools \ {p} : config'[r] = config[r]
    BY <1>1, <2>1 DEF Constructor, TypeOK
  <2>. QED  BY <1>a, <2>2
<1>2. CASE ContributeStep
  <2>. PICK p \in Pools, from \in Accounts, amount \in Amounts :
              Contribute(p, from, amount)
    BY <1>2 DEF ContributeStep
  <2>1. ExtendTtl(liveUntil[p]) >= ledger + TtlThreshold
    BY <1>0, ExtendTtlType DEF TypeOK
  <2>2. Renewed(p) /\ config' = config
    BY <2>1 DEF Contribute, TypeOK
  <2>. QED  BY <1>a, <2>2
<1>3. CASE DistributeStep
  <2>. PICK p \in Pools, caller \in Accounts, recipient \in Addresses,
            category \in Category, amount \in Amounts, a \in Attestations :
              Distribute(p, caller, recipient, category, amount, a)
    BY <1>3 DEF DistributeStep
  <2>1. ExtendTtl(liveUntil[p]) >= ledger + TtlThreshold
    BY <1>0, ExtendTtlType DEF TypeOK
  <2>2. Renewed(p) /\ config' = config
    BY <2>1 DEF Distribute, TypeOK
  <2>. QED  BY <1>a, <2>2
<1>4. ASSUME NEW p \in Pools, Restore(p) PROVE QuietBeforeArchived'
  <2>1. /\ ledger > liveUntil[p]
        /\ liveUntil' = [liveUntil EXCEPT ![p] = ledger + MinTtl]
        /\ config' = config /\ lastUse' = lastUse
    BY <1>4 DEF Restore, Live, TypeOK
  <2>2. ASSUME NEW q \in Pools, Deployed(q)
        PROVE  liveUntil'[q] >= lastUse[q] + TtlThreshold
    BY <1>0, <2>1, <2>2 DEF QuietBeforeArchived, TypeOK
  <2>. QED  BY <2>1, <2>2 DEF QuietBeforeArchived, Deployed
<1>5. CASE CloseLedger
  BY <1>5, <1>b DEF CloseLedger, poolVars
<1>6. ASSUME NEW k \in Keys, NEW a \in Attestations, Sign(k, a)
      PROVE  QuietBeforeArchived'
  BY <1>6, <1>b DEF Sign, poolVars
<1>7. ASSUME NEW asset \in Assets, NEW from \in Accounts, NEW p \in Pools,
             NEW amount \in Amounts, SendToPool(asset, from, p, amount)
      PROVE  QuietBeforeArchived'
  BY <1>7, <1>b DEF SendToPool, poolVars
<1>8. ASSUME NEW asset \in Assets, NEW p \in Pools, NEW amount \in Amounts,
             ClawBack(asset, p, amount)
      PROVE  QuietBeforeArchived'
  BY <1>8, <1>b DEF ClawBack, poolVars
<1>9. CASE UNCHANGED vars
  BY <1>9, <1>b DEF vars
<1>. QED
  BY <1>1, <1>2, <1>3, <1>4, <1>5, <1>6, <1>7, <1>8, <1>9 DEF Next

\* A pool is archived only after TTL_THRESHOLD quiet ledgers (lib.rs, the
\* extend_ttl calls).
THEOREM AlwaysQuietBeforeArchived == Spec => []QuietBeforeArchived
<1>1. Init => QuietBeforeArchived
  BY DEF Init, QuietBeforeArchived, Deployed
<1>2. TypeOK /\ QuietBeforeArchived /\ [Next]_vars => QuietBeforeArchived'
  BY QuietStep
<1>. QED  BY <1>1, <1>2, TypeCorrect, PTL DEF Spec

\* With or without clawback, the call that changes a pool's buckets leaves that
\* pool solvent (lib.rs, assert_solvent after every change).
THEOREM CallsAlwaysLeavePoolSolvent == Spec => CallsLeavePoolSolvent
<1>1. ASSUME TypeOK, [Next]_vars, NEW q \in Pools, buckets'[q] # buckets[q]
      PROVE  Total(buckets'[q]) <= balance'[config'[q].asset][q]
  <2>1. ASSUME NEW p \in Pools, NEW c \in Configs, Constructor(p, c)
        PROVE  Total(buckets'[q]) <= balance'[config'[q].asset][q]
    <3>1. buckets' = [buckets EXCEPT ![p] = [k \in Category |-> 0]]
      BY <2>1 DEF Constructor
    <3>2. q = p /\ buckets'[q] = [k \in Category |-> 0]
      BY <1>1, <3>1 DEF TypeOK
    <3>3. Total(buckets'[q]) = 0
      BY <3>2 DEF Total, Category
    <3>4. config'[q] = c /\ c \in Config
      BY <1>1, <2>1, <3>2, ConfigAssumption DEF Constructor, TypeOK
    <3>5. config'[q].asset \in Assets /\ q \in Addresses
      BY <3>4 DEF Config, Addresses
    <3>6. balance'[config'[q].asset][q] \in Nat
      BY <1>1, <2>1, <3>5 DEF Constructor, TypeOK
    <3>. QED  BY <3>3, <3>6
  <2>2. ASSUME NEW p \in Pools, NEW from \in Accounts, NEW amount \in Amounts,
               Contribute(p, from, amount)
        PROVE  Total(buckets'[q]) <= balance'[config'[q].asset][q]
    BY <1>1, <2>2 DEF Contribute, AssertSolvent, Total, TypeOK
  <2>3. ASSUME NEW p \in Pools, NEW caller \in Accounts,
               NEW recipient \in Addresses, NEW category \in Category,
               NEW amount \in Amounts, NEW a \in Attestations,
               Distribute(p, caller, recipient, category, amount, a)
        PROVE  Total(buckets'[q]) <= balance'[config'[q].asset][q]
    BY <1>1, <2>3
       DEF Distribute, Debited, StoreDebited, AssertSolvent, Total, TypeOK
  <2>4. ContributeStep \/ DistributeStep
           \/ \E p \in Pools, c \in Configs : Constructor(p, c)
    BY <1>1 DEF Next, vars, poolVars, Sign, SendToPool, ClawBack, CloseLedger,
                Restore
  <2>. QED  BY <2>1, <2>2, <2>3, <2>4 DEF ContributeStep, DistributeStep
<1>2. TypeOK /\ [Next]_vars => [ChangedIsCovered]_vars
  BY <1>1 DEF ChangedIsCovered
<1>. QED  BY <1>2, TypeCorrect, PTL DEF Spec, CallsLeavePoolSolvent

-----------------------------------------------------------------------------
(***************************************************************************)
(* Replay, and the quorum behind every payout.                             *)
(***************************************************************************)

\* What an event appended to the stream adds to the payouts of a pool.
LEMMA EventAppended ==
  ASSUME TypeOK, NEW e \in Contribution \cup Disbursement,
         events' = Append(events, e)
  PROVE  /\ Len(events) \in Nat
         /\ events'[Len(events) + 1] = e
         /\ \A i \in DOMAIN events : events'[i] = events[i]
         /\ DOMAIN events = 1 .. Len(events)
         /\ DOMAIN events' = 1 .. Len(events) + 1
         /\ \A q \in Pools :
              Payouts(q)' =
                Payouts(q) \cup (IF e.type = "Disbursement" /\ e.pool = q
                                 THEN {Len(events) + 1} ELSE {})
<1>1. events \in Seq(Contribution \cup Disbursement)
  BY DEF TypeOK
<1>2. Append(events, e) \in Seq(Contribution \cup Disbursement)
  BY <1>1, AppendProperties
<1>3. DOMAIN events = 1 .. Len(events) /\ Len(events) \in Nat
  BY <1>1, LenProperties
<1>4. DOMAIN events' = 1 .. Len(events) + 1
  BY <1>1, <1>2, AppendProperties, LenProperties
<1>5. /\ events'[Len(events) + 1] = e
      /\ \A i \in 1 .. Len(events) : events'[i] = events[i]
  BY <1>1, AppendProperties
<1>6. ASSUME NEW q \in Pools
      PROVE  Payouts(q)' =
               Payouts(q) \cup (IF e.type = "Disbursement" /\ e.pool = q
                                THEN {Len(events) + 1} ELSE {})
  <2>1. \A i \in 1 .. Len(events) + 1 :
          i \in 1 .. Len(events) \/ i = Len(events) + 1
    BY <1>3
  <2>2. 1 .. Len(events) \subseteq 1 .. Len(events) + 1
    BY <1>3
  <2>3. Len(events) + 1 \in 1 .. Len(events) + 1
    BY <1>3
  <2>. QED  BY <1>3, <1>4, <1>5, <2>1, <2>2, <2>3 DEF Payouts
<1>. QED  BY <1>3, <1>4, <1>5, <1>6

\* The seats for an approval are finitely many.
LEMMA FiniteSeats ==
  ASSUME TypeOK, NEW p \in Pools, Deployed(p), NEW a
  PROVE  /\ config[p].authority \in Seq(Keys)
         /\ Len(config[p].authority) \in Nat
         /\ DOMAIN config[p].authority = 1 .. Len(config[p].authority)
         /\ IsFiniteSet(SeatsFor(p, a))
<1>1. config[p].authority \in Seq(Keys)
  BY ConfigAssumption DEF TypeOK, Deployed, Config
<1>2. /\ Len(config[p].authority) \in Nat
      /\ DOMAIN config[p].authority = 1 .. Len(config[p].authority)
  BY <1>1, LenProperties
<1>3. IsFiniteSet(1 .. Len(config[p].authority))
  BY <1>2, FS_Interval
<1>4. SeatsFor(p, a) \subseteq 1 .. Len(config[p].authority)
  BY <1>2 DEF SeatsFor
<1>. QED  BY <1>1, <1>2, <1>3, <1>4, FS_Subset

\* A list of signatures that passes verify_quorum names a quorum of seats, each
\* of whose keys has signed.
LEMMA QuorumOfSeats ==
  ASSUME TypeOK, NEW p \in Pools, Deployed(p), NEW a \in Attestations,
         NEW sigs \in SigLists(config[p].authority),
         VerifyQuorum(config[p].authority, config[p].threshold, a, sigs)
  PROVE  Cardinality(SeatsFor(p, a)) >= config[p].threshold
<1>. DEFINE authority == config[p].authority
            I == Indexes(sigs)
            Q == {i + 1 : i \in I}
            f == [i \in I |-> i + 1]
<1>1. /\ Len(authority) \in Nat /\ DOMAIN authority = 1 .. Len(authority)
      /\ IsFiniteSet(SeatsFor(p, a))
  BY FiniteSeats
<1>2. \A i \in DOMAIN sigs :
        /\ sigs[i].index \in Nat
        /\ sigs[i].signature \in signed
  <2>. PICK n \in 0 .. MaxSigs :
         sigs \in [1 .. n -> [index : 0 .. Len(authority), signature : signed]]
    BY DEF SigLists
  <2>. QED  BY <1>1
<1>3. \A i \in I : i \in 0 .. Len(authority) - 1 /\ i + 1 \in DOMAIN authority
  BY <1>1, <1>2 DEF VerifyQuorum, Indexes
<1>4. IsFiniteSet(I)
  <2>1. IsFiniteSet(0 .. Len(authority) - 1)
    BY <1>1, FS_Interval
  <2>. QED  BY <2>1, <1>3, FS_Subset
<1>5. f \in Bijection(I, Q)
  <2>1. \A i, j \in I : f[i] = f[j] => i = j
    BY <1>3
  <2>2. f \in [I -> Q]
    OBVIOUS
  <2>3. \A k \in Q : \E i \in I : f[i] = k
    OBVIOUS
  <2>. HIDE DEF I, Q, f
  <2>. QED  BY <2>1, <2>2, <2>3 DEF Bijection, Injection, Surjection, IsInjective
<1>6. IsFiniteSet(Q) /\ Cardinality(Q) = Cardinality(I)
  BY <1>4, <1>5, FS_Bijection DEF ExistsBijection
<1>7. Q \subseteq SeatsFor(p, a)
  <2>. SUFFICES ASSUME NEW i \in DOMAIN sigs
                PROVE  sigs[i].index + 1 \in SeatsFor(p, a)
    BY DEF Indexes
  <2>1. sigs[i].index + 1 \in DOMAIN authority
    BY <1>3 DEF Indexes
  <2>2. <<authority[sigs[i].index + 1], a>> \in signed
    BY <1>2 DEF VerifyQuorum, Ed25519Verify
  <2>. QED  BY <2>1, <2>2 DEF SeatsFor
<1>8. Cardinality(Q) <= Cardinality(SeatsFor(p, a))
  BY <1>1, <1>7, FS_Subset
<1>9. /\ Cardinality(Q) \in Nat /\ Cardinality(SeatsFor(p, a)) \in Nat
      /\ config[p].threshold \in Nat /\ Cardinality(I) >= config[p].threshold
  BY <1>1, <1>6, FS_CardinalityType DEF VerifyQuorum, TypeOK
<1>. QED
  BY <1>6, <1>8, <1>9

\* The two cases of a step that concern payouts: either one is appended, by
\* distribute, or the payouts and the counters of deployed pools stay as they
\* are while configurations of deployed pools never change and signatures only
\* accumulate.
PaysOut(p, amount, a) ==
  /\ Deployed(p) /\ p \in Pools /\ a \in Attestations /\ amount \in Nat
  /\ events' = Append(events,
       [type |-> "Disbursement", pool |-> p, recipient |-> a.recipient,
        category |-> a.category, amount |-> a.amount,
        sequence |-> distributionSeq[p], attestation |-> a,
        ledger |-> ledger])
  /\ a.recipient \in Addresses /\ a.category \in Category /\ a.amount = amount
  /\ a.pool = p /\ a.sequence = distributionSeq[p]
  /\ a.expiry_ledger > ledger
  /\ Approved(p, a)
  /\ buckets' = [buckets EXCEPT ![p] =
                   [buckets[p] EXCEPT ![a.category] =
                      buckets[p][a.category] - amount]]
  /\ buckets[p][a.category] >= amount
  /\ distributionSeq' = [distributionSeq EXCEPT ![p] = @ + 1]
  /\ config' = config /\ signed' = signed

PaysNothing ==
  /\ \/ events' = events
     \/ \E e \in Contribution : events' = Append(events, e)
  /\ signed \subseteq signed'
  /\ \A p \in Pools :
       /\ Deployed(p) => config'[p] = config[p]
       /\ Deployed(p) => distributionSeq'[p] = distributionSeq[p]
       /\ ~Deployed(p) =>
            \/ /\ buckets'[p] = buckets[p]
               /\ distributionSeq'[p] = distributionSeq[p]
            \/ /\ buckets'[p] = [c \in Category |-> 0]
               /\ distributionSeq'[p] = 0

LEMMA PaysOutOrNothing ==
  ASSUME TypeOK, [Next]_vars
  PROVE  \/ \E p \in Pools, amount \in Nat, a \in Attestations :
              PaysOut(p, amount, a)
         \/ PaysNothing
<1>. USE DEF PaysNothing
<1>1. ASSUME NEW p \in Pools, NEW c \in Configs, Constructor(p, c)
      PROVE  PaysNothing
  BY <1>1 DEF Constructor, Deployed, TypeOK
<1>2. CASE ContributeStep
  <2>. PICK p \in Pools, from \in Accounts, amount \in Amounts :
              Contribute(p, from, amount)
    BY <1>2 DEF ContributeStep
  <2>1. amount \in Nat /\ ledger \in Nat
    BY AmountAssumption DEF Contribute, TypeOK
  <2>2. [type |-> "Contribution", pool |-> p, contributor |-> from,
         amount |-> amount, parts |-> Split(amount), ledger |-> ledger]
           \in Contribution
    BY <2>1, SplitIsExact DEF Contribution
  <2>3. \E e \in Contribution : events' = Append(events, e)
    BY <2>2 DEF Contribute
  <2>. QED  BY <2>3 DEF Contribute
<1>3. CASE DistributeStep
  <2>. PICK p \in Pools, caller \in Accounts, recipient \in Addresses,
            category \in Category, amount \in Amounts, a \in Attestations :
              Distribute(p, caller, recipient, category, amount, a)
    BY <1>3 DEF DistributeStep
  <2>1. amount \in Nat
    BY AmountAssumption DEF Distribute, Debited, StoreDebited
  <2>2. Approved(p, a)
    <3>1. PICK sigs \in SigLists(config[p].authority) :
            VerifyQuorum(config[p].authority, config[p].threshold, a, sigs)
      BY DEF Distribute, Debited, StoreDebited
    <3>2. Deployed(p) /\ RightDoor(p, a)
      BY DEF Distribute, Debited, StoreDebited
    <3>. QED  BY <3>1, <3>2, QuorumOfSeats DEF Approved, RightDoor
  <2>3. /\ a.recipient = recipient /\ a.category = category
        /\ a.amount = amount /\ a.pool = p
        /\ a.sequence = distributionSeq[p] /\ a.expiry_ledger > ledger
    BY DEF Distribute, Debited, StoreDebited, ArgumentsMatch, RightDoor, Fresh
  <2>4. /\ Deployed(p) /\ buckets[p][a.category] >= amount
        /\ buckets' = [buckets EXCEPT ![p] =
                         [buckets[p] EXCEPT ![a.category] =
                            buckets[p][a.category] - amount]]
        /\ distributionSeq' = [distributionSeq EXCEPT ![p] = @ + 1]
        /\ config' = config /\ signed' = signed
    <3>1. buckets' = [buckets EXCEPT ![p] =
                         [buckets[p] EXCEPT ![category] =
                            buckets[p][category] - amount]]
      BY DEF Distribute, Debited, StoreDebited
    <3>2. /\ Deployed(p) /\ buckets[p][category] >= amount
          /\ distributionSeq' = [distributionSeq EXCEPT ![p] = @ + 1]
          /\ config' = config /\ signed' = signed
      BY DEF Distribute, Debited, StoreDebited
    <3>. QED  BY <2>3, <3>1, <3>2
  <2>5. events' = Append(events,
          [type |-> "Disbursement", pool |-> p, recipient |-> a.recipient,
           category |-> a.category, amount |-> a.amount,
           sequence |-> distributionSeq[p], attestation |-> a,
           ledger |-> ledger])
    BY <2>3 DEF Distribute, Debited, StoreDebited
  <2>6. PaysOut(p, amount, a)
    BY <2>1, <2>2, <2>3, <2>4, <2>5 DEF PaysOut
  <2>. QED  BY <2>1, <2>6
<1>4. ASSUME NEW k \in Keys, NEW a \in Attestations, Sign(k, a)
      PROVE  PaysNothing
  BY <1>4 DEF Sign, poolVars
<1>5. ASSUME NEW asset \in Assets, NEW from \in Accounts, NEW p \in Pools,
             NEW amount \in Amounts, SendToPool(asset, from, p, amount)
      PROVE  PaysNothing
  BY <1>5 DEF SendToPool, poolVars
<1>6. ASSUME NEW asset \in Assets, NEW p \in Pools, NEW amount \in Amounts,
             ClawBack(asset, p, amount)
      PROVE  PaysNothing
  BY <1>6 DEF ClawBack, poolVars
<1>7. CASE CloseLedger
  BY <1>7 DEF CloseLedger, poolVars
<1>8. ASSUME NEW p \in Pools, Restore(p) PROVE PaysNothing
  BY <1>8 DEF Restore
<1>9. CASE UNCHANGED vars
  BY <1>9 DEF vars
<1>. QED
  BY <1>1, <1>2, <1>3, <1>4, <1>5, <1>6, <1>7, <1>8, <1>9 DEF Next

\* A step that pays nothing leaves the payouts of every pool as they were.
LEMMA NothingPaid ==
  ASSUME TypeOK, PaysNothing
  PROVE  \A q \in Pools :
           /\ Payouts(q)' = Payouts(q)
           /\ \A i \in Payouts(q) : events'[i] = events[i]
<1>1. CASE events' = events
  BY <1>1 DEF Payouts
<1>2. ASSUME NEW e \in Contribution, events' = Append(events, e)
      PROVE  \A q \in Pools :
               /\ Payouts(q)' = Payouts(q)
               /\ \A i \in Payouts(q) : events'[i] = events[i]
  <2>1. e.type # "Disbursement"
    BY DEF Contribution
  <2>. QED  BY <1>2, <2>1, EventAppended DEF Payouts
<1>. QED  BY <1>1, <1>2 DEF PaysNothing

LEMMA PaysNothingExcludesDistribute ==
  ASSUME TypeOK, PaysNothing
  PROVE  ~DistributeStep
<1>. SUFFICES ASSUME DistributeStep PROVE FALSE
  OBVIOUS
<1>. PICK p \in Pools, caller \in Accounts, recipient \in Addresses,
          category \in Category, amount \in Amounts, a \in Attestations :
            Distribute(p, caller, recipient, category, amount, a)
  BY DEF DistributeStep
<1>1. distributionSeq[p] \in Nat /\ distributionSeq'[p] = distributionSeq[p] + 1
  BY WidthAssumption DEF Distribute, Debited, StoreDebited, TypeOK
<1>2. distributionSeq'[p] = distributionSeq[p]
  BY DEF Distribute, Debited, StoreDebited, PaysNothing
<1>. QED  BY <1>1, <1>2

\* SlotsPaidInOrder is inductive together with the fact that a pool not yet
\* deployed has paid nothing.
UndeployedIsEmpty ==
  \A p \in Pools : ~Deployed(p) =>
    /\ buckets[p] = [c \in Category |-> 0]
    /\ distributionSeq[p] = 0
    /\ Payouts(p) = {}

LEMMA SlotsStep ==
  ASSUME TypeOK, UndeployedIsEmpty, SlotsPaidInOrder, [Next]_vars
  PROVE  SlotsPaidInOrder'
<1>1. ASSUME NEW p \in Pools, NEW amount \in Nat, NEW a \in Attestations,
             PaysOut(p, amount, a)
      PROVE  SlotsPaidInOrder'
  <2>. DEFINE e == [type |-> "Disbursement", pool |-> p,
                    recipient |-> a.recipient, category |-> a.category,
                    amount |-> a.amount, sequence |-> distributionSeq[p],
                    attestation |-> a, ledger |-> ledger]
              n == Len(events) + 1
  <2>1. e \in Disbursement /\ distributionSeq[p] \in Nat
    BY <1>1, WidthAssumption DEF PaysOut, Disbursement, TypeOK
  <2>2. events' = Append(events, e)
    BY <1>1 DEF PaysOut
  <2>3. /\ n \in Nat /\ events'[n] = e /\ DOMAIN events = 1 .. n - 1
        /\ \A i \in DOMAIN events : events'[i] = events[i]
        /\ Payouts(p)' = Payouts(p) \cup {n}
        /\ \A q \in Pools \ {p} : Payouts(q)' = Payouts(q)
    <3>1. e.type = "Disbursement" /\ e.pool = p
      OBVIOUS
    <3>. HIDE DEF e
    <3>2. /\ Len(events) \in Nat
          /\ events'[Len(events) + 1] = e
          /\ \A i \in DOMAIN events : events'[i] = events[i]
          /\ DOMAIN events = 1 .. Len(events)
          /\ \A q \in Pools :
               Payouts(q)' =
                 Payouts(q) \cup (IF e.type = "Disbursement" /\ e.pool = q
                                  THEN {Len(events) + 1} ELSE {})
      BY <2>1, <2>2, EventAppended
    <3>3. Payouts(p)' = Payouts(p) \cup {n}
      BY <3>1, <3>2
    <3>4. ASSUME NEW q \in Pools \ {p} PROVE Payouts(q)' = Payouts(q)
      <4>1. ~(e.type = "Disbursement" /\ e.pool = q)
        BY <3>1
      <4>2. Payouts(q)' = Payouts(q) \cup {}
        BY <3>2, <4>1
      <4>. QED  BY <4>2
    <3>5. n \in Nat /\ n - 1 = Len(events)
      BY <3>2
    <3>. QED  BY <3>2, <3>3, <3>4, <3>5
  <2>4. \A q \in Pools : \A i \in Payouts(q) :
          i \in DOMAIN events /\ events'[i] = events[i] /\ i < n
    BY <2>3 DEF Payouts
  <2>5. \A q \in Pools : distributionSeq'[q] =
          IF q = p THEN distributionSeq[p] + 1 ELSE distributionSeq[q]
    BY <1>1 DEF PaysOut, TypeOK
  <2>6. \A q \in Pools : \A i \in Payouts(q) :
           events[i].attestation.sequence \in Nat /\ distributionSeq[q] \in Nat
    <3>1. events \in Seq(Contribution \cup Disbursement)
      BY DEF TypeOK
    <3>2. \A i \in DOMAIN events : events[i] \in Contribution \cup Disbursement
      BY <3>1, LenProperties, ElementOfSeq
    <3>3. \A i \in DOMAIN events :
            events[i].type = "Disbursement" => events[i].attestation \in Attestations
      BY <3>2 DEF Contribution, Disbursement
    <3>. QED
      BY <3>3, WidthAssumption, AttestationAssumption
         DEF Payouts, Attestation, TypeOK
  <2>. SUFFICES ASSUME NEW q \in Pools
                PROVE
      /\ \A i \in Payouts(q)' : events'[i].attestation.sequence < distributionSeq'[q]
      /\ \A i, j \in Payouts(q)' : i < j =>
           events'[i].attestation.sequence < events'[j].attestation.sequence
      /\ \A s \in 0 .. distributionSeq'[q] - 1 :
           \E i \in Payouts(q)' : events'[i].attestation.sequence = s
    BY DEF SlotsPaidInOrder, Slot
  <2>7. CASE q # p
    BY <2>3, <2>4, <2>5, <2>7 DEF SlotsPaidInOrder, Slot
  <2>8. CASE q = p
    <3>1. \A i \in Payouts(p)' : i \in Payouts(p) \/ i = n
      BY <2>3
    <3>2. events'[n].attestation.sequence = distributionSeq[p]
      BY <2>3, <1>1 DEF PaysOut
    <3>3. \A i \in Payouts(p) : events'[i].attestation.sequence < distributionSeq[p]
      BY <2>4 DEF SlotsPaidInOrder, Slot
    <3>4. \A i \in Payouts(p)' : events'[i].attestation.sequence < distributionSeq'[p]
      BY <3>1, <3>2, <3>3, <2>1, <2>4, <2>5, <2>6
    <3>5. \A i, j \in Payouts(p)' :
            i < j => events'[i].attestation.sequence < events'[j].attestation.sequence
      <4>. SUFFICES ASSUME NEW i \in Payouts(p)', NEW j \in Payouts(p)', i < j
                    PROVE  events'[i].attestation.sequence < events'[j].attestation.sequence
        OBVIOUS
      <4>1. i \in Payouts(p)
        BY <3>1, <2>3, <2>4
      <4>2. CASE j = n
        BY <4>1, <4>2, <3>2, <3>3
      <4>3. CASE j \in Payouts(p)
        BY <4>1, <4>3, <2>4 DEF SlotsPaidInOrder, Slot
      <4>. QED  BY <3>1, <4>2, <4>3
    <3>6. \A s \in 0 .. distributionSeq'[p] - 1 :
            \E i \in Payouts(p)' : events'[i].attestation.sequence = s
      <4>. SUFFICES ASSUME NEW s \in 0 .. distributionSeq'[p] - 1
                    PROVE  \E i \in Payouts(p)' : events'[i].attestation.sequence = s
        OBVIOUS
      <4>1. CASE s = distributionSeq[p]
        BY <4>1, <2>3, <3>2
      <4>2. CASE s \in 0 .. distributionSeq[p] - 1
        BY <4>2, <2>3, <2>4 DEF SlotsPaidInOrder, Slot
      <4>. QED  BY <4>1, <4>2, <2>1, <2>5
    <3>. QED  BY <2>8, <3>4, <3>5, <3>6
  <2>. QED  BY <2>7, <2>8
<1>2. ASSUME PaysNothing
      PROVE  SlotsPaidInOrder'
  <2>1. \A q \in Pools :
          /\ Payouts(q)' = Payouts(q)
          /\ \A i \in Payouts(q) : events'[i] = events[i]
    BY <1>2, NothingPaid
  <2>2. \A q \in Pools : distributionSeq'[q] = distributionSeq[q]
    BY <1>2 DEF PaysNothing, UndeployedIsEmpty
  <2>. QED  BY <2>1, <2>2 DEF SlotsPaidInOrder, Slot
<1>. QED  BY <1>1, <1>2, PaysOutOrNothing

LEMMA UndeployedStep ==
  ASSUME TypeOK, UndeployedIsEmpty, [Next]_vars
  PROVE  UndeployedIsEmpty'
<1>. SUFFICES ASSUME NEW q \in Pools, ~Deployed(q)'
              PROVE  /\ buckets'[q] = [c \in Category |-> 0]
                     /\ distributionSeq'[q] = 0
                     /\ Payouts(q)' = {}
  BY DEF UndeployedIsEmpty
<1>1. ASSUME NEW p \in Pools, NEW amount \in Nat, NEW a \in Attestations,
             PaysOut(p, amount, a)
      PROVE  /\ buckets'[q] = [c \in Category |-> 0]
             /\ distributionSeq'[q] = 0
             /\ Payouts(q)' = {}
  <2>1. ~Deployed(q) /\ q # p
    BY <1>1 DEF PaysOut, Deployed
  <2>2. buckets'[q] = buckets[q] /\ distributionSeq'[q] = distributionSeq[q]
    BY <1>1, <2>1 DEF PaysOut, TypeOK
  <2>3. Payouts(q)' = Payouts(q)
    <3>. DEFINE e == [type |-> "Disbursement", pool |-> p,
                      recipient |-> a.recipient, category |-> a.category,
                      amount |-> a.amount, sequence |-> distributionSeq[p],
                      attestation |-> a, ledger |-> ledger]
    <3>1. e \in Disbursement /\ e.pool # q
      BY <1>1, <2>1, WidthAssumption DEF PaysOut, Disbursement, TypeOK
    <3>2. events' = Append(events, e)
      BY <1>1 DEF PaysOut
    <3>. HIDE DEF e
    <3>3. Payouts(q)' = Payouts(q) \cup {}
      BY <3>1, <3>2, EventAppended
    <3>. QED  BY <3>3
  <2>. QED  BY <2>1, <2>2, <2>3 DEF UndeployedIsEmpty
<1>2. ASSUME PaysNothing
      PROVE  /\ buckets'[q] = [c \in Category |-> 0]
             /\ distributionSeq'[q] = 0
             /\ Payouts(q)' = {}
  <2>1. ~Deployed(q)
    BY <1>2 DEF PaysNothing, Deployed
  <2>2. /\ buckets'[q] = [c \in Category |-> 0]
        /\ distributionSeq'[q] = 0
    BY <1>2, <2>1 DEF PaysNothing, UndeployedIsEmpty
  <2>3. Payouts(q)' = {}
    BY <1>2, <2>1, NothingPaid DEF UndeployedIsEmpty
  <2>. QED  BY <2>2, <2>3
<1>. QED  BY <1>1, <1>2, PaysOutOrNothing

\* An approval, once it has its quorum, keeps it.
LEMMA ApprovedForever ==
  ASSUME TypeOK, TypeOK', NEW q \in Pools, NEW a, Approved(q, a),
         config'[q] = config[q], signed \subseteq signed'
  PROVE  Approved(q, a)'
<1>1. SeatsFor(q, a) \subseteq SeatsFor(q, a)'
  BY DEF SeatsFor
<1>2. Deployed(q) /\ Deployed(q)'
  BY DEF Approved, Deployed
<1>3. IsFiniteSet(SeatsFor(q, a)) /\ IsFiniteSet(SeatsFor(q, a)')
  <2>1. IsFiniteSet(SeatsFor(q, a))
    BY <1>2, FiniteSeats
  <2>2. DOMAIN config[q].authority = 1 .. Len(config[q].authority)
        /\ Len(config[q].authority) \in Nat
    BY <1>2, FiniteSeats
  <2>3. SeatsFor(q, a)' \subseteq 1 .. Len(config[q].authority)
    BY <2>2 DEF SeatsFor
  <2>4. IsFiniteSet(1 .. Len(config[q].authority))
    BY <2>2, FS_Interval
  <2>. QED  BY <2>1, <2>3, <2>4, FS_Subset
<1>4. Cardinality(SeatsFor(q, a)) <= Cardinality(SeatsFor(q, a)')
  BY <1>1, <1>3, FS_Subset
<1>5. /\ Cardinality(SeatsFor(q, a)) \in Nat /\ Cardinality(SeatsFor(q, a)') \in Nat
      /\ config[q].threshold \in Nat
  BY <1>2, <1>3, FS_CardinalityType DEF TypeOK
<1>6. Cardinality(SeatsFor(q, a)') >= config'[q].threshold
  BY <1>4, <1>5 DEF Approved
<1>. QED  BY <1>2, <1>6 DEF Approved

LEMMA ApprovedStep ==
  ASSUME TypeOK, PayoutsAreApproved, [Next]_vars
  PROVE  PayoutsAreApproved'
<1>0. TypeOK'
  BY TypeStep
<1>1. ASSUME NEW p \in Pools, NEW amount \in Nat, NEW a \in Attestations,
             PaysOut(p, amount, a)
      PROVE  PayoutsAreApproved'
  <2>0. PICK e : e = [type |-> "Disbursement", pool |-> p,
                      recipient |-> a.recipient, category |-> a.category,
                      amount |-> a.amount, sequence |-> distributionSeq[p],
                      attestation |-> a, ledger |-> ledger]
    OBVIOUS
  <2>1. e \in Disbursement /\ e.pool = p /\ e.attestation = a
    BY <2>0, <1>1, WidthAssumption DEF PaysOut, Disbursement, TypeOK
  <2>2. events' = Append(events, e)
    BY <2>0, <1>1 DEF PaysOut
  <2>3. \A q \in Pools : \A x : Approved(q, x) => Approved(q, x)'
    BY <1>0, <1>1, ApprovedForever DEF PaysOut
  <2>4. /\ e.recipient = a.recipient /\ e.category = a.category
        /\ e.amount = a.amount /\ e.sequence = a.sequence
        /\ e.ledger < a.expiry_ledger
    <3>1. ledger \in Nat /\ a.expiry_ledger \in Nat
      BY AttestationAssumption DEF TypeOK, Attestation
    <3>. QED  BY <2>0, <1>1, <3>1 DEF PaysOut
  <2>5. Approved(p, a)
    BY <1>1 DEF PaysOut
  <2>6. /\ events'[Len(events) + 1] = e
        /\ \A i \in DOMAIN events : events'[i] = events[i]
        /\ \A q \in Pools : \A i \in Payouts(q)' :
              i \in Payouts(q) \/ (i = Len(events) + 1 /\ q = p)
    BY <2>1, <2>2, EventAppended
  <2>7. \A q \in Pools : \A i \in Payouts(q) : events'[i] = events[i]
    BY <2>6 DEF Payouts
  <2>8. Backed(p, e)'
    BY <2>1, <2>3, <2>4, <2>5 DEF Backed
  <2>9. ASSUME NEW q \in Pools, NEW i \in Payouts(q)
        PROVE  Backed(q, events[i])'
    <3>1. Backed(q, events[i])
      BY DEF PayoutsAreApproved
    <3>2. events'[i] = events[i]
      BY <2>7
    <3>. QED  BY <2>3, <3>1, <3>2 DEF Backed
  <2>10. ASSUME NEW q \in Pools, NEW i \in Payouts(q)'
         PROVE  Backed(q, events[i])'
    <3>1. CASE i \in Payouts(q)
      BY <2>9, <3>1
    <3>2. CASE i = Len(events) + 1 /\ q = p
      BY <2>6, <2>8, <3>2 DEF Backed
    <3>. QED  BY <2>6, <3>1, <3>2
  <2>. QED  BY <2>10 DEF PayoutsAreApproved
<1>2. ASSUME PaysNothing
      PROVE  PayoutsAreApproved'
  <2>1. \A q \in Pools : \A x : Approved(q, x) => Approved(q, x)'
    <3>1. \A q \in Pools : \A x : Approved(q, x) => Deployed(q)
      BY DEF Approved
    <3>. QED  BY <1>0, <1>2, <3>1, ApprovedForever DEF PaysNothing
  <2>2. \A q \in Pools :
          /\ Payouts(q)' = Payouts(q)
          /\ \A i \in Payouts(q) : events'[i] = events[i]
    BY <1>2, NothingPaid
  <2>. QED  BY <2>1, <2>2 DEF PayoutsAreApproved, Backed
<1>. QED  BY <1>1, <1>2, PaysOutOrNothing

Inv ==
  /\ TypeOK
  /\ UndeployedIsEmpty
  /\ SlotsPaidInOrder
  /\ PayoutsAreApproved

LEMMA InvInit == Init => Inv
<1>. SUFFICES ASSUME Init PROVE Inv
  OBVIOUS
<1>1. events = <<>> /\ DOMAIN events = {}
  BY DEF Init
<1>2. \A p \in Pools : Payouts(p) = {} /\ distributionSeq[p] = 0
  BY <1>1 DEF Payouts, Init
<1>. QED
  BY <1>2, TypeInit
     DEF Inv, Init, UndeployedIsEmpty, SlotsPaidInOrder, PayoutsAreApproved

LEMMA InvStep == Inv /\ [Next]_vars => Inv'
  BY TypeStep, UndeployedStep, SlotsStep, ApprovedStep DEF Inv

LEMMA InvAlways == Spec => []Inv
  BY InvInit, InvStep, PTL DEF Spec

\* The payouts of a pool are numbered 0, 1, 2, ... without gap or repeat, so no
\* approval is ever paid twice (lib.rs, distribute, freshness and replay).
THEOREM SlotsAlwaysPaidInOrder == Spec => []SlotsPaidInOrder
<1>1. Inv => SlotsPaidInOrder
  BY DEF Inv
<1>. QED  BY <1>1, InvAlways, PTL

\* Every payout has a quorum of distinct authority keys behind exactly what it
\* paid, in time (attest.rs, verify_quorum; lib.rs, distribute).
THEOREM PayoutsAlwaysApproved == Spec => []PayoutsAreApproved
<1>1. Inv => PayoutsAreApproved
  BY DEF Inv
<1>. QED  BY <1>1, InvAlways, PTL

\* With no key listed twice, which is for those who deploy to see to, a payout has
\* as many distinct keys behind it as the threshold says (attest.rs:9, lib.rs:60-64).
THEOREM DistinctKeysAlwaysSigned ==
  ASSUME NoKeyTwice
  PROVE  Spec => []DistinctKeysSigned
<1>1. ASSUME TypeOK, PayoutsAreApproved, NEW p \in Pools, NEW i \in Payouts(p)
      PROVE  Cardinality(SignersOf(p, events[i].attestation)) >= config[p].threshold
  <2>. DEFINE a == events[i].attestation
              authority == config[p].authority
              S == SeatsFor(p, a)
              K == SignersOf(p, a)
              f == [n \in S |-> authority[n]]
  <2>1. Deployed(p) /\ Cardinality(S) >= config[p].threshold
    BY <1>1 DEF PayoutsAreApproved, Backed, Approved
  <2>2. IsFiniteSet(S)
    BY <1>1, <2>1, FiniteSeats
  <2>3. \A m, n \in DOMAIN authority : authority[m] = authority[n] => m = n
    BY <1>1, <2>1 DEF NoKeyTwice, TypeOK, Deployed
  <2>4. S \subseteq DOMAIN authority /\ K = {authority[n] : n \in S}
    BY DEF SeatsFor, SignersOf
  <2>5. f \in Bijection(S, K)
    <3>1. \A m, n \in S : f[m] = f[n] => m = n
      BY <2>3, <2>4
    <3>2. f \in [S -> K] /\ \A k \in K : \E n \in S : f[n] = k
      BY <2>4
    <3>. HIDE DEF S, K, f
    <3>. QED  BY <3>1, <3>2 DEF Bijection, Injection, Surjection, IsInjective
  <2>6. Cardinality(K) = Cardinality(S)
    BY <2>2, <2>5, FS_Bijection DEF ExistsBijection
  <2>. QED  BY <2>1, <2>6
<1>2. Inv => DistinctKeysSigned
  BY <1>1 DEF Inv, DistinctKeysSigned
<1>. QED  BY <1>2, InvAlways, PTL

-----------------------------------------------------------------------------
(***************************************************************************)
(* The reader of the event stream.                                         *)
(***************************************************************************)

\* after is what the reader makes of each beginning of the stream.
Reads(p, after) ==
  after = [n \in 0 .. Len(events) |->
             IF n = 0 THEN [c \in Category |-> 0] ELSE Replay(p, after[n - 1], events[n])]

\* Some reading of the stream ends in the buckets.  A step that appends an
\* event prolongs it, so this is inductive where the choice of a reading, in
\* Rebuilt, is not.
ReadingIsRight(p) == \E after : Reads(p, after) /\ after[Len(events)] = buckets[p]

LEMMA OneReading ==
  ASSUME TypeOK, NEW p, NEW f, NEW g, Reads(p, f), Reads(p, g)
  PROVE  f[Len(events)] = g[Len(events)]
<1>. DEFINE N == Len(events)
            S == {n \in 0 .. N : f[n] # g[n]}
<1>1. N \in Nat
  BY DEF TypeOK
<1>. HIDE DEF N
<1>2. \A n \in 0 .. N :
        /\ f[n] = IF n = 0 THEN [c \in Category |-> 0] ELSE Replay(p, f[n - 1], events[n])
        /\ g[n] = IF n = 0 THEN [c \in Category |-> 0] ELSE Replay(p, g[n - 1], events[n])
  BY DEF Reads, N
<1>. SUFFICES ASSUME S # {} PROVE FALSE
  BY <1>1 DEF N
<1>3. S \in SUBSET Nat
  BY <1>1
<1>4. PICK m \in S : \A n \in S : m <= n
  <2>. HIDE DEF S
  <2>. QED  BY <1>3, MinIsLeast
<1>5. m \in 0 .. N /\ m # 0
  BY <1>2, <1>4
<1>6. m - 1 \in 0 .. N /\ m - 1 \notin S
  BY <1>1, <1>4, <1>5
<1>. QED  BY <1>2, <1>4, <1>5, <1>6

LEMMA RightReading ==
  ASSUME TypeOK, NEW p \in Pools, ReadingIsRight(p)
  PROVE  Rebuilt(p) = buckets[p]
<1>. DEFINE after == CHOOSE after : Reads(p, after)
<1>1. Rebuilt(p) = after[Len(events)]
  BY DEF Rebuilt, Reads
<1>2. PICK f : Reads(p, f) /\ f[Len(events)] = buckets[p]
  BY DEF ReadingIsRight
<1>3. Reads(p, after)
  BY <1>2
<1>. HIDE DEF after
<1>. QED  BY <1>1, <1>2, <1>3, OneReading

LEMMA ReadOn ==
  ASSUME TypeOK, NEW p \in Pools, ReadingIsRight(p),
         NEW e \in Contribution \cup Disbursement, events' = Append(events, e),
         buckets'[p] = Replay(p, buckets[p], e)
  PROVE  ReadingIsRight(p)'
<1>0. PICK N : N = Len(events)
  OBVIOUS
<1>1. PICK f : Reads(p, f) /\ f[N] = buckets[p]
  BY <1>0 DEF ReadingIsRight
<1>2. /\ N \in Nat /\ events'[N + 1] = e /\ \A i \in 1 .. N : events'[i] = events[i]
      /\ Len(events') = N + 1
  BY <1>0, EventAppended, AppendProperties DEF TypeOK
<1>a. PICK g : g = [n \in 0 .. N + 1 |-> IF n = N + 1 THEN Replay(p, f[N], e) ELSE f[n]]
  OBVIOUS
<1>3. \A n \in 0 .. N :
        f[n] = IF n = 0 THEN [c \in Category |-> 0] ELSE Replay(p, f[n - 1], events[n])
  BY <1>0, <1>1 DEF Reads
<1>4. \A n \in 0 .. N + 1 :
        g[n] = IF n = 0 THEN [c \in Category |-> 0] ELSE Replay(p, g[n - 1], events'[n])
  <2>. SUFFICES ASSUME NEW n \in 0 .. N + 1
                PROVE  g[n] = IF n = 0 THEN [c \in Category |-> 0]
                              ELSE Replay(p, g[n - 1], events'[n])
    OBVIOUS
  <2>1. CASE n = N + 1
    BY <1>2, <1>a, <2>1
  <2>2. CASE n # N + 1 /\ n # 0
    <3>1. n \in 0 .. N /\ n \in 1 .. N /\ n - 1 \in 0 .. N + 1 /\ n - 1 # N + 1
      BY <1>2, <2>2
    <3>2. g[n] = f[n] /\ g[n - 1] = f[n - 1] /\ events'[n] = events[n]
      BY <1>2, <1>a, <2>2, <3>1
    <3>. QED  BY <1>3, <2>2, <3>1, <3>2
  <2>3. CASE n # N + 1 /\ n = 0
    BY <1>2, <1>3, <1>a, <2>3
  <2>. QED  BY <2>1, <2>2, <2>3
<1>5. Reads(p, g)'
  <2>1. g = [n \in 0 .. N + 1 |->
               IF n = 0 THEN [c \in Category |-> 0] ELSE Replay(p, g[n - 1], events'[n])]
    BY <1>4, <1>a
  <2>. QED  BY <1>2, <2>1 DEF Reads, Replay
<1>6. g[N + 1] = buckets'[p]
  BY <1>1, <1>2, <1>a
<1>. QED  BY <1>2, <1>5, <1>6 DEF ReadingIsRight

LEMMA ReadingStep ==
  ASSUME Inv, NEW p \in Pools, ReadingIsRight(p), [Next]_vars
  PROVE  ReadingIsRight(p)'
<1>. USE DEF Inv
<1>1. ASSUME events' = events, buckets'[p] = buckets[p]
      PROVE  ReadingIsRight(p)'
  BY <1>1 DEF ReadingIsRight, Reads, Replay
<1>2. ASSUME NEW q \in Pools, NEW from \in Accounts, NEW amount \in Amounts,
             Contribute(q, from, amount)
      PROVE  ReadingIsRight(p)'
  <2>. DEFINE e == [type |-> "Contribution", pool |-> q, contributor |-> from,
                    amount |-> amount, parts |-> Split(amount), ledger |-> ledger]
  <2>1. amount \in Nat
    BY <1>2, AmountAssumption DEF Contribute
  <2>2. e \in Contribution /\ events' = Append(events, e)
    BY <1>2, <2>1, SplitIsExact DEF Contribute, Contribution, TypeOK
  <2>3. buckets'[p] = IF p = q THEN [c \in Category |-> buckets[q][c] + Split(amount)[c]]
                      ELSE buckets[p]
    BY <1>2 DEF Contribute, TypeOK
  <2>4. buckets'[p] = Replay(p, buckets[p], e)
    BY <2>3 DEF Replay
  <2>. HIDE DEF e
  <2>. QED  BY <2>2, <2>4, ReadOn
<1>3. ASSUME NEW q \in Pools, NEW caller \in Accounts, NEW recipient \in Addresses,
             NEW category \in Category, NEW amount \in Amounts, NEW a \in Attestations,
             Distribute(q, caller, recipient, category, amount, a)
      PROVE  ReadingIsRight(p)'
  <2>. DEFINE e == [type |-> "Disbursement", pool |-> q, recipient |-> recipient,
                    category |-> category, amount |-> amount,
                    sequence |-> distributionSeq[q], attestation |-> a, ledger |-> ledger]
  <2>1. amount \in Nat
    BY <1>3, AmountAssumption DEF Distribute
  <2>2. e \in Disbursement /\ events' = Append(events, e)
    BY <1>3, <2>1, WidthAssumption DEF Distribute, Disbursement, TypeOK
  <2>3. buckets'[p] = IF p = q THEN [buckets[q] EXCEPT ![category] = @ - amount]
                      ELSE buckets[p]
    BY <1>3 DEF Distribute, StoreDebited, Debited, TypeOK
  <2>4. buckets'[p] = Replay(p, buckets[p], e)
    BY <2>3 DEF Replay
  <2>. HIDE DEF e
  <2>. QED  BY <2>2, <2>4, ReadOn
<1>4. ASSUME NEW q \in Pools, NEW c \in Configs, Constructor(q, c)
      PROVE  ReadingIsRight(p)'
  <2>1. buckets[q] = [k \in Category |-> 0]
    BY <1>4 DEF Constructor, UndeployedIsEmpty
  <2>2. events' = events /\ buckets'[p] = buckets[p]
    BY <1>4, <2>1 DEF Constructor, TypeOK
  <2>. QED  BY <1>1, <2>2
<1>5. \/ ContributeStep \/ DistributeStep
      \/ \E q \in Pools, c \in Configs : Constructor(q, c)
      \/ events' = events /\ buckets' = buckets
  BY DEF Next, vars, poolVars, Sign, SendToPool, ClawBack, CloseLedger, Restore
<1>. QED  BY <1>1, <1>2, <1>3, <1>4, <1>5 DEF ContributeStep, DistributeStep

\* The events alone tell what is in the buckets of every pool: each change of
\* a bucket is announced, in full and only once (types.rs, Contribution).
THEOREM EventsAlwaysRebuildBuckets == Spec => []EventsRebuildBuckets
<1>. DEFINE Right == \A p \in Pools : ReadingIsRight(p)
<1>1. Init => Right
  <2>. SUFFICES ASSUME Init, NEW p \in Pools PROVE ReadingIsRight(p)
    OBVIOUS
  <2>. DEFINE f == [n \in 0 .. 0 |-> [c \in Category |-> 0]]
  <2>1. Len(events) = 0 /\ buckets[p] = [c \in Category |-> 0]
    BY DEF Init
  <2>2. f = [n \in 0 .. 0 |->
               IF n = 0 THEN [c \in Category |-> 0] ELSE Replay(p, f[n - 1], events[n])]
    <3>1. \A n \in 0 .. 0 : n = 0
      OBVIOUS
    <3>. QED  BY <3>1
  <2>3. f[0] = [c \in Category |-> 0]
    OBVIOUS
  <2>. HIDE DEF f
  <2>. QED  BY <2>1, <2>2, <2>3 DEF ReadingIsRight, Reads
<1>2. Inv /\ Right /\ [Next]_vars => Right'
  BY ReadingStep
<1>3. Inv /\ Right => EventsRebuildBuckets
  BY RightReading DEF Inv, EventsRebuildBuckets
<1>. HIDE DEF Right
<1>. QED  BY <1>1, <1>2, <1>3, InvAlways, PTL DEF Spec

-----------------------------------------------------------------------------
(***************************************************************************)
(* Refinement of ApprovedPayouts.                                          *)
(***************************************************************************)

AllApproved == {a \in Attestations : Approved(a.pool, a)}

LEMMA RefinesInit == Init => Abstract!Init
<1>. SUFFICES ASSUME Init PROVE Abstract!Init
  OBVIOUS
<1>1. Paid = {}
  <2>1. events = <<>> /\ DOMAIN events = {}
    BY DEF Init
  <2>. QED  BY <2>1 DEF Paid
<1>2. AllApproved = {}
  <2>1. \A a \in Attestations : a.pool \in Pools
    BY AttestationAssumption DEF Attestation
  <2>. QED  BY <2>1 DEF AllApproved, Approved, Deployed, Init
<1>. QED  BY <1>1, <1>2 DEF Init, Abstract!Init, AllApproved

\* A payout of the contract is the payment of an approval not yet spent.
LEMMA PayoutRefines ==
  ASSUME Inv, NEW p \in Pools, NEW amount \in Nat, NEW a \in Attestations,
         PaysOut(p, amount, a)
  PROVE  Abstract!Pay(a)
<1>0. PICK e : e = [type |-> "Disbursement", pool |-> p,
                    recipient |-> a.recipient, category |-> a.category,
                    amount |-> a.amount, sequence |-> distributionSeq[p],
                    attestation |-> a, ledger |-> ledger]
  OBVIOUS
<1>1. /\ e \in Disbursement /\ e.attestation = a /\ e.type = "Disbursement"
      /\ events' = Append(events, e)
  BY <1>0, WidthAssumption DEF Inv, PaysOut, Disbursement, TypeOK
<1>2. /\ events'[Len(events) + 1] = e
      /\ \A i \in DOMAIN events : events'[i] = events[i]
      /\ Len(events) \in Nat
      /\ DOMAIN events = 1 .. Len(events)
      /\ DOMAIN events' = 1 .. Len(events) + 1
  BY <1>1, EventAppended DEF Inv
<1>3. Paid' = Paid \cup {a}
  <2>1. \A i \in DOMAIN events' : i \in DOMAIN events \/ i = Len(events) + 1
    BY <1>2
  <2>2. Len(events) + 1 \in DOMAIN events' /\ DOMAIN events \subseteq DOMAIN events'
    BY <1>2
  <2>3. Paid' \subseteq Paid \cup {a}
    BY <1>1, <1>2, <2>1 DEF Paid
  <2>4. Paid \subseteq Paid'
    BY <1>2, <2>2 DEF Paid
  <2>5. a \in Paid'
    BY <1>1, <1>2, <2>2 DEF Paid
  <2>. QED  BY <2>3, <2>4, <2>5
<1>4. a \notin Paid
  <2>. SUFFICES ASSUME NEW i \in DOMAIN events,
                       events[i].type = "Disbursement",
                       events[i].attestation = a
                PROVE  FALSE
    BY DEF Paid
  <2>1. events[i] \in Contribution \cup Disbursement
    BY LenProperties, ElementOfSeq DEF Inv, TypeOK
  <2>2. PICK q \in Pools : events[i].pool = q /\ i \in Payouts(q)
    BY <2>1 DEF Contribution, Disbursement, Payouts
  <2>3. a.pool = q
    BY <2>2 DEF Inv, PayoutsAreApproved, Backed, Approved
  <2>4. a.sequence < distributionSeq[q]
    BY <2>2 DEF Inv, SlotsPaidInOrder, Slot
  <2>5. distributionSeq[q] \in Nat /\ a.sequence = distributionSeq[q]
    BY <2>3, WidthAssumption DEF PaysOut, Inv, TypeOK
  <2>. QED  BY <2>3, <2>4, <2>5
<1>5. a.pool = p /\ Approved(a.pool, a)
  BY DEF PaysOut
<1>6. AllApproved' = AllApproved
  BY DEF PaysOut, AllApproved, Approved, SeatsFor, Deployed
<1>7. /\ a.sequence = distributionSeq[a.pool]
      /\ a.amount <= buckets[a.pool][a.category]
      /\ buckets' = [buckets EXCEPT ![a.pool][a.category] = @ - a.amount]
      /\ distributionSeq' = [distributionSeq EXCEPT ![a.pool] = @ + 1]
  <2>1. a.pool = p /\ a.amount = amount /\ a.category \in Category
    BY DEF PaysOut
  <2>2. buckets[p][a.category] \in Nat
    BY <2>1 DEF Inv, TypeOK
  <2>. QED  BY <2>1, <2>2 DEF PaysOut
<1>. QED
  BY <1>3, <1>4, <1>5, <1>6, <1>7 DEF Abstract!Pay, AllApproved

\* What the other steps do to the mapped state.
LEMMA OtherStepsRefine ==
  ASSUME Inv, [Next]_vars, PaysNothing
  PROVE  [Abstract!Next]_Abstract!vars
<1>1. Paid' = Paid
  <2>1. CASE events' = events
    BY <2>1 DEF Paid
  <2>2. ASSUME NEW e \in Contribution, events' = Append(events, e)
        PROVE  Paid' = Paid
    <3>1. /\ events'[Len(events) + 1] = e
          /\ \A i \in DOMAIN events : events'[i] = events[i]
          /\ Len(events) \in Nat
          /\ DOMAIN events = 1 .. Len(events)
          /\ DOMAIN events' = 1 .. Len(events) + 1
      BY <2>2, EventAppended DEF Inv
    <3>2. e.type # "Disbursement"
      BY DEF Contribution
    <3>3. {j \in DOMAIN events' : events'[j].type = "Disbursement"} =
            {j \in DOMAIN events : events[j].type = "Disbursement"}
      <4>1. \A j \in DOMAIN events' : j \in DOMAIN events \/ j = Len(events) + 1
        BY <3>1
      <4>2. DOMAIN events \subseteq DOMAIN events'
        BY <3>1
      <4>. QED  BY <3>1, <3>2, <4>1, <4>2
    <3>. QED  BY <3>1, <3>3 DEF Paid
  <2>. QED  BY <2>1, <2>2 DEF PaysNothing
<1>2. AllApproved \subseteq AllApproved'
  <2>. SUFFICES ASSUME NEW a \in Attestations, Approved(a.pool, a)
                PROVE  Approved(a.pool, a)'
    BY DEF AllApproved
  <2>1. a.pool \in Pools /\ Deployed(a.pool)
    BY AttestationAssumption DEF Attestation, Approved
  <2>2. TypeOK'
    BY TypeStep DEF Inv
  <2>. QED  BY <2>1, <2>2, ApprovedForever DEF Inv, PaysNothing
<1>. DEFINE Funds == \E p \in Pools : Abstract!Fund(p)
            Stands == /\ buckets' = buckets
                      /\ distributionSeq' = distributionSeq
<1>3. ASSUME Stands PROVE Abstract!Approve
  BY <1>1, <1>2, <1>3 DEF Abstract!Approve, AllApproved
<1>4. ASSUME NEW p \in Pools, NEW c \in Configs, Constructor(p, c)
      PROVE  Stands
  <2>1. /\ ~Deployed(p) /\ buckets[p] = [k \in Category |-> 0]
        /\ distributionSeq[p] = 0
    BY <1>4 DEF Constructor, Inv, UndeployedIsEmpty
  <2>2. /\ buckets \in [Pools -> [Category -> Nat]]
        /\ distributionSeq \in [Pools -> 0 .. MaxU64]
    BY DEF Inv, TypeOK
  <2>3. /\ buckets' = [buckets EXCEPT ![p] = buckets[p]]
        /\ distributionSeq' = [distributionSeq EXCEPT ![p] = distributionSeq[p]]
    BY <1>4, <2>1 DEF Constructor
  <2>. QED  BY <2>2, <2>3
<1>5. ASSUME ContributeStep PROVE Funds
  <2>. PICK p \in Pools, from \in Accounts, amount \in Amounts :
              Contribute(p, from, amount)
    BY <1>5 DEF ContributeStep
  <2>1. amount \in Nat
    BY AmountAssumption DEF Contribute
  <2>2. Split(amount) \in [Category -> Nat]
    BY <2>1, SplitIsExact
  <2>3. buckets' = [buckets EXCEPT ![p] =
                      [c \in Category |-> buckets[p][c] + Split(amount)[c]]]
    BY DEF Contribute
  <2>4. buckets \in [Pools -> [Category -> Nat]]
    BY DEF Inv, TypeOK
  <2>5. \A c \in Category : buckets'[p][c] >= buckets[p][c]
    BY <2>2, <2>3, <2>4
  <2>6. buckets' = [buckets EXCEPT ![p] = buckets'[p]]
    BY <2>3, <2>4
  <2>7. distributionSeq' = distributionSeq
    BY DEF Contribute
  <2>8. AllApproved' = AllApproved
    BY DEF Contribute, AllApproved, Approved, SeatsFor, Deployed
  <2>9. Abstract!Fund(p)
    BY <1>1, <2>5, <2>6, <2>7, <2>8 DEF Abstract!Fund, AllApproved
  <2>. QED  BY <2>9
<1>6. ASSUME DistributeStep PROVE FALSE
  BY <1>6, PaysNothingExcludesDistribute DEF Inv
<1>7. ASSUME NEW k \in Keys, NEW a \in Attestations, Sign(k, a)
      PROVE  Stands
  BY <1>7 DEF Sign, poolVars
<1>8. ASSUME NEW asset \in Assets, NEW from \in Accounts, NEW p \in Pools,
             NEW amount \in Amounts, SendToPool(asset, from, p, amount)
      PROVE  Stands
  BY <1>8 DEF SendToPool, poolVars
<1>9. ASSUME NEW asset \in Assets, NEW p \in Pools, NEW amount \in Amounts,
             ClawBack(asset, p, amount)
      PROVE  Stands
  BY <1>9 DEF ClawBack, poolVars
<1>10. ASSUME CloseLedger PROVE Stands
  BY <1>10 DEF CloseLedger, poolVars
<1>11. ASSUME NEW p \in Pools, Restore(p) PROVE Stands
  BY <1>11 DEF Restore
<1>12. ASSUME UNCHANGED vars PROVE Stands
  BY <1>12 DEF vars
<1>13. Stands \/ Funds
  BY <1>4, <1>5, <1>6, <1>7, <1>8, <1>9, <1>10, <1>11, <1>12 DEF Next
<1>. QED  BY <1>3, <1>13 DEF Abstract!Next

\* The contract implements its abstract specification.
THEOREM Implementation == Spec => ImplementsApprovedPayouts
<1>1. Init => Abstract!Init
  BY RefinesInit
<1>2. Inv /\ [Next]_vars => [Abstract!Next]_Abstract!vars
  <2>. SUFFICES ASSUME Inv, [Next]_vars
                PROVE  [Abstract!Next]_Abstract!vars
    OBVIOUS
  <2>1. ASSUME NEW p \in Pools, NEW amount \in Nat, NEW a \in Attestations,
               PaysOut(p, amount, a)
        PROVE  Abstract!Next
    BY <2>1, PayoutRefines DEF Abstract!Next
  <2>2. ASSUME PaysNothing PROVE [Abstract!Next]_Abstract!vars
    BY <2>2, OtherStepsRefine
  <2>. QED  BY <2>1, <2>2, PaysOutOrNothing DEF Inv
<1>. QED
  BY <1>1, <1>2, InvAlways, PTL DEF Spec, Abstract!Spec, ImplementsApprovedPayouts
=============================================================================
