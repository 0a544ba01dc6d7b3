--------------------------- MODULE StellarNetwork ---------------------------
(***************************************************************************)
(* The network as the two wallet applications use it: Horizon for reading  *)
(* accounts and submitting classic transactions, Soroban RPC for           *)
(* contributions, Friendbot and the USDC faucet.  Everything here is       *)
(* external to the repository; what the applications rely on is one        *)
(* account sequence per transaction, operations that settle together or    *)
(* not at all, a queue between "sent" and "settled", and that nothing      *)
(* settles after its time bound.                                           *)
(***************************************************************************)
EXTENDS Naturals, Sequences, FiniteSets

CONSTANTS
  Accounts,        \* accounts a wallet may expose
  Pool,            \* POOL_ADDRESS
  PoolIsContract,  \* a C-address needs no trustline
  NoLine,          \* the account has not opted in to USDC
  MaxHeld,         \* bound: USDC an account may hold
  MaxSeq,          \* bound: transactions of one account
  MaxSent,         \* bound: transactions the application sends
  MaxTime          \* bound: the clock

Holders == Accounts \cup {Pool}
Op == {"contribute", "trust", "untrust", "pay"}

\* The content of a transaction; `prepared` tells a Soroban transaction with
\* its footprint from the one simulation was asked about.
\* `until` is the last moment it may settle.
Content == [source : Accounts, op : Op, amount : Nat, seq : Nat,
            prepared : BOOLEAN, until : Nat]

ASSUME NetworkAssumption ==
  /\ Pool \notin Accounts /\ PoolIsContract \in BOOLEAN
  /\ NoLine \notin Nat
  /\ MaxHeld \in Nat /\ MaxSeq \in Nat /\ MaxSent \in Nat /\ MaxTime \in Nat

VARIABLES
  exists,   \* the account has been created, and holds XLM
  line,     \* USDC held, or NoLine
  now,      \* the network's clock
  seq,      \* sequence number of the last transaction of the account
  sent,     \* every transaction the application handed to the network
  queue,    \* indexes of those not yet settled
  outcome   \* what became of each: "none" (not found), "success", "failed"

chainVars == <<exists, line, seq, now>>
netVars == <<exists, line, seq, now, sent, queue, outcome>>

-----------------------------------------------------------------------------
NetInit ==
  /\ exists \in [Accounts -> BOOLEAN]
  /\ \E n \in {0, NoLine} : line = [h \in Holders |-> IF h = Pool THEN n ELSE NoLine]
  /\ PoolIsContract => line[Pool] = NoLine
  /\ seq = [a \in Accounts |-> 0]
  /\ now = 0 /\ sent = <<>> /\ queue = {} /\ outcome = <<>>

\* A signature holds for the content it was made over and for nothing else.
WellSigned(tx) == tx.signature = [by |-> tx.content.source, over |-> tx.content]

CanReceive(h) == line[h] # NoLine \/ (h = Pool /\ PoolIsContract)

Held(h) == IF line[h] = NoLine THEN 0 ELSE line[h]

\* Whether the operations of the transaction succeed in the current state.
Settles(t) ==
  CASE t.op = "contribute" ->
         /\ line[t.source] # NoLine /\ line[t.source] >= t.amount
         /\ CanReceive(Pool)
    [] t.op = "untrust" -> line[t.source] # NoLine /\ line[t.source] = t.amount
    [] OTHER -> TRUE

LineAfter(t) ==
  CASE t.op = "contribute" ->
         [line EXCEPT ![t.source] = @ - t.amount, ![Pool] = Held(Pool) + t.amount]
    [] t.op = "trust" -> [line EXCEPT ![t.source] = Held(t.source)]
    [] t.op = "untrust" -> [line EXCEPT ![t.source] = NoLine]
    [] OTHER -> line

\* A transaction that reaches the ledger uses up its sequence number, whether
\* or not its operations succeed.
ApplyQueued(i) ==
  LET t == sent[i].content IN
  /\ i \in queue /\ t.seq = seq[t.source] + 1 /\ now <= t.until
  /\ queue' = queue \ {i}
  /\ seq' = [seq EXCEPT ![t.source] = t.seq]
  /\ line' = IF Settles(t) THEN LineAfter(t) ELSE line
  /\ outcome' = [outcome EXCEPT ![i] = IF Settles(t) THEN "success" ELSE "failed"]
  /\ UNCHANGED <<exists, now, sent>>

\* Its sequence number was used by another, its time passed, or there was no room.
DropQueued(i) ==
  /\ i \in queue
  /\ queue' = queue \ {i}
  /\ UNCHANGED <<chainVars, sent, outcome>>

\* What a server must refuse at the door; it may refuse anything else too.
MustRefuse(tx) ==
  \/ ~WellSigned(tx)
  \/ tx.content.seq # seq[tx.content.source] + 1
  \/ tx.content.until < now
  \/ tx.content.op = "contribute" /\ ~tx.content.prepared

\* The network takes the transaction into its queue.
Enqueue(tx) ==
  /\ ~MustRefuse(tx)
  /\ sent' = Append(sent, tx)
  /\ queue' = queue \cup {Len(sent) + 1}
  /\ outcome' = Append(outcome, "none")
  /\ UNCHANGED chainVars

\* Circle's faucet, or anyone else, pays the account.
Receive(a) ==
  /\ line[a] # NoLine /\ line[a] < MaxHeld
  /\ line' = [line EXCEPT ![a] = @ + 1]
  /\ UNCHANGED <<exists, seq, now, sent, queue, outcome>>

\* The same account used from another device: one more transaction of it,
\* with whatever that does to what it holds.
ElsewhereSpends(a) ==
  /\ exists[a] /\ seq[a] < MaxSeq
  /\ seq' = [seq EXCEPT ![a] = @ + 1]
  /\ line' = [line EXCEPT ![a] = IF @ = NoLine THEN 0
                                    ELSE IF @ = 0 THEN NoLine ELSE @ - 1]
  /\ UNCHANGED <<exists, now, sent, queue, outcome>>

Friendbot(a) ==
  /\ ~exists[a]
  /\ exists' = [exists EXCEPT ![a] = TRUE]
  /\ UNCHANGED <<line, seq, now, sent, queue, outcome>>

PassTime ==
  /\ now < MaxTime
  /\ now' = now + 1
  /\ UNCHANGED <<exists, line, seq, sent, queue, outcome>>

NetworkStep ==
  \/ \E i \in queue : ApplyQueued(i) \/ DropQueued(i)
  \/ \E a \in Accounts : Receive(a) \/ ElsewhereSpends(a)
  \/ PassTime
=============================================================================
