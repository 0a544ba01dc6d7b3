------------------------------ MODULE MCIngest ------------------------------
(***************************************************************************)
(* Instances of Ingest for TLC.                                            *)
(***************************************************************************)
EXTENDS Ingest, TLC

CONSTANTS near, far, foreign, fixture, f1, f2, i1, i2

MCNetworks ==
  [s \in Servers |-> IF s = foreign THEN "mainnet" ELSE "testnet"]

Plain == [server |-> near, filters |-> f1, endLedger |-> NoLedger,
          once |-> FALSE, acknowledgeGap |-> TRUE]

\* A history by how many events each ledger has.
Chain(counts) ==
  UNION {{n * LedgerSize + k : k \in 0 .. counts[n] - 1} : n \in DOMAIN counts}

Everywhere(events) == [n \in {"testnet", "mainnet"} |-> [f \in Filters |-> events]]

\* Quiet stretches as long as the scan cap, and ledgers cut by a page limit.
MCChains ==
  {Everywhere(Chain(c)) :
     c \in {<<1, 0, 0, 0, 1>>, <<2, 2, 1, 2, 0>>, <<0, 1, 2, 0, 2>>, <<1, 2, 0, 2, 1>>}}

MCOptions ==
  {[Plain EXCEPT !.endLedger = 4, !.once = TRUE],
   [Plain EXCEPT !.endLedger = 4, !.acknowledgeGap = FALSE]}

\* Networks and filters that differ, and a provider with another window.
MCOtherChains ==
  {[n \in {"testnet", "mainnet"} |->
      [f \in Filters |->
         IF n = "mainnet" THEN Chain(<<2, 2, 2>>)
         ELSE IF f = f1 THEN Chain(<<1, 2, 1>>) ELSE Chain(<<2, 0, 2>>)]]}

MCAnyOptions ==
  {Plain,
   [Plain EXCEPT !.filters = f2],
   [Plain EXCEPT !.server = foreign]}

MCFixtureOptions == {[Plain EXCEPT !.server = fixture, !.once = TRUE]}

MCSharedOptions == {Plain, [Plain EXCEPT !.server = far, !.endLedger = 1]}

Symmetry == Permutations(Processes)

\* Bound: no running process is followed that was interrupted in a history of
\* three ledgers.
InterruptsAreEarly ==
  (\E p \in Processes : interrupts[p] > 0) => \A s \in Servers : latest[s] < 3

MCPlainOptions == {Plain}
MCRewindOptions == {Plain, [Plain EXCEPT !.endLedger = 1]}
=============================================================================
