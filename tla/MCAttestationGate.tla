-------------------------- MODULE MCAttestationGate --------------------------
(***************************************************************************)
(* Instances of AttestationGate for TLC.                                   *)
(***************************************************************************)
EXTENDS AttestationGate

CONSTANTS p1, p2, payer, payee, submitter, usdc, other, k1, k2

\* A deployment that needs both keys, and one that needs either.
TwoOfTwo == [admin |-> payer, authority |-> <<k1, k2>>, threshold |-> 2,
             distributor |-> submitter, asset |-> usdc]
OneOfTwo == [TwoOfTwo EXCEPT !.threshold = 1]
NoneOfTwo == [TwoOfTwo EXCEPT !.threshold = 0]
ThreeOfTwo == [TwoOfTwo EXCEPT !.threshold = 3]
\* One key in both seats.
OneKeyTwice == [TwoOfTwo EXCEPT !.authority = <<k1, k1>>]

Approval == [recipient |-> payee, asset |-> usdc, category |-> "Direct",
             amount |-> 8, sequence |-> 0, expiry_ledger |-> 2, pool |-> p1,
             network_id |-> "testnet"]

\* An approval, a rival for its slot, its successor, and its misdirections.
MCConfigs == {TwoOfTwo, OneKeyTwice, NoneOfTwo, ThreeOfTwo}
MCApprovals ==
  {Approval,
   [Approval EXCEPT !.category = "Operations", !.amount = 1, !.recipient = p1],
   [Approval EXCEPT !.sequence = 1, !.amount = 1]}
MCAmounts == {0, 1, 8, 10, 12}
MCBalance ==
  [a \in Assets |-> [h \in Addresses |-> IF h = payer THEN 12 ELSE 0]]

\* Two deployments sharing their keys, and approvals for the wrong door.
MCFewAmounts == {6, 8}
Misdirected == [Approval EXCEPT !.amount = 6]
MCTwoConfigs == {OneOfTwo}
MCWrongDoors ==
  {Misdirected,
   [Misdirected EXCEPT !.pool = p2],
   [Misdirected EXCEPT !.network_id = "mainnet"],
   [Misdirected EXCEPT !.asset = other]}
=============================================================================
