---------------------------- MODULE MCWalletPage ----------------------------
(* What the comments of the wallets-kit page say of it, and its code does not do. *)
EXTENDS WalletPage

\* page.tsx:98-100: "The log is the account of one person's session, so it goes
\* when they do."
LogIsOfThisSession == \A a \in log \ {Nobody} : connected /\ a = address

\* page.tsx:252-253: "Nobody reaches here holding one without having been asked
\* first".
NobodyBurnsUnasked ==
  [][job'["trustline"].tx # job["trustline"].tx /\ job'["trustline"].tx # 0
       /\ ~job["trustline"].on
       /\ held[job["trustline"].by] \notin {0, NoLine}
     => job["trustline"].asked]_vars

\* page.tsx:118-119: "The cancelled flag stops a slow response for an old address
\* from overwriting a newer one."  No run is kept of this one.
NewerReadingStays ==
  [][balances.address = address /\ address # Nobody /\ address' = address
       /\ balances'.address # Nobody
     => balances'.address = address]_vars
=============================================================================
