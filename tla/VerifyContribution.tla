------------------------ MODULE VerifyContribution ------------------------
(***************************************************************************)
(* scripts/verify-contribution.mts: a script that runs the contribution    *)
(* library against testnet, stage by stage, and exits with 0 only if every *)
(* check held.  contribute, addTrustline and getUsdcBalance are the        *)
(* library's own: each may answer anything and do anything to the donor's  *)
(* account, whose signer it is given.  Only the payment is the script's.   *)
(***************************************************************************)
EXTENDS Naturals, Sequences

CONSTANT SignerContract  \* whether the script checks the signer's contract

Kinds == {"missing-trustline", "insufficient-balance", "simulation-failed",
          "submission-failed"}
Answers == {"success", "unclassified"} \cup Kinds

\* The stages: calls of the library with what is expected of them, and setup.
Call(amount, skip, to, expect) ==
  [do |-> "contribute", amount |-> amount, skip |-> skip, to |-> to, expect |-> expect]
Other(what) == [do |-> what, amount |-> 0, skip |-> FALSE, to |-> "pool", expect |-> "success"]

Setup == <<Other("setup")>>
FailureTaxonomy ==
  <<Call(5, FALSE, "pool", "missing-trustline"), Call(5, TRUE, "pool", "simulation-failed"),
    Other("addTrustline"), Call(5, FALSE, "pool", "insufficient-balance"), Other("payment"),
    Call(1, FALSE, "stranger", "missing-trustline")>>
SuccessCase ==
  <<Call(25, FALSE, "pool", "success"), Other("balances"), Call(5, TRUE, "pool", "success"),
    Call(999, TRUE, "pool", "simulation-failed")>>
Signer == IF SignerContract THEN <<Other("signer")>> ELSE <<>>
AmountHandling == <<Other("amounts")>>
Stages == Setup \o FailureTaxonomy \o SuccessCase \o Signer \o AmountHandling

VARIABLES
  stage,     \* the stage to come
  donor,     \* the donor as a right library would have left it: trustline, balance
  pool,      \* the pool's balance, likewise
  net,       \* the donor's trustline as it is, and whether the payment reached it
  failures,  \* checks that failed
  wrong,     \* the stages answered otherwise than a right library would have
  exit       \* the exit code, once there is one

vars == <<stage, donor, pool, net, failures, wrong, exit>>

Running == 99

Init ==
  /\ stage = 1 /\ donor = [line |-> FALSE, held |-> 0] /\ pool = 0
  /\ net = [line |-> FALSE, paid |-> FALSE]
  /\ failures = 0 /\ wrong = {} /\ exit = Running

At(what) == exit = Running /\ stage <= Len(Stages) /\ Stages[stage].do = what
Advances == stage' = stage + 1 /\ UNCHANGED exit

\* check counts what is not so, up to 1 here: the exit code asks no more.
check(ok) == failures' = IF ok THEN failures ELSE 1

Finds(right) == wrong' = IF right THEN wrong ELSE wrong \cup {stage}

\* Whatever a call of the library makes of the donor's trustline.
LibraryActs == \E line \in BOOLEAN : net' = [net EXCEPT !.line = line]

\* Fault: any classified failure will do.
ExpectsAnyKind(answer, kind) == answer \in Kinds

ExpectsKind(answer, kind) == answer = kind

\* An answer that was to be a success and is not ends the script by its exception.
expectFailure(answer, kind) == check(ExpectsKind(answer, kind)) /\ Advances

\* An exception nobody catches.
Throws == exit' = 1 /\ UNCHANGED <<stage, donor, pool, net, failures, wrong>>

\* What a right library answers.
Right(c) ==
  IF ~c.skip /\ ~donor.line THEN "missing-trustline"
  ELSE IF ~c.skip /\ donor.held < c.amount THEN "insufficient-balance"
  ELSE IF ~c.skip /\ c.to = "stranger" THEN "missing-trustline"
  ELSE IF ~donor.line \/ donor.held < c.amount \/ c.to = "stranger" THEN "simulation-failed"
  ELSE "success"

Contributes ==
  /\ At("contribute") /\ LibraryActs /\ LET c == Stages[stage] IN
     /\ IF Right(c) = "success"
        THEN donor' = [donor EXCEPT !.held = @ - c.amount] /\ pool' = pool + c.amount
        ELSE UNCHANGED <<donor, pool>>
     /\ \E answer \in Answers :
          /\ Finds(answer = Right(c))
          /\ IF c.expect # "success" THEN expectFailure(answer, c.expect)
             ELSE IF answer = "success" THEN Advances /\ UNCHANGED failures
             ELSE exit' = 1 /\ UNCHANGED <<stage, failures>>

\* fund, submit and submitSorobanOp bring the network where the stage wants it.
SetUp == At("setup") /\ Advances /\ UNCHANGED <<donor, pool, net, failures, wrong>>

addTrustline ==
  /\ At("addTrustline") /\ Advances /\ LibraryActs
  /\ donor' = [donor EXCEPT !.line = TRUE] /\ UNCHANGED <<pool, failures, wrong>>

\* The issuer's payment, which the network refuses an account without a trustline.
Pays ==
  /\ At("payment") /\ net.line /\ Advances
  /\ donor' = [donor EXCEPT !.held = @ + 100] /\ net' = [net EXCEPT !.paid = TRUE]
  /\ UNCHANGED <<pool, failures, wrong>>

\* What getUsdcBalance says of both, after the first contribution.
Balances ==
  /\ At("balances") /\ LibraryActs /\ \E left, has \in {0, 25, 75, 100} :
       check(left = 75 /\ has = 25) /\ Finds(left = donor.held /\ has = pool)
  /\ Advances /\ UNCHANGED <<donor, pool>>

\* What the signer made of the transaction it was given; what toStroops made of
\* an amount with more decimals than there are.
ChecksAnswer(what) ==
  /\ At(what) /\ \E ok \in BOOLEAN : check(ok) /\ Finds(ok)
  /\ Advances /\ UNCHANGED <<donor, pool, net>>

Ends ==
  /\ exit = Running /\ stage > Len(Stages)
  /\ exit' = IF failures = 0 THEN 0 ELSE 1
  /\ UNCHANGED <<stage, donor, pool, net, failures, wrong>>

Interrupted == exit = Running /\ stage <= Len(Stages) /\ Throws

Next ==
  \/ SetUp \/ Contributes \/ addTrustline \/ Pays \/ Balances
  \/ ChecksAnswer("signer") \/ ChecksAnswer("amounts") \/ Ends \/ Interrupted

Spec == Init /\ [][Next]_vars

-----------------------------------------------------------------------------
\* verify-contribution.mts:297-302: the script passes only a library that
\* answered every call, and told both balances, as a right library would have
\* from the same start, and only if the donor could be paid.  Of the money the
\* library says it moved it shows nothing.
PassMeansRight == exit = 0 => wrong = {} /\ net.paid
=============================================================================
