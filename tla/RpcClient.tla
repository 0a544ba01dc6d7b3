----------------------------- MODULE RpcClient -----------------------------
(***************************************************************************)
(* src/rpc.ts: one JSON-RPC call, tried again while the server is busy or  *)
(* out of reach, and abandoned on the second interrupt.                    *)
(***************************************************************************)
EXTENDS Naturals

CONSTANTS MaxAttempts,  \* maxAttempts
          PageLimit     \* RPC_LIMITS.pageLimit

\* result and the errors of attempt(): considered and busy are RpcErrors, of
\* codes that are not and that are worth asking again for; transport is no
\* answer, a timeout, a status that is not OK or a body with neither result nor
\* error; aborted is the request being abandoned.
Answers == {"result", "considered", "busy", "transport"}
Errors == {"considered", "busy", "transport", "aborted"}

VARIABLES
  at,        \* idle, asking, waiting
  attempt,   \* attempts of this call
  aborted,   \* whether the second interrupt has come
  requests,  \* requests the server has seen of this call
  outcome    \* how the last call ended

vars == <<at, attempt, aborted, requests, outcome>>

Init == at = "idle" /\ attempt = 0 /\ aborted = FALSE /\ requests = 0 /\ outcome = "none"

transient(error) == error = "busy"

End(how) == at' = "idle" /\ outcome' = how /\ UNCHANGED <<attempt, aborted, requests>>

\* The body of the loop: throwIfAborted, then a request.
Attempt(n) ==
  IF aborted THEN End("aborted")
  ELSE /\ at' = "asking" /\ attempt' = n /\ requests' = n /\ outcome' = "none"
       /\ UNCHANGED aborted

\* getEvents refuses a page beyond the server's limit before asking.
Call(limit) ==
  /\ at = "idle"
  /\ IF limit > PageLimit THEN End("range-error") ELSE Attempt(1)

Final(error) == error = "considered" \/ attempt >= MaxAttempts

\* Fault: only the top of the loop looks at the signal.
WaitsThough(error) == ~Final(error)

\* throwIfAborted comes before the wait.
Waits(error) == ~Final(error) /\ ~aborted

Answer ==
  /\ at = "asking" /\ ~aborted /\ End("result")

Fail(error) ==
  /\ at = "asking" /\ (error = "aborted") = aborted
  /\ IF Waits(error)
     THEN at' = "waiting" /\ UNCHANGED <<attempt, aborted, requests, outcome>>
     ELSE End(error)

\* The wait itself hears nothing of the signal.
Wake == at = "waiting" /\ Attempt(attempt + 1)

Abort ==
  /\ ~aborted /\ aborted' = TRUE
  /\ UNCHANGED <<at, attempt, requests, outcome>>

Next ==
  \/ \E limit \in {0, PageLimit, PageLimit + 1} : Call(limit)
  \/ Answer \/ Wake \/ Abort
  \/ \E error \in Errors : Fail(error)

\* bin/ingest.ts and rpc.ts:145-149: the second interrupt is a real stop.  It
\* cannot cut a wait short, but no call begins another wait after it, however
\* the request it abandons ends.
AbortStopsWaiting == [][aborted /\ at # "waiting" => at' # "waiting"]_vars
=============================================================================
