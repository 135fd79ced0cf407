----------------------------- MODULE HttpClient -----------------------------
(***************************************************************************)
(* One call of deliverWebhook: the address check, then requests that       *)
(* follow redirects by hand under one time budget, then the body of the    *)
(* final response.  DeliveryWorker sees only its result.                   *)
(***************************************************************************)
EXTENDS Naturals

CONSTANTS
  TimeoutMs,       \* timeout_ms of the destination
  MaxRedirects,    \* 3 by default
  Horizon          \* bound: the clock stops there, beyond the timeout

ASSUME HttpAssumption ==
  /\ TimeoutMs \in Nat /\ MaxRedirects \in Nat /\ Horizon \in Nat
  /\ TimeoutMs < Horizon

VARIABLES
  elapsed,         \* time since startMs
  step,            \* what the call does or waits for
  redirectCount,
  deadline,        \* when the timer of the current request fires
  statusCode       \* of the response whose body is read, then of the result

httpVars == <<elapsed, step, redirectCount, deadline, statusCode>>

(* Status codes as far as the worker tells them apart; "0" is no response. *)
Codes == {"0", "2xx", "other"}

HttpTypeOK ==
  /\ elapsed \in 0..Horizon
  /\ step \in {"validate", "resolve4", "resolve6", "budget", "fetch", "body", "returned"}
  /\ redirectCount \in 0..(MaxRedirects + 1)
  /\ deadline \in Nat
  /\ statusCode \in Codes

HttpInit ==
  /\ elapsed = 0
  /\ step = "validate"
  /\ redirectCount = 0
  /\ deadline = 0
  /\ statusCode = "0"

Return(code) ==
  /\ step' = "returned"
  /\ statusCode' = code

-----------------------------------------------------------------------------
(* resolveAndValidateUrl, before any timer is set.  A URL without a host   *)
(* name to resolve is decided at once ...                                  *)
ValidateUrl ==
  /\ step = "validate"
  /\ \/ step' \in {"budget", "resolve4"} /\ UNCHANGED statusCode
     \/ Return("0")
  /\ UNCHANGED <<elapsed, redirectCount, deadline>>

(* ... otherwise the IPv4 and then the IPv6 addresses are asked for.  A    *)
(* failing query counts as an empty answer.                                *)
Resolve4 ==
  /\ step = "resolve4"
  /\ step' = "resolve6"
  /\ UNCHANGED <<elapsed, redirectCount, deadline, statusCode>>

(* One private address among the answers refuses the URL; no answer at all *)
(* does not.                                                               *)
Resolve6 ==
  /\ step = "resolve6"
  /\ \/ step' = "budget" /\ UNCHANGED statusCode
     \/ Return("0")
  /\ UNCHANGED <<elapsed, redirectCount, deadline>>

(* Mutant of SendRequest: each request gets the whole timeout anew.        *)
SendWithFullTimeout ==
  /\ step = "budget"
  /\ \/ elapsed >= TimeoutMs /\ Return("0") /\ UNCHANGED deadline
     \/ /\ elapsed < TimeoutMs
        /\ deadline' = elapsed + TimeoutMs
        /\ step' = "fetch"
        /\ UNCHANGED statusCode
  /\ UNCHANGED <<elapsed, redirectCount>>

(* The top of the loop: what is left of the budget arms the timer.         *)
SendRequest ==
  /\ step = "budget"
  /\ \/ elapsed >= TimeoutMs /\ Return("0") /\ UNCHANGED deadline
     \/ /\ elapsed < TimeoutMs
        /\ deadline' = elapsed + (TimeoutMs - elapsed)
        /\ step' = "fetch"
        /\ UNCHANGED statusCode
  /\ UNCHANGED <<elapsed, redirectCount>>

(* The timer aborts the request.                                           *)
Abort ==
  /\ step = "fetch"
  /\ elapsed >= deadline
  /\ Return("0")
  /\ UNCHANGED <<elapsed, redirectCount, deadline>>

(* Mutants of Redirected: one redirect too many, and a count that is not   *)
(* advanced.                                                               *)
RedirectOneMore ==
  /\ step = "fetch"
  /\ redirectCount' = redirectCount + 1
  /\ \/ redirectCount <= MaxRedirects /\ step' = "budget" /\ UNCHANGED statusCode
     \/ Return("0")
  /\ UNCHANGED <<elapsed, deadline>>

RedirectUncounted ==
  /\ step = "fetch"
  /\ step' = "budget"
  /\ UNCHANGED <<elapsed, redirectCount, deadline, statusCode>>

(* A redirect is followed, unless there have been MaxRedirects already or  *)
(* its Location is missing or no URL.                                      *)
Redirected ==
  /\ step = "fetch"
  /\ redirectCount' = redirectCount + 1
  /\ \/ redirectCount < MaxRedirects /\ step' = "budget" /\ UNCHANGED statusCode
     \/ Return("0")
  /\ UNCHANGED <<elapsed, deadline>>

(* The headers of any other response: the timer is cleared.                *)
Respond ==
  /\ step = "fetch"
  /\ step' = "body"
  /\ statusCode' \in {"2xx", "other"}
  /\ UNCHANGED <<elapsed, redirectCount, deadline>>

(* fetch rejects: no connection, a broken response.                        *)
FetchFails ==
  /\ step = "fetch"
  /\ Return("0")
  /\ UNCHANGED <<elapsed, redirectCount, deadline>>

(* response.text() resolves, or rejects and the status is lost.  Nothing   *)
(* bounds the wait for it: a destination may go on sending for ever.       *)
ReadBody ==
  /\ step = "body"
  /\ \E code \in {statusCode, "0"} : Return(code)
  /\ UNCHANGED <<elapsed, redirectCount, deadline>>

(* Time passes while the call waits.  A timer that is due fires first.     *)
Tick ==
  /\ \/ step \in {"resolve4", "resolve6", "body"}
     \/ step = "fetch" /\ elapsed < deadline
  /\ elapsed < Horizon
  /\ elapsed' = elapsed + 1
  /\ UNCHANGED <<step, redirectCount, deadline, statusCode>>

-----------------------------------------------------------------------------
HttpNext ==
  \/ ValidateUrl
  \/ Resolve4
  \/ Resolve6
  \/ SendRequest
  \/ Abort
  \/ Redirected
  \/ Respond
  \/ FetchFails
  \/ ReadBody
  \/ Tick

(* Time passes, due timers fire, and the resolver answers or gives up.     *)
(* The destination need not answer a request, and its body need not end:   *)
(* no timer runs while it is read.                                         *)
HttpFairness ==
  /\ WF_httpVars(ValidateUrl)
  /\ WF_httpVars(Resolve4)
  /\ WF_httpVars(Resolve6)
  /\ WF_httpVars(SendRequest)
  /\ WF_httpVars(Abort)
  /\ WF_httpVars(Tick)

HttpSpec == HttpInit /\ [][HttpNext]_httpVars /\ HttpFairness

-----------------------------------------------------------------------------
(* However slowly the destination and the hosts it redirects to answer,    *)
(* the whole chain of requests together waits no longer than timeout_ms.   *)
HeadersWithinTimeout == step = "fetch" => elapsed <= TimeoutMs

(* Silent hosts and loops of redirects do not keep the worker's slot: the  *)
(* call returns, or a response has come whose body is without an end, the  *)
(* one thing that keeps a call for ever.                                   *)
ReturnsUnlessBodyEndless == <>(step = "returned") \/ <>[](step = "body")

(* "Aborts after timeoutMs milliseconds": no response is accepted later.   *)
(* The body is read after the timer has been cleared, which refutes it.    *)
AnsweredInTime == step = "returned" /\ statusCode # "0" => elapsed <= TimeoutMs

=============================================================================
