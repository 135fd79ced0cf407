-------------------------- MODULE HttpClientProofs --------------------------
(* The time budget of a delivery, for every timeout and redirect limit.    *)
EXTENDS HttpClient, TLAPS

(* The timer of a pending request is never set beyond the timeout, and has *)
(* not been passed.  Without the first part a redirect could extend it.    *)
ArmedWithinBudget == step = "fetch" => elapsed <= deadline /\ deadline <= TimeoutMs

(* A request is sent only while redirects are left.                        *)
RedirectsLeft ==
  step \notin {"body", "returned"} => redirectCount <= MaxRedirects

HttpInv == HttpTypeOK /\ ArmedWithinBudget /\ RedirectsLeft

(* The invariant holds initially ...                                       *)
LEMMA HttpInitInv == HttpInit => HttpInv
  BY HttpAssumption DEF HttpInit, HttpInv, HttpTypeOK, ArmedWithinBudget, RedirectsLeft, Codes

(* ... and every step keeps it.                                            *)
LEMMA HttpStepInv == HttpInv /\ [HttpNext]_httpVars => HttpInv'
<1> SUFFICES ASSUME HttpInv, [HttpNext]_httpVars
             PROVE  HttpInv'
  OBVIOUS
<1> USE HttpAssumption DEF HttpInv, HttpTypeOK, ArmedWithinBudget, RedirectsLeft, Codes
<1>1. CASE ValidateUrl
  BY <1>1 DEF ValidateUrl, Return
<1>10. CASE Resolve4
  BY <1>10 DEF Resolve4
<1>11. CASE Resolve6
  BY <1>11 DEF Resolve6, Return
<1>2. CASE SendRequest
  BY <1>2 DEF SendRequest, Return
<1>3. CASE Abort
  BY <1>3 DEF Abort, Return
<1>4. CASE Redirected
  BY <1>4 DEF Redirected, Return
<1>5. CASE Respond
  BY <1>5 DEF Respond
<1>6. CASE FetchFails
  BY <1>6 DEF FetchFails, Return
<1>7. CASE ReadBody
  BY <1>7 DEF ReadBody, Return
<1>8. CASE Tick
  BY <1>8 DEF Tick
<1>9. CASE UNCHANGED httpVars
  BY <1>9 DEF httpVars
<1> QED
  BY <1>1, <1>2, <1>3, <1>4, <1>5, <1>6, <1>7, <1>8, <1>9, <1>10, <1>11 DEF HttpNext

(* The inductive invariant of the call.                                    *)
THEOREM HttpInvariant == HttpSpec => []HttpInv
<1> QED
  BY HttpInitInv, HttpStepInv, PTL DEF HttpSpec

(* The call keeps its types; in particular it follows MaxRedirects         *)
(* redirects at most.                                                      *)
THEOREM HttpTypeCorrect == HttpSpec => []HttpTypeOK
<1>1. HttpInv => HttpTypeOK
  BY DEF HttpInv
<1> QED
  BY <1>1, HttpInvariant, PTL

(* Chains of redirects and slow answers never make the call wait for       *)
(* headers beyond timeout_ms, for any timeout and any number of redirects. *)
THEOREM HeadersInTime == HttpSpec => []HeadersWithinTimeout
<1>1. HttpInv => HeadersWithinTimeout
  BY HttpAssumption DEF HttpInv, HttpTypeOK, ArmedWithinBudget, HeadersWithinTimeout
<1> QED
  BY <1>1, HttpInvariant, PTL

=============================================================================
