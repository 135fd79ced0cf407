---------------------------- MODULE MCSignature -----------------------------
(***************************************************************************)
(* One webhook that its sender has signed travels for some time and is     *)
(* then verified.                                                          *)
(***************************************************************************)
EXTENDS Signature

CONSTANTS
  ToleranceMs,     \* signatureToleranceMs of the configuration
  MaxAge           \* bound: how long the webhook may travel

VARIABLES header, age, verdict

signatureVars == <<header, age, verdict>>

SignatureInit ==
  /\ header \in SignatureHeaders
  /\ age = 0
  /\ verdict = "none"

Travel ==
  /\ verdict = "none" /\ age < MaxAge
  /\ age' = age + 1
  /\ UNCHANGED <<header, verdict>>

VerifyHeader ==
  /\ verdict = "none"
  /\ verdict' = IF VerifySignature(header, age, ToleranceMs) THEN "valid" ELSE "invalid"
  /\ UNCHANGED <<header, age>>

SignatureSpec == SignatureInit /\ [][Travel \/ VerifyHeader]_signatureVars

(* The repository's README sends "t=1712836800,v1=computed_hmac_here" and  *)
(* is answered "accepted": a header in any of the formats the code names,  *)
(* with the right digest and in time, is valid.                            *)
GenuineIsValid ==
  verdict = "invalid" => header.digest # "expected" \/ age > ToleranceMs
=============================================================================
