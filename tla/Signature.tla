----------------------------- MODULE Signature ------------------------------
(***************************************************************************)
(* What verifySignature makes of a signature header: the prefix it starts  *)
(* with, what follows it, and the timestamp it may carry.  Ingestion draws *)
(* its verdicts from here.                                                 *)
(***************************************************************************)
EXTENDS Naturals

(* A prefix names an algorithm or carries a timestamp; the digest after it *)
(* is the one computed from the body, another one, or of another length.   *)
SignatureHeaders ==
  [prefix : {"none", "sha1=", "sha256=", "t=,v1="},
   digest : {"expected", "wrong", "malformed"}]

(* stripPrefix knows the names of algorithms only: what is left of any     *)
(* other header is longer than a digest.                                   *)
StripPrefix(header) ==
  IF header.prefix \in {"none", "sha1=", "sha256="} THEN header.digest ELSE "malformed"

(* extractTimestampFromHeader finds a timestamp in one format only, and a  *)
(* tolerance of zero disables the test of its age.                         *)
TooOld(header, age, tolerance) ==
  header.prefix = "t=,v1=" /\ tolerance > 0 /\ age > tolerance

(* For a source with an algorithm, a header and a secret.                  *)
VerifySignature(header, age, tolerance) ==
  ~TooOld(header, age, tolerance) /\ StripPrefix(header) = "expected"

=============================================================================
