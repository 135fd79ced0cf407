----------------------------- MODULE JsonDepth ------------------------------
(***************************************************************************)
(* exceedsDepth scans a payload for its nesting before JSON.parse sees it. *)
(* The scanner of json-safe-parse.ts reads, character by character, what a *)
(* writer of well-formed JSON produces; the writer knows how deep it is,   *)
(* the scanner only sees characters.                                       *)
(***************************************************************************)
EXTENDS Naturals

VARIABLES
  maxDepth,                    \* the argument; the server passes 20
  depth, inString, escape,     \* the scanner's
  exceeds,                     \* it has returned true
  nesting,                     \* containers open in the text so far
  deepest,                     \* the most there ever were
  place                        \* of the writer: "outside" a string, inside
                               \* one, or after a "backslash" there

jsonVars == <<maxDepth, depth, inString, escape, exceeds, nesting, deepest, place>>

(* Of { and [, of } and ], the quote, the backslash, and the rest.         *)
Characters == {"open", "close", "quote", "backslash", "plain"}

JsonInit ==
  /\ maxDepth \in Nat
  /\ depth = 0 /\ inString = FALSE /\ escape = FALSE /\ exceeds = FALSE
  /\ nesting = 0 /\ deepest = 0 /\ place = "outside"

-----------------------------------------------------------------------------
(* One turn of the loop; after it has returned nothing changes any more.   *)
Scan(char) ==
  LET structural == ~escape /\ ~inString
  IN  IF exceeds THEN UNCHANGED <<depth, inString, escape, exceeds>>
      ELSE /\ escape' = (~escape /\ char = "backslash" /\ inString)
           /\ inString' = (inString # (~escape /\ char = "quote"))
           /\ depth' = CASE structural /\ char = "open" -> depth + 1
                         [] structural /\ char = "close" -> depth - 1
                         [] OTHER -> depth
           /\ exceeds' = (structural /\ char = "open" /\ depth + 1 > maxDepth)

-----------------------------------------------------------------------------
(* What JSON.parse would accept: containers close in turn, a string ends   *)
(* at a quote without a backslash before it, and there is no backslash     *)
(* outside a string.                                                       *)
OpenContainer ==
  /\ place = "outside"
  /\ nesting' = nesting + 1
  /\ deepest' = IF nesting + 1 > deepest THEN nesting + 1 ELSE deepest
  /\ UNCHANGED <<maxDepth, place>>
  /\ Scan("open")

CloseContainer ==
  /\ place = "outside"
  /\ nesting > 0
  /\ nesting' = nesting - 1
  /\ UNCHANGED <<maxDepth, deepest, place>>
  /\ Scan("close")

Quote ==
  /\ \/ place = "outside" /\ place' = "inside"
     \/ place = "inside" /\ place' = "outside"
  /\ UNCHANGED <<maxDepth, nesting, deepest>>
  /\ Scan("quote")

Backslash ==
  /\ place = "inside"
  /\ place' = "backslash"
  /\ UNCHANGED <<maxDepth, nesting, deepest>>
  /\ Scan("backslash")

(* Any character after a backslash; any other in a string, brackets and    *)
(* braces too; digits, commas and white space outside.                     *)
Other(char) ==
  /\ \/ place = "backslash"
     \/ place = "inside" /\ char \notin {"quote", "backslash"}
     \/ place = "outside" /\ char = "plain"
  /\ place' = IF place = "backslash" THEN "inside" ELSE place
  /\ UNCHANGED <<maxDepth, nesting, deepest>>
  /\ Scan(char)

JsonNext ==
  \/ OpenContainer
  \/ CloseContainer
  \/ Quote
  \/ Backslash
  \/ \E char \in Characters : Other(char)

JsonSpec == JsonInit /\ [][JsonNext]_jsonVars

-----------------------------------------------------------------------------
(* "Braces inside quoted strings are correctly ignored": whatever the      *)
(* strings of a text contain, safeParse refuses it exactly when it nests   *)
(* deeper than maxDepth.                                                   *)
DepthIsNesting == exceeds <=> deepest > maxDepth

=============================================================================
