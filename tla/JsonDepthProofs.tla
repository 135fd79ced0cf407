-------------------------- MODULE JsonDepthProofs ---------------------------
(* The scanner is right about every text, of any length and any depth.     *)
EXTENDS JsonDepth, TLAPS

JsonTypes ==
  /\ maxDepth \in Nat /\ depth \in Nat /\ nesting \in Nat /\ deepest \in Nat
  /\ inString \in BOOLEAN /\ escape \in BOOLEAN /\ exceeds \in BOOLEAN
  /\ place \in {"outside", "inside", "backslash"}

(* As long as it goes on, the scanner knows the writer's place and depth.  *)
InStep ==
  ~exceeds =>
    /\ inString = (place # "outside")
    /\ escape = (place = "backslash")
    /\ depth = nesting

JsonInv == JsonTypes /\ nesting <= deepest /\ InStep /\ DepthIsNesting

(* Nothing is open before the first character.                             *)
LEMMA JsonInitInv == JsonInit => JsonInv
<1> SUFFICES ASSUME JsonInit
             PROVE  JsonInv
  OBVIOUS
<1>1. JsonTypes /\ nesting <= deepest
  <2>1. inString \in BOOLEAN /\ escape \in BOOLEAN /\ exceeds \in BOOLEAN
    BY Zenon DEF JsonInit
  <2>2. maxDepth \in Nat /\ depth \in Nat /\ nesting \in Nat /\ deepest \in Nat
    BY DEF JsonInit
  <2>3. nesting <= deepest /\ place \in {"outside", "inside", "backslash"}
    BY DEF JsonInit
  <2> QED
    BY <2>1, <2>2, <2>3 DEF JsonTypes
<1>2. InStep
  BY DEF JsonInit, InStep
<1>3. ~exceeds /\ ~(deepest > maxDepth)
  BY DEF JsonInit
<1> QED
  BY <1>1, <1>2, <1>3 DEF JsonInv, DepthIsNesting

(* Each character moves scanner and writer alike.                          *)
LEMMA JsonStepInv == JsonInv /\ [JsonNext]_jsonVars => JsonInv'
<1> SUFFICES ASSUME JsonInv, [JsonNext]_jsonVars
             PROVE  JsonInv'
  OBVIOUS
<1> USE DEF JsonInv, JsonTypes, InStep, DepthIsNesting
<1>1. CASE OpenContainer
  <2>1. CASE exceeds
    BY <1>1, <2>1 DEF OpenContainer, Scan
  <2>2. CASE ~exceeds
    <3>1. ~escape /\ ~inString /\ depth = nesting
      BY <1>1, <2>2 DEF OpenContainer
    <3>2. /\ escape' = FALSE /\ inString' = FALSE /\ depth' = nesting + 1
          /\ exceeds' = (nesting + 1 > maxDepth)
      BY <1>1, <2>2, <3>1 DEF OpenContainer, Scan
    <3>3. /\ maxDepth' = maxDepth /\ nesting' = nesting + 1 /\ place' = "outside"
          /\ deepest' = IF nesting + 1 > deepest THEN nesting + 1 ELSE deepest
      BY <1>1 DEF OpenContainer
    <3>4. DepthIsNesting'
      <4>1. deepest' > maxDepth <=> nesting + 1 > maxDepth
        BY <2>2, <3>3
      <4> QED
        BY <3>2, <3>3, <4>1, Zenon
    <3>5. JsonTypes' /\ (nesting <= deepest)'
      <4>1. inString' \in BOOLEAN /\ escape' \in BOOLEAN /\ exceeds' \in BOOLEAN
        <5>1. inString' \in BOOLEAN /\ escape' \in BOOLEAN
          BY <3>2, Zenon
        <5>2. exceeds' \in BOOLEAN
          BY <3>2
        <5> QED
          BY <5>1, <5>2
      <4>2. /\ maxDepth' \in Nat /\ depth' \in Nat /\ nesting' \in Nat
            /\ deepest' \in Nat /\ nesting' <= deepest'
        BY <3>2, <3>3
      <4> QED
        BY <3>3, <4>1, <4>2
    <3>6. InStep'
      BY <3>2, <3>3
    <3> QED
      BY <3>4, <3>5, <3>6
  <2> QED
    BY <2>1, <2>2
<1>2. CASE CloseContainer
  BY <1>2 DEF CloseContainer, Scan
<1>3. CASE Quote
  BY <1>3 DEF Quote, Scan
<1>4. CASE Backslash
  BY <1>4 DEF Backslash, Scan
<1>5. ASSUME NEW char \in Characters, Other(char)
      PROVE  JsonInv'
  BY <1>5 DEF Other, Scan, Characters
<1>6. CASE UNCHANGED jsonVars
  BY <1>6 DEF jsonVars
<1> QED
  BY <1>1, <1>2, <1>3, <1>4, <1>5, <1>6 DEF JsonNext

(* For every payload and every limit, the depth check refuses exactly the  *)
(* payloads that nest too deep.                                            *)
THEOREM ScannerAgrees == JsonSpec => []DepthIsNesting
<1>1. JsonInv => DepthIsNesting
  BY DEF JsonInv
<1> QED
  BY <1>1, JsonInitInv, JsonStepInv, PTL DEF JsonSpec

=============================================================================
