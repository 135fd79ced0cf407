------------------------ MODULE SourceListingProofs -------------------------
(* What the pages of sources leave out, for any number of sources, any     *)
(* page size and any resolution of the cursor.                             *)
EXTENDS SourceListing, FiniteSetTheorems, WellFoundedInduction, TLAPS

SourceListingTypes ==
  /\ clock \in Nat
  /\ sources \subseteq Ids /\ IsFiniteSet(sources)
  /\ createdAt \in [Ids -> Nat]
  /\ pageStep \in {"begin", "page", "end"}
  /\ cursor \in Nat \X Nat
  /\ listed \in [Ids -> Nat]
  /\ firstSources \subseteq sources
  /\ lastOfPage \subseteq sources

(* What has been listed is there and lies before the cursor, so that no    *)
(* later page can hold it again.                                           *)
ListedBehind ==
  \A i \in Ids :
    /\ listed[i] <= 1
    /\ listed[i] > 0 => i \in sources /\ pageStep # "begin"
    /\ listed[i] > 0 /\ pageStep = "page" => ~Precedes(Key(i), cursor)

SameMillisecond(i) ==
  \E last \in lastOfPage \ {i} : Milliseconds(createdAt[last]) = Milliseconds(createdAt[i])

(* What has not been listed is still to come, or was cut off.              *)
StillToCome ==
  pageStep # "begin" =>
    \A i \in firstSources : listed[i] = 0 =>
      (pageStep = "page" /\ Precedes(Key(i), cursor)) \/ SameMillisecond(i)

SourceListingInv == SourceListingTypes /\ ListedBehind /\ StillToCome

-----------------------------------------------------------------------------
(* Whole milliseconds.                                                     *)
LEMMA QuotientUnique ==
  ASSUME NEW q \in Nat, NEW p \in Nat,
         NEW r \in 0..(MicrosPerMs - 1), NEW s \in 0..(MicrosPerMs - 1),
         MicrosPerMs * q + r = MicrosPerMs * p + s
  PROVE  q = p
<1>1. MicrosPerMs * (q - p) = s - r
  BY SourceListingAssumption
<1>2. q - p <= 0
  BY <1>1, SourceListingAssumption, Z3
<1>3. q - p >= 0
  BY <1>1, SourceListingAssumption, Z3
<1> QED
  BY <1>2, <1>3

LEMMA Division ==
  ASSUME NEW t \in Nat
  PROVE  /\ t \div MicrosPerMs \in Nat
         /\ t % MicrosPerMs \in 0..(MicrosPerMs - 1)
         /\ t = MicrosPerMs * (t \div MicrosPerMs) + (t % MicrosPerMs)
<1>1. t % MicrosPerMs \in 0..(MicrosPerMs - 1)
  BY SourceListingAssumption
<1>2. t \div MicrosPerMs \in Nat
  BY SourceListingAssumption
<1>3. t = MicrosPerMs * (t \div MicrosPerMs) + (t % MicrosPerMs)
  BY SourceListingAssumption
<1> QED
  BY <1>1, <1>2, <1>3

LEMMA MillisecondsBelow ==
  ASSUME NEW t \in Nat
  PROVE  Milliseconds(t) \in Nat /\ Milliseconds(t) <= t
BY SourceListingAssumption DEF Milliseconds

(* A time between a truncated time and that time is truncated alike.       *)
LEMMA MillisecondsBetween ==
  ASSUME NEW a \in Nat, NEW b \in Nat, Milliseconds(b) <= a, a <= b
  PROVE  Milliseconds(a) = Milliseconds(b)
<1> DEFINE q == b \div MicrosPerMs
           r == b % MicrosPerMs
           p == a \div MicrosPerMs
           s == a % MicrosPerMs
<1>1. q \in Nat /\ r \in 0..(MicrosPerMs - 1) /\ b = MicrosPerMs * q + r
  BY Division
<1>2. p \in Nat /\ s \in 0..(MicrosPerMs - 1) /\ a = MicrosPerMs * p + s
  BY Division
<1>3. Milliseconds(b) = MicrosPerMs * q /\ Milliseconds(a) = MicrosPerMs * p
  BY <1>1, <1>2, SourceListingAssumption DEF Milliseconds
<1> HIDE DEF q, r, p, s
<1>4. a - MicrosPerMs * q \in 0..(MicrosPerMs - 1)
  BY <1>1, <1>3, SourceListingAssumption
<1>5. MicrosPerMs * p + s = MicrosPerMs * q + (a - MicrosPerMs * q)
  BY <1>1, <1>2, SourceListingAssumption
<1>6. p = q
  BY <1>1, <1>2, <1>4, <1>5, QuotientUnique
<1> QED
  BY <1>3, <1>6

-----------------------------------------------------------------------------
(* The rows of a page come before all others beyond the cursor.            *)
Above(i) == {k \in sources : Beyond(k) /\ Precedes(Key(i), Key(k))}

LEMMA AboveFinite ==
  ASSUME SourceListingTypes, NEW S, S \subseteq sources
  PROVE  IsFiniteSet(S) /\ Cardinality(S) \in Nat
BY FS_Subset, FS_CardinalityType DEF SourceListingTypes

LEMMA AboveNested ==
  ASSUME SourceListingTypes, NEW i \in sources, NEW k \in sources, Precedes(Key(i), Key(k))
  PROVE  /\ Above(k) \subseteq Above(i)
         /\ Cardinality(Above(k)) <= Cardinality(Above(i))
<1>1. \A h \in sources : h \in Nat /\ createdAt[h] \in Nat
  BY SourceListingAssumption DEF SourceListingTypes
<1>2. Above(k) \subseteq Above(i)
  BY <1>1 DEF Above, Precedes, Key
<1>3. IsFiniteSet(Above(i))
  BY AboveFinite DEF Above
<1> QED
  BY <1>2, <1>3, FS_Subset

LEMMA PageIsFirst ==
  ASSUME SourceListingTypes, NEW i \in sources, Beyond(i), i \notin SourcePage,
         NEW p \in SourcePage
  PROVE  Precedes(Key(i), Key(p))
<1>1. p \in sources /\ p # i /\ Cardinality(Above(p)) < SourceLimit
  BY DEF SourcePage, Above
<1>2. ~(Cardinality(Above(i)) < SourceLimit)
  BY DEF SourcePage, Above
<1>3. ~Precedes(Key(p), Key(i))
  <2> SUFFICES ASSUME Precedes(Key(p), Key(i)) PROVE FALSE
    OBVIOUS
  <2>1. Cardinality(Above(i)) <= Cardinality(Above(p))
    BY <1>1, AboveNested
  <2>2. Cardinality(Above(i)) \in Nat /\ Cardinality(Above(p)) \in Nat
    BY AboveFinite DEF Above
  <2> QED
    BY <1>1, <1>2, <2>1, <2>2, SourceListingAssumption
<1> QED
  BY <1>1, <1>3, SourceListingAssumption DEF Precedes, Key, SourceListingTypes

(* A page is full if anything is left out.                                 *)
LEMMA PageIsFull ==
  ASSUME SourceListingTypes, NEW i \in sources, Beyond(i), i \notin SourcePage
  PROVE  ~(Cardinality(SourcePage) < SourceLimit)
<1> DEFINE LeftOut == {k \in sources : Beyond(k) /\ k \notin SourcePage}
           Ranks == {Cardinality(Above(k)) : k \in LeftOut}
<1>1. Ranks \subseteq Nat /\ Ranks # {}
  BY AboveFinite DEF Above
<1>2. PICK m \in Ranks : \A n \in Ranks : <<n, m>> \notin OpToRel(<, Nat)
  <2> HIDE DEF Ranks
  <2> QED
    BY <1>1, WFMin, NatLessThanWellFounded, Zenon
<1>3. \A n \in Ranks : ~(n < m)
  <2> HIDE DEF Ranks
  <2> QED
    BY <1>1, <1>2, Zenon DEF OpToRel
<1>4. PICK k \in LeftOut : m = Cardinality(Above(k))
  BY <1>2
<1>5. Above(k) \subseteq SourcePage
  <2> SUFFICES ASSUME NEW h \in Above(k), h \notin SourcePage PROVE FALSE
    OBVIOUS
  <2>1. h \in LeftOut /\ Precedes(Key(k), Key(h)) /\ k \in sources
    BY <1>4 DEF Above
  <2>2. Above(h) \subseteq Above(k)
    BY <2>1, AboveNested
  <2>3. h \notin Above(h)
    <3>1. h \in Nat /\ createdAt[h] \in Nat
      BY <2>1, SourceListingAssumption DEF SourceListingTypes
    <3> QED
      BY <3>1 DEF Above, Precedes, Key
  <2>4. Above(h) # Above(k)
    BY <2>3
  <2>5. IsFiniteSet(Above(k)) /\ Cardinality(Above(k)) \in Nat /\ Cardinality(Above(h)) \in Nat
    BY AboveFinite DEF Above
  <2>6. Cardinality(Above(h)) < Cardinality(Above(k))
    BY <2>2, <2>4, <2>5, FS_Subset
  <2>7. Cardinality(Above(h)) \in Ranks
    BY <2>1
  <2> QED
    BY <1>3, <1>4, <2>6, <2>7
<1>6. IsFiniteSet(SourcePage) /\ Cardinality(SourcePage) \in Nat
  BY AboveFinite DEF SourcePage
<1>7. Cardinality(Above(k)) <= Cardinality(SourcePage)
  BY <1>5, <1>6, FS_Subset
<1>8. ~(Cardinality(Above(k)) < SourceLimit)
  BY <1>4 DEF SourcePage, Above
<1>9. Cardinality(Above(k)) \in Nat
  BY AboveFinite DEF Above
<1> QED
  BY <1>6, <1>7, <1>8, <1>9, SourceListingAssumption

-----------------------------------------------------------------------------
LEMMA SourceListingInitInv == SourceListingInit => SourceListingInv
<1> SUFFICES ASSUME SourceListingInit PROVE SourceListingInv
  OBVIOUS
<1>1. IsFiniteSet(sources)
  BY FS_EmptySet DEF SourceListingInit
<1> QED
  BY <1>1 DEF SourceListingInit, SourceListingInv, SourceListingTypes, ListedBehind, StillToCome

LEMMA CreateInv ==
  ASSUME SourceListingInv, NEW i \in Ids, CreateSource(i)
  PROVE  SourceListingInv'
<1> USE DEF SourceListingInv, SourceListingTypes, CreateSource
<1>1. IsFiniteSet(sources')
  BY FS_AddElement
<1>2. PICK t \in 0..clock : createdAt' = [createdAt EXCEPT ![i] = t]
  OBVIOUS
<1>3. SourceListingTypes'
  BY <1>1, <1>2
<1>4. \A k \in sources : createdAt'[k] = createdAt[k] /\ Key(k)' = Key(k)
  BY <1>2 DEF Key
<1>5. ListedBehind'
  BY <1>4 DEF ListedBehind, Precedes
<1>6. \A k \in firstSources : SameMillisecond(k) => SameMillisecond(k)'
  BY <1>4 DEF SameMillisecond, Milliseconds
<1>7. StillToCome'
  BY <1>4, <1>6 DEF StillToCome, Precedes
<1> QED
  BY <1>3, <1>5, <1>7

(* The last page holds all there is beyond the cursor.                     *)
LEMMA LastPageInv ==
  ASSUME SourceListingInv, FetchSources, Cardinality(SourcePage) < SourceLimit
  PROVE  SourceListingInv'
<1> USE DEF SourceListingInv
<1>1. /\ pageStep \in {"begin", "page"} /\ pageStep' = "end"
      /\ listed' = [i \in Ids |-> IF i \in SourcePage THEN listed[i] + 1 ELSE listed[i]]
      /\ firstSources' = IF pageStep = "begin" THEN sources ELSE firstSources
      /\ UNCHANGED <<clock, sources, createdAt, cursor, lastOfPage>>
  BY SourceListingAssumption DEF FetchSources
<1>2. SourceListingTypes'
  BY <1>1 DEF SourceListingTypes
<1>3. \A i \in SourcePage : i \in sources /\ i \in Ids /\ listed[i] = 0
  BY <1>1 DEF SourcePage, Beyond, ListedBehind, SourceListingTypes
<1>4. ListedBehind'
  BY <1>1, <1>3 DEF ListedBehind, SourceListingTypes
<1>5. ASSUME NEW i \in firstSources', listed'[i] = 0 PROVE SameMillisecond(i)
  <2>1. i \in sources /\ i \in Ids /\ i \notin SourcePage /\ listed[i] = 0
    BY <1>1, <1>5 DEF SourceListingTypes
  <2>2. ~Beyond(i)
    BY <2>1, PageIsFull
  <2> QED
    BY <1>1, <2>1, <2>2 DEF Beyond, StillToCome
<1>6. StillToCome'
  BY <1>1, <1>5 DEF StillToCome, SameMillisecond, Milliseconds
<1> QED
  BY <1>2, <1>4, <1>6

(* A full page moves the cursor to its last source, or to somewhat before  *)
(* it in the same millisecond.                                             *)
LEMMA FullPageInv ==
  ASSUME SourceListingInv, FetchSources, Cardinality(SourcePage) = SourceLimit
  PROVE  SourceListingInv'
<1> USE DEF SourceListingInv
<1>1. PICK last \in SourcePage :
        /\ \A i \in SourcePage \ {last} : Precedes(Key(last), Key(i))
        /\ cursor' = <<Milliseconds(createdAt[last]), last>>
        /\ lastOfPage' = lastOfPage \cup {last}
  BY SourceListingAssumption DEF FetchSources
<1>2. /\ pageStep \in {"begin", "page"} /\ pageStep' = "page"
      /\ listed' = [i \in Ids |-> IF i \in SourcePage THEN listed[i] + 1 ELSE listed[i]]
      /\ firstSources' = IF pageStep = "begin" THEN sources ELSE firstSources
      /\ UNCHANGED <<clock, sources, createdAt>>
  BY SourceListingAssumption DEF FetchSources
<1>3. \A i \in SourcePage : i \in sources /\ i \in Ids /\ i \in Nat /\ listed[i] = 0 /\ Beyond(i)
  <2>1. \A i \in SourcePage : i \in sources /\ Beyond(i)
    BY DEF SourcePage
  <2>2. \A i \in SourcePage : i \in Ids /\ i \in Nat
    BY <2>1, SourceListingAssumption DEF SourceListingTypes
  <2>3. ASSUME NEW i \in SourcePage PROVE listed[i] = 0
    BY <1>2, <2>1, <2>2 DEF Beyond, ListedBehind, SourceListingTypes
  <2> QED
    BY <2>1, <2>2, <2>3
<1>4. createdAt[last] \in Nat /\ last \in Nat
  BY <1>3 DEF SourceListingTypes
<1>5. Milliseconds(createdAt[last]) \in Nat /\ Milliseconds(createdAt[last]) <= createdAt[last]
  BY <1>4, MillisecondsBelow
<1>6. SourceListingTypes'
  BY <1>1, <1>2, <1>3, <1>4, <1>5 DEF SourceListingTypes
<1>7. ASSUME NEW i \in Ids, listed'[i] > 0 PROVE ~Precedes(Key(i), cursor')
  <2>1. i \in Nat /\ createdAt[i] \in Nat
    BY SourceListingAssumption DEF SourceListingTypes
  <2>2. CASE i \in SourcePage
    BY <1>1, <1>4, <1>5, <2>1, <2>2 DEF Precedes, Key
  <2>3. CASE i \notin SourcePage
    <3>1. pageStep = "page" /\ ~Precedes(Key(i), cursor)
      BY <1>2, <1>7, <2>3 DEF ListedBehind
    <3>2. Precedes(Key(last), cursor)
      BY <1>3, <3>1 DEF Beyond
    <3>3. cursor[1] \in Nat /\ cursor[2] \in Nat
      BY DEF SourceListingTypes
    <3> QED
      BY <1>1, <1>4, <1>5, <2>1, <3>1, <3>2, <3>3 DEF Precedes, Key
  <2> QED
    BY <2>2, <2>3
<1>8. ListedBehind'
  <2>1. \A i \in Ids : listed'[i] <= 1 /\ (listed'[i] > 0 => i \in sources)
    BY <1>2, <1>3 DEF ListedBehind, SourceListingTypes
  <2> QED
    BY <1>2, <1>7, <2>1 DEF ListedBehind, Precedes, Key
<1>9. ASSUME NEW i \in firstSources', listed'[i] = 0
      PROVE  Precedes(Key(i), cursor') \/ SameMillisecond(i)'
  <2>1. i \in sources /\ i \in Ids /\ i \in Nat /\ i \notin SourcePage /\ listed[i] = 0
    BY <1>2, <1>9, SourceListingAssumption DEF SourceListingTypes
  <2>2. CASE Beyond(i)
    <3>1. Precedes(Key(i), Key(last)) /\ createdAt[i] \in Nat
      BY <2>1, <2>2, PageIsFirst DEF SourceListingTypes
    <3>2. CASE createdAt[i] < Milliseconds(createdAt[last])
      BY <1>1, <3>2 DEF Precedes, Key
    <3>3. CASE Milliseconds(createdAt[last]) <= createdAt[i]
      <4>1. createdAt[i] <= createdAt[last]
        BY <1>4, <3>1 DEF Precedes, Key
      <4>2. Milliseconds(createdAt[last]) = Milliseconds(createdAt[i])
        BY <1>4, <3>1, <3>3, <4>1, MillisecondsBetween
      <4> QED
        BY <1>1, <1>2, <2>1, <4>2 DEF SameMillisecond, Milliseconds
    <3> QED
      BY <1>5, <3>1, <3>2, <3>3
  <2>3. CASE ~Beyond(i)
    <3>1. SameMillisecond(i)
      BY <1>2, <2>1, <2>3 DEF Beyond, StillToCome
    <3> QED
      BY <1>1, <1>2, <3>1 DEF SameMillisecond, Milliseconds
  <2> QED
    BY <2>2, <2>3
<1>10. StillToCome'
  BY <1>2, <1>9 DEF StillToCome, Precedes, Key
<1> QED
  BY <1>6, <1>8, <1>10

LEMMA SourceListingStepInv ==
  SourceListingInv /\ [SourceListingNext]_sourceListingVars => SourceListingInv'
<1> SUFFICES ASSUME SourceListingInv, [SourceListingNext]_sourceListingVars
             PROVE  SourceListingInv'
  OBVIOUS
<1>1. CASE Pass \/ UNCHANGED sourceListingVars
  <2>1. UNCHANGED <<sources, createdAt, pageStep, cursor, listed, firstSources, lastOfPage>>
    BY <1>1 DEF Pass, sourceListingVars
  <2>2. clock' \in Nat
    BY <1>1 DEF Pass, sourceListingVars, SourceListingInv, SourceListingTypes
  <2> QED
    BY <2>1, <2>2 DEF SourceListingInv, SourceListingTypes, ListedBehind, StillToCome,
                      SameMillisecond, Milliseconds, Precedes, Key
<1>2. CASE FetchSources
  BY <1>2, LastPageInv, FullPageInv DEF FetchSources
<1> QED
  BY <1>1, <1>2, CreateInv DEF SourceListingNext

(* Whatever is created meanwhile, no source is listed twice, and only the  *)
(* truncation of the cursor leaves one out.                                *)
THEOREM KeysetIsSound == SourceListingSpec => []KeysetListsOnce
<1>1. SourceListingInv => KeysetListsOnce
  <2> SUFFICES ASSUME SourceListingInv PROVE KeysetListsOnce
    OBVIOUS
  <2> QED
    BY DEF SourceListingInv, SourceListingTypes, ListedBehind, StillToCome, SameMillisecond,
           KeysetListsOnce
<1> QED
  BY <1>1, SourceListingInitInv, SourceListingStepInv, PTL DEF SourceListingSpec

=============================================================================
