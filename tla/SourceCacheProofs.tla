------------------------- MODULE SourceCacheProofs --------------------------
(* What the source cache may hand out and when it may be stale, for any    *)
(* number of requests, updates, slugs and interruptions.                   *)
EXTENDS MCSourceCache, FiniteSetTheorems, TLAPS

(* The version counts the updates that have written.                       *)
Written == {u \in Updates : updateStep[u] \in {"dropOld", "dropNew", "done"}}
VersionCounts == source.version = Cardinality(Written)

(* Entries are stored under the slug they have.                            *)
CachedUnderOwnSlug == \A s \in Slugs : cache[s] # NoConfig => cache[s].slug = s

(* Configurations on their way into the cache.                             *)
FillsUnderOwnSlug ==
  \A r \in Lookups : lookupStep[r] = "set" =>
    found[r] # NoConfig /\ found[r].slug = lookupSlug[r] /\ found[r].enabled

CacheInv ==
  CacheTypeOK /\ VersionCounts /\ CachedUnderOwnSlug /\ FillsUnderOwnSlug /\ VerifiedUnderOwnSlug

-----------------------------------------------------------------------------
LEMMA WrittenFinite ==
  /\ IsFiniteSet(Written)
  /\ Cardinality(Written) \in 0..Cardinality(Updates)
<1>1. Written \subseteq Updates /\ IsFiniteSet(Updates)
  BY SourceCacheAssumption DEF Written
<1>2. IsFiniteSet(Written) /\ Cardinality(Written) <= Cardinality(Updates)
  BY <1>1, FS_Subset
<1>3. Cardinality(Written) \in Nat /\ Cardinality(Updates) \in Nat
  BY <1>1, <1>2, FS_CardinalityType
<1> QED
  BY <1>2, <1>3

LEMMA CacheInitInv == CacheInit => CacheInv
<1> SUFFICES ASSUME CacheInit PROVE CacheInv
  OBVIOUS
<1>1. Written = {}
  BY DEF CacheInit, Written
<1>2. VersionCounts
  BY <1>1, FS_EmptySet DEF CacheInit, VersionCounts
<1>3. source \in Config
  <2>1. PICK s \in Slugs : source = [slug |-> s, version |-> 0, enabled |-> TRUE]
    BY DEF CacheInit
  <2>2. Cardinality(Updates) \in Nat
    BY SourceCacheAssumption, FS_CardinalityType
  <2>3. 0 \in 0..Cardinality(Updates)
    BY <2>2
  <2> QED
    BY <2>1, <2>3 DEF Config
<1>4. CacheTypeOK
  BY <1>3, SourceCacheAssumption DEF CacheInit, CacheTypeOK, Config
<1> QED
  BY <1>2, <1>4
  DEF CacheInit, CacheInv, CachedUnderOwnSlug, FillsUnderOwnSlug, VerifiedUnderOwnSlug

(* Requests leave the row alone.                                           *)
LEMMA LookupStepInv ==
  ASSUME CacheInv, NEW r \in Lookups, Lookup(r)
  PROVE  CacheInv'
<1> USE DEF CacheInv
<1>1. VersionCounts'
  <2>1. UNCHANGED <<source, updateStep>>
    BY DEF Lookup, Get, Select, Set, VerifyWith, updateVars
  <2> QED
    BY <2>1 DEF VersionCounts, Written
<1>2. CASE Get(r)
  <2>1. CacheTypeOK'
    BY <1>2 DEF Get, LookupGoto, updateVars, CacheTypeOK
  <2>2. CachedUnderOwnSlug'
    BY <1>2 DEF Get, CachedUnderOwnSlug
  <2>3. FillsUnderOwnSlug' /\ VerifiedUnderOwnSlug'
    BY <1>2 DEF Get, LookupGoto, CacheTypeOK, CachedUnderOwnSlug, FillsUnderOwnSlug,
                VerifiedUnderOwnSlug
  <2> QED
    BY <1>1, <2>1, <2>2, <2>3
<1>3. CASE Select(r)
  <2>1. CacheTypeOK'
    BY <1>3 DEF Select, LookupGoto, updateVars, CacheTypeOK
  <2>2. CachedUnderOwnSlug'
    BY <1>3 DEF Select, CachedUnderOwnSlug
  <2>3. source # NoConfig
    BY SourceCacheAssumption DEF CacheTypeOK
  <2>4. FillsUnderOwnSlug' /\ VerifiedUnderOwnSlug'
    BY <1>3, <2>3 DEF Select, LookupGoto, CacheTypeOK, FillsUnderOwnSlug, VerifiedUnderOwnSlug
  <2> QED
    BY <1>1, <2>1, <2>2, <2>4
<1>4. CASE Set(r)
  <2>1. CacheTypeOK'
    BY <1>4 DEF Set, LookupGoto, updateVars, CacheTypeOK
  <2>2. CachedUnderOwnSlug'
    BY <1>4 DEF Set, CacheTypeOK, CachedUnderOwnSlug, FillsUnderOwnSlug
  <2>3. FillsUnderOwnSlug' /\ VerifiedUnderOwnSlug'
    BY <1>4 DEF Set, LookupGoto, CacheTypeOK, FillsUnderOwnSlug, VerifiedUnderOwnSlug
  <2> QED
    BY <1>1, <2>1, <2>2, <2>3
<1>5. CASE VerifyWith(r)
  BY <1>1, <1>5 DEF VerifyWith, LookupGoto, updateVars, CacheTypeOK, CachedUnderOwnSlug,
                    FillsUnderOwnSlug, VerifiedUnderOwnSlug
<1> QED
  BY <1>2, <1>3, <1>4, <1>5 DEF Lookup

(* Updates leave the requests alone, and only remove entries.              *)
LEMMA UpdateStepInv ==
  ASSUME CacheInv, NEW u \in Updates, Update(u) \/ InterruptUpdate(u)
  PROVE  CacheInv'
<1> USE DEF CacheInv
<1>1. UNCHANGED lookupVars
  BY DEF Update, ReadOldSlug, WriteSource, InvalidateOld, InvalidateNew, InterruptUpdate
<1>2. FillsUnderOwnSlug' /\ VerifiedUnderOwnSlug'
  BY <1>1 DEF lookupVars, FillsUnderOwnSlug, VerifiedUnderOwnSlug
<1>3. CASE ReadOldSlug(u)
  <2>1. Written' = Written
    BY <1>3 DEF ReadOldSlug, UpdateGoto, Written, CacheTypeOK
  <2> QED
    BY <1>2, <1>3, <2>1 DEF ReadOldSlug, UpdateGoto, lookupVars, CacheTypeOK, Config,
                            VersionCounts, CachedUnderOwnSlug
<1>4. CASE WriteSource(u)
  <2>1. u \notin Written /\ Written' = Written \cup {u}
    BY <1>4 DEF WriteSource, UpdateGoto, Written, CacheTypeOK
  <2>2. Cardinality(Written') = Cardinality(Written) + 1
    BY <2>1, WrittenFinite, FS_AddElement
  <2>3. Cardinality(Written') \in 0..Cardinality(Updates)
    <3>1. Written' \subseteq Updates /\ IsFiniteSet(Updates)
      BY <2>1, SourceCacheAssumption DEF Written
    <3>2. Cardinality(Written') <= Cardinality(Updates)
      BY <3>1, FS_Subset
    <3> QED
      BY <2>2, <3>2, WrittenFinite
  <2>4. source'.version = Cardinality(Written')
    BY <1>4, <2>2 DEF WriteSource, VersionCounts
  <2>5. source' \in Config
    <3>1. SlugAfter(u) \in Slugs
      BY DEF SlugAfter, CacheTypeOK, Config
    <3> QED
      BY <1>4, <2>3, <2>4, <3>1 DEF WriteSource, Config
  <2>6. CacheTypeOK'
    BY <1>4, <2>5 DEF WriteSource, UpdateGoto, lookupVars, CacheTypeOK
  <2>7. CachedUnderOwnSlug'
    BY <1>4 DEF WriteSource, CachedUnderOwnSlug
  <2> QED
    BY <1>2, <2>4, <2>6, <2>7 DEF VersionCounts
<1>5. CASE InvalidateOld(u) \/ InvalidateNew(u) \/ InterruptUpdate(u)
  <2>1. Written' = Written
    BY <1>5 DEF InvalidateOld, InvalidateNew, InterruptUpdate, UpdateGoto, Written, CacheTypeOK
  <2>2. VersionCounts'
    BY <1>5, <2>1 DEF InvalidateOld, InvalidateNew, InterruptUpdate, VersionCounts
  <2>3. CacheTypeOK'
    BY <1>5, SourceCacheAssumption
    DEF InvalidateOld, InvalidateNew, InterruptUpdate, UpdateGoto, lookupVars, CacheTypeOK
  <2>4. CachedUnderOwnSlug'
    BY <1>5 DEF InvalidateOld, InvalidateNew, InterruptUpdate, CachedUnderOwnSlug, CacheTypeOK
  <2> QED
    BY <1>2, <2>2, <2>3, <2>4
<1> QED
  BY <1>3, <1>4, <1>5 DEF Update

LEMMA CacheStepInv == CacheInv /\ [CacheNext]_cacheVars => CacheInv'
<1> SUFFICES ASSUME CacheInv, [CacheNext]_cacheVars PROVE CacheInv'
  OBVIOUS
<1>1. ASSUME NEW s \in Slugs, Expire(s) PROVE CacheInv'
  BY <1>1 DEF CacheInv, Expire, lookupVars, updateVars, CacheTypeOK, VersionCounts, Written,
              CachedUnderOwnSlug, FillsUnderOwnSlug, VerifiedUnderOwnSlug
<1>2. CASE UNCHANGED cacheVars
  BY <1>2 DEF CacheInv, cacheVars, lookupVars, updateVars, CacheTypeOK, VersionCounts, Written,
              CachedUnderOwnSlug, FillsUnderOwnSlug, VerifiedUnderOwnSlug
<1> QED
  BY <1>1, <1>2, LookupStepInv, UpdateStepInv DEF CacheNext

(* The cache keeps its types; the version never exceeds the updates.       *)
THEOREM CacheTypeCorrect == CacheSpec => []CacheTypeOK
<1>1. CacheInv => CacheTypeOK
  BY DEF CacheInv
<1> QED
  BY <1>1, CacheInitInv, CacheStepInv, PTL DEF CacheSpec

(* A signature is checked only with a configuration that was enabled under *)
(* the slug of the request, however lookups race renames.                  *)
THEOREM VerifiedUnderOwn == CacheSpec => []VerifiedUnderOwnSlug
<1>1. CacheInv => VerifiedUnderOwnSlug
  BY DEF CacheInv
<1> QED
  BY <1>1, CacheInitInv, CacheStepInv, PTL DEF CacheSpec

-----------------------------------------------------------------------------
(* Without overlap a fill stores the row as it is, an update knows the     *)
(* slug the row has, and what is stale is about to be invalidated.         *)
FillsAreFresh == \A r \in Lookups : lookupStep[r] = "set" => found[r] = source
WritersKnowSlug == \A u \in Updates : updateStep[u] = "write" => oldSlug[u] = source.slug
StaleIsDropped ==
  \A s \in Slugs : Stale(s) => \E u \in Updates : updateStep[u] = "dropOld" /\ oldSlug[u] = s

InOrder == FillsAreFresh /\ WritersKnowSlug /\ StaleIsDropped

HistoryInv == CacheInv /\ (~overlapped => InOrder)

LEMMA LookupInOrder ==
  ASSUME CacheInv, InOrder, NEW r \in Lookups, Lookup(r)
  PROVE  InOrder'
<1> USE DEF InOrder
<1>1. UNCHANGED <<source, updateVars>>
  BY DEF Lookup, Get, Select, Set, VerifyWith
<1>2. WritersKnowSlug'
  BY <1>1 DEF updateVars, WritersKnowSlug
<1>3. CASE Get(r) \/ Select(r) \/ VerifyWith(r)
  <2>1. FillsAreFresh'
    BY <1>3 DEF Get, Select, VerifyWith, LookupGoto, FillsAreFresh, CacheInv, CacheTypeOK
  <2>2. UNCHANGED cache
    BY <1>3 DEF Get, Select, VerifyWith
  <2>3. StaleIsDropped'
    BY <1>1, <2>2 DEF StaleIsDropped, Stale, updateVars
  <2> QED
    BY <1>2, <2>1, <2>3
<1>4. CASE Set(r)
  <2>1. FillsAreFresh'
    BY <1>4 DEF Set, LookupGoto, FillsAreFresh, CacheInv, CacheTypeOK
  <2>2. StaleIsDropped'
    BY <1>1, <1>4 DEF Set, FillsAreFresh, StaleIsDropped, Stale, updateVars, CacheInv, CacheTypeOK
  <2> QED
    BY <1>2, <2>1, <2>2
<1> QED
  BY <1>3, <1>4 DEF Lookup

(* What a write makes stale is the entry its own next step removes.        *)
LEMMA WriteInOrder ==
  ASSUME CacheInv, InOrder, NEW u \in Updates, WriteSource(u), ~Overlaps(u)
  PROVE  InOrder'
<1> USE DEF CacheInv, InOrder
<1>1. FillsAreFresh'
  BY DEF WriteSource, lookupVars, Overlaps, Filling, FillsAreFresh
<1>2. WritersKnowSlug'
  BY DEF WriteSource, UpdateGoto, Overlaps, WritersKnowSlug, CacheTypeOK
<1>3. ASSUME NEW s \in Slugs, Stale(s)'
      PROVE  updateStep'[u] = "dropOld" /\ oldSlug'[u] = s
  <2>1. ~Stale(s)
    BY DEF WriteSource, Overlaps, StaleIsDropped
  <2>2. cache[s] = source
    BY <1>3, <2>1 DEF WriteSource, Stale
  <2>3. source.slug = s
    BY <1>3, <2>2 DEF WriteSource, Stale, CachedUnderOwnSlug
  <2> QED
    BY <2>3 DEF WriteSource, UpdateGoto, WritersKnowSlug, CacheTypeOK
<1>4. StaleIsDropped'
  BY <1>3 DEF StaleIsDropped
<1> QED
  BY <1>1, <1>2, <1>4

LEMMA OtherInOrder ==
  ASSUME CacheInv, InOrder,
         \/ \E u \in Updates : ReadOldSlug(u) \/ InvalidateOld(u) \/ InvalidateNew(u)
         \/ \E s \in Slugs : Expire(s)
  PROVE  InOrder'
<1> USE DEF CacheInv, InOrder
<1>1. UNCHANGED <<source, lookupVars>>
  BY DEF ReadOldSlug, InvalidateOld, InvalidateNew, Expire
<1>2. FillsAreFresh'
  BY <1>1 DEF lookupVars, FillsAreFresh
<1>3. ASSUME NEW u \in Updates, ReadOldSlug(u) PROVE InOrder'
  <2>1. WritersKnowSlug'
    BY <1>3 DEF ReadOldSlug, UpdateGoto, WritersKnowSlug, CacheTypeOK
  <2>2. StaleIsDropped'
    BY <1>3 DEF ReadOldSlug, UpdateGoto, StaleIsDropped, Stale, CacheTypeOK
  <2> QED
    BY <1>2, <2>1, <2>2
<1>4. ASSUME NEW u \in Updates, InvalidateOld(u) PROVE InOrder'
  <2>1. WritersKnowSlug'
    BY <1>4 DEF InvalidateOld, UpdateGoto, WritersKnowSlug, CacheTypeOK
  <2>2. StaleIsDropped'
    BY <1>4 DEF InvalidateOld, UpdateGoto, StaleIsDropped, Stale, CacheTypeOK
  <2> QED
    BY <1>2, <2>1, <2>2
<1>5. ASSUME NEW u \in Updates, InvalidateNew(u) PROVE InOrder'
  <2>1. WritersKnowSlug'
    BY <1>5 DEF InvalidateNew, UpdateGoto, WritersKnowSlug, CacheTypeOK
  <2>2. StaleIsDropped'
    BY <1>5 DEF InvalidateNew, UpdateGoto, StaleIsDropped, Stale, CacheTypeOK
  <2> QED
    BY <1>2, <2>1, <2>2
<1>6. ASSUME NEW s \in Slugs, Expire(s) PROVE InOrder'
  <2>1. WritersKnowSlug'
    BY <1>6 DEF Expire, updateVars, WritersKnowSlug
  <2>2. StaleIsDropped'
    BY <1>6 DEF Expire, updateVars, StaleIsDropped, Stale, CacheTypeOK
  <2> QED
    BY <1>2, <2>1, <2>2
<1> QED
  BY <1>3, <1>4, <1>5, <1>6

LEMMA HistoryInitInv == HistoryInit => HistoryInv
<1> SUFFICES ASSUME HistoryInit PROVE HistoryInv
  OBVIOUS
<1>1. CacheInv
  BY CacheInitInv DEF HistoryInit
<1>2. InOrder
  BY DEF HistoryInit, CacheInit, InOrder, FillsAreFresh, WritersKnowSlug, StaleIsDropped, Stale
<1> QED
  BY <1>1, <1>2 DEF HistoryInv

LEMMA HistoryStepInv ==
  HistoryInv /\ [HistoryNext]_<<cacheVars, overlapped>> => HistoryInv'
<1> SUFFICES ASSUME HistoryInv, [HistoryNext]_<<cacheVars, overlapped>>
             PROVE  HistoryInv'
  OBVIOUS
<1>1. CacheInv
  BY DEF HistoryInv
<1>2. [CacheNext]_cacheVars
  BY DEF HistoryNext, CacheNext, Update
<1>3. CacheInv'
  BY <1>1, <1>2, CacheStepInv
<1>4. ASSUME ~overlapped' PROVE InOrder'
  <2>1. ASSUME UNCHANGED overlapped PROVE InOrder
    BY <1>4, <2>1, Zenon DEF HistoryInv
  <2>2. ASSUME NEW r \in Lookups, Lookup(r), UNCHANGED overlapped PROVE InOrder'
    BY <1>1, <2>1, <2>2, LookupInOrder
  <2>3. ASSUME NEW u \in Updates, WriteSource(u), overlapped' = (overlapped \/ Overlaps(u))
        PROVE  InOrder'
    <3>1. ~overlapped /\ ~Overlaps(u)
      BY <1>4, <2>3, Zenon
    <3>2. InOrder
      BY <3>1, Zenon DEF HistoryInv
    <3> QED
      BY <1>1, <2>3, <3>1, <3>2, WriteInOrder
  <2>4. ASSUME NEW u \in Updates, ReadOldSlug(u) \/ InvalidateOld(u) \/ InvalidateNew(u),
               UNCHANGED overlapped
        PROVE  InOrder'
    BY <1>1, <2>1, <2>4, OtherInOrder
  <2>5. ASSUME NEW s \in Slugs, Expire(s), UNCHANGED overlapped PROVE InOrder'
    BY <1>1, <2>1, <2>5, OtherInOrder
  <2>6. ASSUME UNCHANGED <<cacheVars, overlapped>> PROVE InOrder'
    <3>1. InOrder /\ UNCHANGED cacheVars
      BY <2>1, <2>6
    <3> QED
      BY <3>1 DEF cacheVars, lookupVars, updateVars, InOrder, FillsAreFresh, WritersKnowSlug,
                  StaleIsDropped, Stale
  <2> QED
    BY <1>4, <2>2, <2>3, <2>4, <2>5, <2>6, Zenon DEF HistoryNext
<1> QED
  BY <1>3, <1>4, Zenon DEF HistoryInv

(* The cache is stale only while an update is about to invalidate it, or   *)
(* after an update overlapped a fill or another update or was interrupted. *)
THEOREM StaleOverlapped == HistorySpec => []StaleNeedsOverlap
<1>1. HistoryInv => StaleNeedsOverlap
  BY Zenon DEF HistoryInv, InOrder, StaleIsDropped, StaleNeedsOverlap, Invalidating
<1> QED
  BY <1>1, HistoryInitInv, HistoryStepInv, PTL DEF HistorySpec

=============================================================================
