---------------------------- MODULE SourceCache ----------------------------
(***************************************************************************)
(* The Redis cache of source configurations.  A webhook request looks its  *)
(* source up by slug and fills the cache on a miss; an update of the       *)
(* source, which may rename or disable it, writes the row first and        *)
(* invalidates the cache afterwards.  Nothing orders the two.              *)
(***************************************************************************)
EXTENDS Naturals, FiniteSets

CONSTANTS
  Slugs,           \* slugs the source can have and requests can ask for
  Lookups,         \* webhook requests
  Updates,         \* PUT /api/sources/:id requests
  NoConfig,        \* a cache miss
  NoSlug,          \* the slug of an update that leaves it out
  CacheFaults      \* bound on interrupted requests

Config == [slug: Slugs, version: 0..Cardinality(Updates), enabled: BOOLEAN]

ASSUME SourceCacheAssumption ==
  /\ NoConfig \notin Config
  /\ NoSlug \notin Slugs
  /\ CacheFaults \in Nat
  /\ IsFiniteSet(Updates)

VARIABLES
  source,          \* the row of the source; version counts its updates
  cache,           \* the entry of each slug
  lookupStep,      \* the step each request performs next
  lookupSlug,      \* the slug it asks for, any before it arrives
  found,           \* the configuration it has got
  updateStep,      \* the step each update performs next
  oldSlug,         \* the slug it has read before its UPDATE
  newSlug,         \* the slug it asks for, if any
  cacheFaults      \* interruptions that have happened

lookupVars == <<lookupStep, lookupSlug, found>>
updateVars == <<updateStep, oldSlug, newSlug>>
cacheVars == <<source, cache, lookupVars, updateVars, cacheFaults>>

CacheTypeOK ==
  /\ source \in Config
  /\ cache \in [Slugs -> Config \cup {NoConfig}]
  /\ lookupStep \in [Lookups -> {"get", "select", "set", "verify", "unknown", "done"}]
  /\ lookupSlug \in [Lookups -> Slugs]
  /\ found \in [Lookups -> Config \cup {NoConfig}]
  /\ updateStep \in [Updates -> {"read", "write", "dropOld", "dropNew", "done"}]
  /\ oldSlug \in [Updates -> Slugs]
  /\ newSlug \in [Updates -> Slugs \cup {NoSlug}]
  /\ cacheFaults \in 0..CacheFaults

CacheInit ==
  /\ source \in {[slug |-> s, version |-> 0, enabled |-> TRUE] : s \in Slugs}
  /\ cache = [s \in Slugs |-> NoConfig]
  /\ lookupStep = [r \in Lookups |-> "get"]
  /\ lookupSlug \in [Lookups -> Slugs]
  /\ found = [r \in Lookups |-> NoConfig]
  /\ updateStep = [u \in Updates |-> "read"]
  /\ oldSlug \in [Updates -> {source.slug}]
  /\ newSlug \in [Updates -> Slugs \cup {NoSlug}]
  /\ cacheFaults = 0

LookupGoto(r, step) == lookupStep' = [lookupStep EXCEPT ![r] = step]
UpdateGoto(u, step) == updateStep' = [updateStep EXCEPT ![u] = step]

-----------------------------------------------------------------------------
(* getCachedSource; a cached source that is disabled is unknown.           *)
Get(r) ==
  /\ lookupStep[r] = "get"
  /\ LET hit == cache[lookupSlug[r]]
     IN  \/ /\ hit = NoConfig
            /\ LookupGoto(r, "select")
            /\ UNCHANGED found
         \/ /\ hit # NoConfig
            /\ found' = [found EXCEPT ![r] = hit]
            /\ LookupGoto(r, IF hit.enabled THEN "verify" ELSE "unknown")
  /\ UNCHANGED <<source, cache, lookupSlug, updateVars, cacheFaults>>

(* Mutant of Select: the WHERE clause on the slug is missing.              *)
SelectAnySlug(r) ==
  /\ lookupStep[r] = "select"
  /\ found' = [found EXCEPT ![r] = source]
  /\ LookupGoto(r, IF source.enabled THEN "set" ELSE "unknown")
  /\ UNCHANGED <<source, cache, lookupSlug, updateVars, cacheFaults>>

(* SELECT by slug; no row, or a disabled one, is answered with 404.        *)
Select(r) ==
  /\ lookupStep[r] = "select"
  /\ \/ /\ source.slug = lookupSlug[r] /\ source.enabled
        /\ found' = [found EXCEPT ![r] = source]
        /\ LookupGoto(r, "set")
     \/ /\ source.slug # lookupSlug[r] \/ ~source.enabled
        /\ LookupGoto(r, "unknown")
        /\ UNCHANGED found
  /\ UNCHANGED <<source, cache, lookupSlug, updateVars, cacheFaults>>

(* setCachedSource, under the slug of the request.                         *)
Set(r) ==
  /\ lookupStep[r] = "set"
  /\ cache' = [cache EXCEPT ![lookupSlug[r]] = found[r]]
  /\ LookupGoto(r, "verify")
  /\ UNCHANGED <<source, lookupSlug, found, updateVars, cacheFaults>>

(* The signature is checked with the secret found.                         *)
VerifyWith(r) ==
  /\ lookupStep[r] = "verify"
  /\ LookupGoto(r, "done")
  /\ UNCHANGED <<source, cache, lookupSlug, found, updateVars, cacheFaults>>

(* Mutant of Expire: entries are stored without a TTL.                     *)
NeverExpire(s) == FALSE /\ UNCHANGED cacheVars

(* CACHE_TTL has passed since the entry was set.                           *)
Expire(s) ==
  /\ cache[s] # NoConfig
  /\ cache' = [cache EXCEPT ![s] = NoConfig]
  /\ UNCHANGED <<source, lookupVars, updateVars, cacheFaults>>

-----------------------------------------------------------------------------
ReadOldSlug(u) ==
  /\ updateStep[u] = "read"
  /\ oldSlug' = [oldSlug EXCEPT ![u] = source.slug]
  /\ UpdateGoto(u, "write")
  /\ UNCHANGED <<source, cache, lookupVars, newSlug, cacheFaults>>

(* An update without a slug leaves the one the row has.                    *)
SlugAfter(u) == IF newSlug[u] = NoSlug THEN source.slug ELSE newSlug[u]

(* Mutant of WriteSource: one update is written twice.                     *)
WriteSourceTwice(u) ==
  /\ updateStep[u] = "write"
  /\ source' = [source EXCEPT !.slug = SlugAfter(u), !.version = @ + 2]
  /\ UpdateGoto(u, "dropOld")
  /\ UNCHANGED <<cache, lookupVars, oldSlug, newSlug, cacheFaults>>

(* UPDATE sources: a new secret or any other column makes a new version.   *)
WriteSource(u) ==
  /\ updateStep[u] = "write"
  /\ \E enabled \in BOOLEAN :
       source' = [slug |-> SlugAfter(u), version |-> source.version + 1, enabled |-> enabled]
  /\ UpdateGoto(u, "dropOld")
  /\ UNCHANGED <<cache, lookupVars, oldSlug, newSlug, cacheFaults>>

(* Mutant of InvalidateOld: only the new slug is invalidated.              *)
InvalidateNewOnly(u) ==
  /\ updateStep[u] = "dropOld"
  /\ UpdateGoto(u, IF newSlug[u] = NoSlug THEN "done" ELSE "dropNew")
  /\ UNCHANGED <<source, cache, lookupVars, oldSlug, newSlug, cacheFaults>>

(* The slug read before the write is invalidated, and then the one asked   *)
(* for, if that is another.                                                *)
InvalidateOld(u) ==
  /\ updateStep[u] = "dropOld"
  /\ cache' = [cache EXCEPT ![oldSlug[u]] = NoConfig]
  /\ UpdateGoto(u, IF newSlug[u] \in {NoSlug, oldSlug[u]} THEN "done" ELSE "dropNew")
  /\ UNCHANGED <<source, lookupVars, oldSlug, newSlug, cacheFaults>>

InvalidateNew(u) ==
  /\ updateStep[u] = "dropNew"
  /\ cache' = [cache EXCEPT ![newSlug[u]] = NoConfig]
  /\ UpdateGoto(u, "done")
  /\ UNCHANGED <<source, lookupVars, oldSlug, newSlug, cacheFaults>>

(* The handler dies, or Redis refuses the DEL, after the row is written.   *)
InterruptUpdate(u) ==
  /\ updateStep[u] \in {"dropOld", "dropNew"}
  /\ cacheFaults < CacheFaults
  /\ cacheFaults' = cacheFaults + 1
  /\ UpdateGoto(u, "done")
  /\ UNCHANGED <<source, cache, lookupVars, oldSlug, newSlug>>

-----------------------------------------------------------------------------
Lookup(r) == Get(r) \/ Select(r) \/ Set(r) \/ VerifyWith(r)
Update(u) == ReadOldSlug(u) \/ WriteSource(u) \/ InvalidateOld(u) \/ InvalidateNew(u)

CacheNext ==
  \/ \E r \in Lookups : Lookup(r)
  \/ \E u \in Updates : Update(u) \/ InterruptUpdate(u)
  \/ \E s \in Slugs : Expire(s)

CacheSpec == CacheInit /\ [][CacheNext]_cacheVars

(* Requests in progress run on, and Redis expires what it stores.          *)
CacheFairness ==
  /\ \A r \in Lookups : WF_cacheVars(Lookup(r))
  /\ \A u \in Updates : WF_cacheVars(Update(u))
  /\ \A s \in Slugs : WF_cacheVars(Expire(s))

CacheFairSpec == CacheSpec /\ CacheFairness

-----------------------------------------------------------------------------
Stale(s) == cache[s] # NoConfig /\ cache[s] # source

Invalidating == \E u \in Updates : updateStep[u] \in {"dropOld", "dropNew"}

(* A signature is checked only with a configuration that was enabled and   *)
(* had the slug the request asks for, also while the source is renamed.    *)
VerifiedUnderOwnSlug ==
  \A r \in Lookups : lookupStep[r] = "verify" =>
    found[r] # NoConfig /\ found[r].slug = lookupSlug[r] /\ found[r].enabled

(* Whatever races and interruptions leave in the cache, once the updates   *)
(* are over it ends in agreement with the row: the TTL bounds staleness.   *)
CacheCatchesUp == <>[](\A s \in Slugs : ~Stale(s))

=============================================================================
