--------------------------- MODULE MCSourceCache ---------------------------
(* The source cache with a history of the overlaps that can make it stale. *)
EXTENDS SourceCache

VARIABLE overlapped    \* a write fell into a fill, into another update, or
                       \* an update was interrupted

(* A request has read the row and not stored it yet.                       *)
Filling == \E r \in Lookups : lookupStep[r] = "set"

Overlaps(u) ==
  Filling \/ \E v \in Updates \ {u} : updateStep[v] \in {"write", "dropOld", "dropNew"}

HistoryInit == CacheInit /\ overlapped = FALSE

HistoryNext ==
  \/ \E r \in Lookups : Lookup(r) /\ UNCHANGED overlapped
  \/ \E u \in Updates :
       \/ ReadOldSlug(u) /\ UNCHANGED overlapped
       \/ WriteSource(u) /\ overlapped' = (overlapped \/ Overlaps(u))
       \/ (InvalidateOld(u) \/ InvalidateNew(u)) /\ UNCHANGED overlapped
       \/ InterruptUpdate(u) /\ overlapped' = TRUE
  \/ \E s \in Slugs : Expire(s) /\ UNCHANGED overlapped

HistorySpec ==
  HistoryInit /\ [][HistoryNext]_<<cacheVars, overlapped>> /\ CacheFairness

(* "Called on source update to ensure stale config is not served": true,   *)
(* renames included, as long as no write falls between a request's SELECT  *)
(* and its SET or into another update, and no update is interrupted.       *)
StaleNeedsOverlap == (\E s \in Slugs : Stale(s)) => Invalidating \/ overlapped
=============================================================================
