--------------------------- MODULE OffsetListing ---------------------------
(***************************************************************************)
(* A client that pages through GET /api/dead-letters or GET /api/events    *)
(* while rows are inserted, retried and swept.  Each page is a COUNT and a *)
(* SELECT with LIMIT and OFFSET, newest row first, and the cursor is the   *)
(* offset of the next page: it names no row.  The rows listed are those in *)
(* status dead_letter; a listing of events by status changes alike.        *)
(***************************************************************************)
EXTENDS DeliveryRows, FiniteSets

CONSTANTS
  PageLimit,     \* limit
  MaxRows        \* bound on the rows inserted

ASSUME OffsetAssumption == PageLimit \in Nat \ {0} /\ MaxRows \in Nat

VARIABLES
  listingStep,   \* what the client's next request does
  offset,        \* decoded from the cursor
  total,         \* what COUNT returned for the current page
  seen,          \* how often each row has been on a page
  firstMatch,    \* history: the rows that matched when the listing began
  gained, lost,  \* history: rows that came to match, or ceased to, since
  slipped        \* history: a row came between a COUNT and its SELECT

listingVars == <<listingStep, offset, total, seen, firstMatch, gained, lost, slipped>>

OffsetInit ==
  /\ listingStep = "begin"
  /\ offset = 0
  /\ total = 0
  /\ seen = [r \in 1..MaxRows |-> 0]
  /\ firstMatch = {} /\ gained = {} /\ lost = {} /\ slipped = FALSE

(* The WHERE clause.                                                       *)
Matching == RowsAre("dead_letter")

CountRows ==
  /\ listingStep \in {"begin", "count"}
  /\ total' = Cardinality(Matching)
  /\ firstMatch' = IF listingStep = "begin" THEN Matching ELSE firstMatch
  /\ listingStep' = "fetch"
  /\ UNCHANGED <<rows, offset, seen, gained, lost, slipped>>

(* Mutant of Page: the oldest rows first.                                  *)
OldestPage ==
  {r \in Matching :
     LET before == Cardinality({q \in Matching : q < r})
     IN  before \in offset..(offset + PageLimit - 1)}

(* ORDER BY ... DESC LIMIT limit OFFSET offset.                            *)
Page ==
  {r \in Matching :
     LET newer == Cardinality({q \in Matching : q > r})
     IN  newer \in offset..(offset + PageLimit - 1)}

(* There is a next page if the rows so far are fewer than those counted.   *)
FetchPage ==
  /\ listingStep = "fetch"
  /\ seen' = [r \in 1..MaxRows |-> IF r \in Page THEN seen[r] + 1 ELSE seen[r]]
  /\ offset' = offset + Cardinality(Page)
  /\ listingStep' = IF offset' < total THEN "count" ELSE "end"
  /\ UNCHANGED <<rows, total, firstMatch, gained, lost, slipped>>

(* The rows change under the client.                                       *)
RowsChange ==
  /\ RowsNext
  /\ Len(rows') <= MaxRows
  /\ IF listingStep \in {"begin", "end"} THEN UNCHANGED <<gained, lost, slipped>>
     ELSE /\ gained' = gained \cup (Matching' \ Matching)
          /\ lost' = lost \cup (Matching \ Matching')
          /\ slipped' = (slipped \/ (listingStep = "fetch" /\ ~(Matching' \subseteq Matching)))
  /\ UNCHANGED <<listingStep, offset, total, seen, firstMatch>>

OffsetNext == CountRows \/ FetchPage \/ RowsChange

OffsetSpec == RowsInit /\ OffsetInit /\ [][OffsetNext]_<<rows, listingVars>>

(* A row is listed twice only if a newer one came to match meanwhile.  One *)
(* that matched throughout and is never listed was passed over because a   *)
(* newer row ceased to match, or cut off because a row came between a      *)
(* count and its page.                                                     *)
OffsetListsOnce ==
  /\ \A r \in DOMAIN rows : seen[r] > 1 => \E q \in gained : q > r
  /\ listingStep = "end" =>
       \A r \in firstMatch \ lost : seen[r] = 0 => slipped \/ \E q \in lost : q > r

=============================================================================
