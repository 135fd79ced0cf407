--------------------------- MODULE SourceListing ---------------------------
(***************************************************************************)
(* A client that pages through GET /api/sources while sources are created. *)
(* Pages are cut by key, newest first: the cursor holds the time and the   *)
(* id of the last source.  PostgreSQL keeps microseconds, the cursor goes  *)
(* through a JavaScript Date and keeps milliseconds.                       *)
(***************************************************************************)
EXTENDS Naturals, FiniteSets

CONSTANTS
  Ids,                 \* ids of sources, random and ordered
  SourceLimit,         \* limit
  MicrosPerMs,         \* 1000
  MaxTime              \* bound on the clock

ASSUME SourceListingAssumption ==
  /\ Ids \subseteq Nat
  /\ SourceLimit \in Nat \ {0}
  /\ MicrosPerMs \in Nat \ {0}
  /\ MaxTime \in Nat

VARIABLES
  clock,               \* in microseconds
  sources,             \* ids of the rows
  createdAt,           \* created_at of each
  pageStep,            \* "begin", "page" or "end"
  cursor,              \* time and id of the last source listed
  listed,              \* how often each source has been on a page
  firstSources,        \* history: the sources there when the listing began
  lastOfPage           \* history: sources a cursor was made from

sourceListingVars ==
  <<clock, sources, createdAt, pageStep, cursor, listed, firstSources, lastOfPage>>

SourceListingInit ==
  /\ clock = 0
  /\ sources = {}
  /\ createdAt = [i \in Ids |-> 0]
  /\ pageStep = "begin"
  /\ cursor = <<0, 0>>
  /\ listed = [i \in Ids |-> 0]
  /\ firstSources = {} /\ lastOfPage = {}

Pass ==
  /\ clock < MaxTime
  /\ clock' = clock + 1
  /\ UNCHANGED <<sources, createdAt, pageStep, cursor, listed, firstSources, lastOfPage>>

(* The transaction that inserts the row may have begun some time ago, and  *)
(* created_at is that time.  A slug or name that is taken changes nothing. *)
CreateSource(i) ==
  /\ i \notin sources
  /\ sources' = sources \cup {i}
  /\ \E t \in 0..clock : createdAt' = [createdAt EXCEPT ![i] = t]
  /\ UNCHANGED <<clock, pageStep, cursor, listed, firstSources, lastOfPage>>

(* The order of the rows, as PostgreSQL compares them.                     *)
Key(i) == <<createdAt[i], i>>
Precedes(a, b) == a[1] < b[1] \/ (a[1] = b[1] /\ a[2] < b[2])

(* Mutant of Beyond: <= in place of <.                                     *)
FromCursor(i) == pageStep = "begin" \/ Key(i) = cursor \/ Precedes(Key(i), cursor)

Beyond(i) == pageStep = "begin" \/ Precedes(Key(i), cursor)

(* ORDER BY created_at DESC, id DESC LIMIT limit.                          *)
SourcePage ==
  {i \in sources : Beyond(i) /\
     Cardinality({k \in sources : Beyond(k) /\ Precedes(Key(i), Key(k))}) < SourceLimit}

(* toISOString: whole milliseconds.                                        *)
Milliseconds(t) == t - (t % MicrosPerMs)

(* A full page makes a cursor from its last source; any other is the last. *)
FetchSources ==
  /\ pageStep \in {"begin", "page"}
  /\ listed' = [i \in Ids |-> IF i \in SourcePage THEN listed[i] + 1 ELSE listed[i]]
  /\ firstSources' = IF pageStep = "begin" THEN sources ELSE firstSources
  /\ \/ /\ Cardinality(SourcePage) < SourceLimit
        /\ pageStep' = "end"
        /\ UNCHANGED <<cursor, lastOfPage>>
     \/ /\ Cardinality(SourcePage) = SourceLimit
        /\ pageStep' = "page"
        /\ \E last \in SourcePage :
             /\ \A i \in SourcePage \ {last} : Precedes(Key(last), Key(i))
             /\ cursor' = <<Milliseconds(createdAt[last]), last>>
             /\ lastOfPage' = lastOfPage \cup {last}
  /\ UNCHANGED <<clock, sources, createdAt>>

SourceListingNext == Pass \/ FetchSources \/ \E i \in Ids : CreateSource(i)

SourceListingSpec == SourceListingInit /\ [][SourceListingNext]_sourceListingVars

(* No source is listed twice, whatever is created meanwhile.  One that is  *)
(* there from the first page on is left out only if it was created in the  *)
(* same millisecond as the last source of a page: the cursor, truncated,   *)
(* lies before all that were created earlier in that millisecond.          *)
KeysetListsOnce ==
  /\ \A i \in Ids : listed[i] <= 1
  /\ pageStep = "end" =>
       \A i \in firstSources : listed[i] = 0 =>
         \E last \in lastOfPage \ {i} :
           Milliseconds(createdAt[last]) = Milliseconds(createdAt[i])

=============================================================================
