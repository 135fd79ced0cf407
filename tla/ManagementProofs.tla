-------------------------- MODULE ManagementProofs --------------------------
(* Overlap is the only cause of duplicate tenants and of statistics that   *)
(* go back, and rows that come or go the only cause of a row listed twice  *)
(* or never, for any number of requests, runs, pages and rows.             *)
EXTENDS Tenants, Statistics, OffsetListing, FiniteSetTheorems, TLAPS

-----------------------------------------------------------------------------
(* An applicant about to insert overlaps every tenant that has its name by *)
(* now: the check found none, so it was inserted since.                    *)
OvertakenChecks ==
  \A r \in Applicants, s \in tenants :
    applicantStep[r] = "insert" /\ tenantName[r] = tenantName[s] => <<s, r>> \in overlapping

UncheckedAbsent == \A r \in Applicants : applicantStep[r] = "check" => r \notin tenants

TenantsInv ==
  TenantsTypeOK /\ OvertakenChecks /\ UncheckedAbsent /\ DuplicateNamesOverlapped

LEMMA TenantsInitInv == TenantsInit => TenantsInv
BY TenantsAssumption
DEF TenantsInit, TenantsInv, TenantsTypeOK, OvertakenChecks, UncheckedAbsent,
    DuplicateNamesOverlapped, Applicants

LEMMA TenantsStepInv == TenantsInv /\ [TenantsNext]_tenantsVars => TenantsInv'
<1> SUFFICES ASSUME TenantsInv, [TenantsNext]_tenantsVars
             PROVE  TenantsInv'
  OBVIOUS
<1> USE DEF TenantsInv, TenantsTypeOK
<1>1. ASSUME NEW r \in Applicants, CheckName(r) PROVE TenantsInv'
  <2>1. PICK name \in Names : tenantName' = [tenantName EXCEPT ![r] = name]
    BY <1>1, TenantsAssumption DEF CheckName, Ask
  <2>2. PICK step \in {"insert", "done"} :
          /\ applicantStep' = [applicantStep EXCEPT ![r] = step]
          /\ step = "insert" => ~Taken(tenantName'[r])
    BY <1>1 DEF CheckName, ApplicantGoto
  <2>3. UNCHANGED <<selfRegistrationEnabled, tenants, overlapping>>
    BY <1>1 DEF CheckName
  <2>4. r \notin tenants
    BY <1>1 DEF CheckName, UncheckedAbsent
  <2>5. \A s \in tenants : tenantName'[s] = tenantName[s]
    BY <2>1, <2>4
  <2>6. TenantsTypeOK'
    BY <2>1, <2>2, <2>3
  <2>7. OvertakenChecks'
    BY <2>1, <2>2, <2>3, <2>5 DEF OvertakenChecks, Taken
  <2>8. UncheckedAbsent'
    BY <2>2, <2>3 DEF UncheckedAbsent
  <2>9. DuplicateNamesOverlapped'
    BY <2>3, <2>5 DEF DuplicateNamesOverlapped
  <2> QED
    BY <2>6, <2>7, <2>8, <2>9
<1>2. ASSUME NEW r \in Applicants, InsertTenant(r) PROVE TenantsInv'
  <2>1. TenantsTypeOK'
    BY <1>2 DEF InsertTenant, ApplicantGoto
  <2>2. OvertakenChecks'
    BY <1>2 DEF InsertTenant, ApplicantGoto, OvertakenChecks
  <2>3. UncheckedAbsent'
    BY <1>2 DEF InsertTenant, ApplicantGoto, UncheckedAbsent
  <2>4. DuplicateNamesOverlapped'
    BY <1>2 DEF InsertTenant, DuplicateNamesOverlapped, OvertakenChecks
  <2> QED
    BY <2>1, <2>2, <2>3, <2>4
<1>3. ASSUME NEW r \in Applicants, AbandonTenant(r) PROVE TenantsInv'
  BY <1>3 DEF AbandonTenant, ApplicantGoto, OvertakenChecks, UncheckedAbsent,
              DuplicateNamesOverlapped
<1>4. CASE UNCHANGED tenantsVars
  BY <1>4 DEF tenantsVars, OvertakenChecks, UncheckedAbsent, DuplicateNamesOverlapped
<1> QED
  BY <1>1, <1>2, <1>3, <1>4 DEF TenantsNext

(* Two tenants share a name only if the check of one fell before the       *)
(* insert of the other.                                                    *)
THEOREM DuplicatesOverlapped == TenantsSpec => []DuplicateNamesOverlapped
<1>1. TenantsInv => DuplicateNamesOverlapped
  BY DEF TenantsInv
<1> QED
  BY <1>1, TenantsInitInv, TenantsStepInv, PTL DEF TenantsSpec

-----------------------------------------------------------------------------
Successes == RowsAre("success")

RowsTypeOK == rows \in Seq({"pending", "success", "failed", "dead_letter"})

StatisticsTypeOK ==
  /\ RowsTypeOK
  /\ aggregatorStep \in [Aggregators -> {"select", "write"}]
  /\ counted \in [Aggregators -> [success : Nat, failed : Nat]]
  /\ published \in [success : Nat, failed : Nat]

(* Nothing counts more successes than there are, and a run not overtaken   *)
(* has counted at least as many as are published.                          *)
CountsBehind ==
  /\ published.success <= Cardinality(Successes)
  /\ \A a \in Aggregators : aggregatorStep[a] = "write" =>
       /\ counted[a].success <= Cardinality(Successes)
       /\ a \notin overtaken => published.success <= counted[a].success

StatisticsInv == StatisticsTypeOK /\ CountsBehind

LEMMA RowsFinite ==
  ASSUME RowsTypeOK, NEW S, S \subseteq DOMAIN rows
  PROVE  IsFiniteSet(S) /\ Cardinality(S) \in Nat
<1>1. IsFiniteSet(DOMAIN rows)
  BY FS_Interval DEF RowsTypeOK
<1> QED
  BY <1>1, FS_Subset, FS_CardinalityType

(* Whatever happens to the rows, none goes and a success stays one.        *)
LEMMA SuccessesGrow ==
  ASSUME RowsTypeOK, RowsNext
  PROVE  /\ Successes \subseteq Successes'
         /\ DOMAIN rows \subseteq DOMAIN rows'
         /\ RowsTypeOK'
<1>1. CASE Insert
  BY <1>1 DEF Insert, Successes, RowsAre, RowsTypeOK
<1>2. ASSUME NEW positions \in SUBSET DOMAIN rows, NEW status \in {"pending", "dead_letter"},
             \A i \in positions : rows[i] # "success", Become(positions, status)
      PROVE  /\ Successes \subseteq Successes'
             /\ DOMAIN rows \subseteq DOMAIN rows'
             /\ RowsTypeOK'
  <2>1. DOMAIN rows' = DOMAIN rows /\ DOMAIN rows = 1..Len(rows) /\ Len(rows) \in Nat
    BY <1>2 DEF Become, RowsTypeOK
  <2>2. \A i \in DOMAIN rows : rows'[i] = IF i \in positions THEN status ELSE rows[i]
    BY <1>2 DEF Become
  <2>3. \A i \in DOMAIN rows : rows'[i] \in {"pending", "success", "failed", "dead_letter"}
    BY <1>2, <2>1, <2>2 DEF RowsTypeOK
  <2>4. Successes \subseteq Successes'
    BY <1>2, <2>1, <2>2 DEF Successes, RowsAre
  <2>5. rows' = [i \in 1..Len(rows) |-> rows'[i]]
    BY <1>2, <2>1 DEF Become
  <2> QED
    BY <2>1, <2>3, <2>4, <2>5 DEF RowsTypeOK
<1>3. CASE Reset
  BY <1>2, <1>3 DEF Reset, RowsAre
<1>4. CASE Sweep
  BY <1>2, <1>4 DEF Sweep, RowsAre
<1> QED
  BY <1>1, <1>3, <1>4 DEF RowsNext

LEMMA StatisticsInitInv == RowsInit /\ StatisticsInit => StatisticsInv
<1> SUFFICES ASSUME RowsInit, StatisticsInit PROVE StatisticsInv
  OBVIOUS
<1>1. StatisticsTypeOK
  BY DEF RowsInit, StatisticsInit, StatisticsTypeOK, RowsTypeOK
<1>2. Cardinality(Successes) \in Nat
  BY <1>1, RowsFinite DEF Successes, RowsAre, StatisticsTypeOK
<1> QED
  BY <1>1, <1>2 DEF StatisticsInit, StatisticsInv, CountsBehind

LEMMA StatisticsStepInv ==
  StatisticsInv /\ [StatisticsNext \/ RowsMove]_<<rows, statisticsVars>> => StatisticsInv'
<1> SUFFICES ASSUME StatisticsInv, [StatisticsNext \/ RowsMove]_<<rows, statisticsVars>>
             PROVE  StatisticsInv'
  OBVIOUS
<1> USE DEF StatisticsInv
<1>1. Cardinality(Successes) \in Nat
  BY RowsFinite DEF Successes, RowsAre, StatisticsTypeOK
<1>2. ASSUME NEW a \in Aggregators, SelectCounts(a) PROVE StatisticsInv'
  <2>1. Counts \in [success : Nat, failed : Nat]
    BY RowsFinite DEF Counts, RowsAre, StatisticsTypeOK
  <2>2. Counts.success = Cardinality(Successes)
    BY DEF Counts, Successes
  <2>3. StatisticsTypeOK'
    BY <1>2, <2>1 DEF SelectCounts, StatisticsTypeOK, RowsTypeOK
  <2>4. Successes' = Successes
    BY <1>2 DEF SelectCounts, Successes, RowsAre
  <2>5. CountsBehind'
    BY <1>1, <1>2, <2>2, <2>4 DEF SelectCounts, CountsBehind, StatisticsTypeOK
  <2> QED
    BY <2>3, <2>5
<1>3. ASSUME NEW a \in Aggregators, WriteCounts(a) PROVE StatisticsInv'
  <2>1. StatisticsTypeOK'
    BY <1>3 DEF WriteCounts, StatisticsTypeOK, RowsTypeOK
  <2>2. Successes' = Successes
    BY <1>3 DEF WriteCounts, Successes, RowsAre
  <2>3. CountsBehind'
    BY <1>3, <2>2 DEF WriteCounts, CountsBehind, StatisticsTypeOK
  <2> QED
    BY <2>1, <2>3
<1>4. ASSUME NEW a \in Aggregators, AbortCounts(a) PROVE StatisticsInv'
  BY <1>4 DEF AbortCounts, StatisticsTypeOK, RowsTypeOK, CountsBehind, Successes, RowsAre
<1>5. CASE RowsMove
  <2>1. StatisticsTypeOK' /\ Successes \subseteq Successes'
    BY <1>5, SuccessesGrow DEF RowsMove, statisticsVars, StatisticsTypeOK
  <2>2. IsFiniteSet(Successes')
    <3>1. IsFiniteSet(DOMAIN rows')
      BY <2>1, FS_Interval DEF StatisticsTypeOK, RowsTypeOK
    <3> QED
      BY <3>1, FS_Subset DEF Successes, RowsAre
  <2>3. Cardinality(Successes') \in Nat /\ Cardinality(Successes) <= Cardinality(Successes')
    BY <2>1, <2>2, FS_Subset, FS_CardinalityType
  <2>4. CountsBehind'
    BY <1>1, <1>5, <2>3 DEF RowsMove, statisticsVars, CountsBehind, StatisticsTypeOK
  <2> QED
    BY <2>1, <2>4
<1>6. CASE UNCHANGED <<rows, statisticsVars>>
  BY <1>6 DEF statisticsVars, StatisticsTypeOK, RowsTypeOK, CountsBehind, Successes, RowsAre
<1> QED
  BY <1>2, <1>3, <1>4, <1>5, <1>6 DEF StatisticsNext

(* The published number of successes goes back only by the write of a run  *)
(* that another has overtaken.                                             *)
THEOREM StatsOvertaken == StatisticsSpec => StatsRegressOnlyOvertaken
<1>1. StatisticsInv /\ [StatisticsNext \/ RowsMove]_<<rows, statisticsVars>> =>
        [published'.success < published.success =>
           \E a \in overtaken : WriteCounts(a)]_<<rows, statisticsVars>>
  <2> SUFFICES ASSUME StatisticsInv, StatisticsNext \/ RowsMove,
                      published'.success < published.success
               PROVE  \E a \in overtaken : WriteCounts(a)
    OBVIOUS
  <2>1. published.success \in Nat /\ published' # published
    BY DEF StatisticsInv, StatisticsTypeOK
  <2>2. PICK a \in Aggregators : WriteCounts(a)
    BY <2>1 DEF StatisticsNext, SelectCounts, AbortCounts, RowsMove, statisticsVars
  <2>3. a \in overtaken
    BY <2>2 DEF WriteCounts, StatisticsInv, StatisticsTypeOK, CountsBehind
  <2> QED
    BY <2>2, <2>3
<1> QED
  BY <1>1, StatisticsInitInv, StatisticsStepInv, PTL
  DEF StatisticsSpec, StatsRegressOnlyOvertaken

-----------------------------------------------------------------------------
(* Pages.  A row's rank is the number of matching rows newer than it.      *)
OffsetTypeOK ==
  /\ RowsTypeOK
  /\ DOMAIN rows \subseteq 1..MaxRows
  /\ listingStep \in {"begin", "count", "fetch", "end"}
  /\ offset \in Nat
  /\ total \in Nat
  /\ seen \in [1..MaxRows -> Nat]

Newer(r) == {q \in Matching : q > r}
Rank(r) == Cardinality(Newer(r))

LEMMA RankType ==
  ASSUME OffsetTypeOK, NEW r
  PROVE  IsFiniteSet(Newer(r)) /\ Rank(r) \in Nat
BY RowsFinite DEF OffsetTypeOK, Newer, Rank, Matching, RowsAre

LEMMA MatchingType == OffsetTypeOK => Matching \subseteq Nat
BY DEF OffsetTypeOK, Matching, RowsAre

LEMMA RankOrder ==
  ASSUME OffsetTypeOK, NEW q \in Matching, NEW r \in Matching, q > r
  PROVE  Rank(q) < Rank(r)
<1>1. q \in Nat /\ r \in Nat
  BY MatchingType
<1>2. Newer(q) \cup {q} \subseteq Newer(r)
  <2>1. ASSUME NEW p \in Newer(q) PROVE p \in Newer(r)
    <3>1. p \in Matching /\ p > q /\ p \in Nat
      BY MatchingType DEF Newer
    <3> QED
      BY <1>1, <3>1 DEF Newer
  <2> QED
    BY <2>1 DEF Newer
<1>3. Cardinality(Newer(q) \cup {q}) = Rank(q) + 1
  <2>1. q \notin Newer(q)
    BY <1>1 DEF Newer
  <2> QED
    BY <2>1, RankType, FS_AddElement DEF Rank
<1>4. Cardinality(Newer(q) \cup {q}) <= Rank(r)
  BY <1>2, RankType, FS_Subset DEF Rank
<1> QED
  BY <1>3, <1>4, RankType

(* A page holds at most PageLimit rows, for their ranks differ, ...        *)
LEMMA PageSize ==
  ASSUME OffsetTypeOK
  PROVE  IsFiniteSet(Page) /\ Cardinality(Page) \in Nat /\ Cardinality(Page) <= PageLimit
<1> DEFINE ranks == offset..(offset + PageLimit - 1)
           rank == [r \in Page |-> Rank(r)]
<1>1. \A r \in Page : r \in Matching /\ Rank(r) \in ranks
  BY DEF Page, Rank, Newer
<1>2. ASSUME NEW q \in Page, NEW r \in Page, Rank(q) = Rank(r) PROVE q = r
  <2>1. q \in Nat /\ r \in Nat /\ Rank(q) \in Nat
    BY <1>1, MatchingType, RankType
  <2> QED
    BY <1>1, <1>2, <2>1, RankOrder
<1>3. rank \in Injection(Page, ranks)
  BY <1>1, <1>2 DEF Injection, IsInjective
<1>4. IsFiniteSet(ranks) /\ Cardinality(ranks) = PageLimit
  <2>1. offset \in Int /\ offset + PageLimit - 1 \in Int
    BY OffsetAssumption DEF OffsetTypeOK
  <2>2. ~(offset > offset + PageLimit - 1) /\ (offset + PageLimit - 1) - offset + 1 = PageLimit
    BY OffsetAssumption DEF OffsetTypeOK
  <2> QED
    BY <2>1, <2>2, FS_Interval
<1>5. IsFiniteSet(Page) /\ Cardinality(Page) <= PageLimit
  BY <1>3, <1>4, FS_Injection
<1> QED
  BY <1>5, FS_CardinalityType

(* ... and every rank from the offset to that of a row on it.              *)
LEMMA PageReaches ==
  ASSUME OffsetTypeOK, NEW r \in Page
  PROVE  Rank(r) < offset + Cardinality(Page)
<1> DEFINE above == Newer(r) \cup {r}
           rank == [q \in above |-> Rank(q)]
           rowAt == [k \in offset..Rank(r) |-> CHOOSE q \in above : Rank(q) = k]
<1>1. r \in Matching /\ Rank(r) \in offset..(offset + PageLimit - 1)
  BY DEF Page, Rank, Newer
<1>2. above \subseteq Matching /\ r \in Nat /\ r \notin Newer(r)
  BY <1>1, MatchingType DEF Newer
<1>3. ASSUME NEW q \in above PROVE Rank(q) \in 0..Rank(r)
  <2>1. Rank(q) \in Nat /\ Rank(r) \in Nat
    BY RankType
  <2>2. CASE q = r
    BY <2>1, <2>2
  <2>3. CASE q # r
    <3>1. q \in Matching /\ q > r
      BY <1>3, <2>3 DEF Newer
    <3>2. Rank(q) < Rank(r)
      BY <1>1, <3>1, RankOrder
    <3> QED
      BY <2>1, <3>2
  <2> QED
    BY <2>2, <2>3
<1>4. ASSUME NEW p \in above, NEW q \in above, Rank(p) = Rank(q) PROVE p = q
  <2>1. p \in Nat /\ q \in Nat /\ Rank(p) \in Nat
    BY <1>2, MatchingType, RankType
  <2> QED
    BY <1>2, <1>4, <2>1, RankOrder
<1>5. rank \in Injection(above, 0..Rank(r))
  BY <1>3, <1>4 DEF Injection, IsInjective
<1>6. IsFiniteSet(0..Rank(r)) /\ Cardinality(0..Rank(r)) = Rank(r) + 1
  <2>1. 0 \in Int /\ Rank(r) \in Int /\ ~(0 > Rank(r))
    BY RankType
  <2> QED
    BY <2>1, FS_Interval
<1>7. Cardinality(above) = Rank(r) + 1
  BY <1>2, RankType, FS_AddElement DEF Rank
<1>8. rank \in Surjection(above, 0..Rank(r))
  BY <1>5, <1>6, <1>7, FS_Injection
<1>9. ASSUME NEW k \in offset..Rank(r)
      PROVE  rowAt[k] \in Page /\ Rank(rowAt[k]) = k
  <2>1. k \in 0..Rank(r)
    BY <1>9, RankType DEF OffsetTypeOK
  <2>2. \E q \in above : Rank(q) = k
    BY <1>8, <2>1 DEF Surjection
  <2>3. rowAt[k] \in above /\ Rank(rowAt[k]) = k
    BY <2>2
  <2>4. k \in offset..(offset + PageLimit - 1)
    BY <1>1, <1>9, OffsetAssumption, RankType DEF OffsetTypeOK
  <2> QED
    BY <1>2, <2>3, <2>4 DEF Page, Rank, Newer
<1>10. rowAt \in Injection(offset..Rank(r), Page)
  <2> HIDE DEF rowAt
  <2>1. rowAt \in [offset..Rank(r) -> Page]
    <3>1. rowAt = [k \in offset..Rank(r) |-> rowAt[k]]
      BY DEF rowAt
    <3> QED
      BY <1>9, <3>1
  <2> QED
    BY <1>9, <2>1 DEF Injection, IsInjective
<1>11. Cardinality(offset..Rank(r)) = Rank(r) - offset + 1
  BY <1>1, RankType, FS_Interval, OffsetAssumption DEF OffsetTypeOK
<1>12. Rank(r) - offset + 1 <= Cardinality(Page)
  BY <1>10, <1>11, PageSize, FS_Injection
<1> QED
  BY <1>12, PageSize, RankType DEF OffsetTypeOK

-----------------------------------------------------------------------------
(* A row on an earlier page is before the offset, one not yet listed is    *)
(* not, unless a newer row came or went.                                   *)
ListedPassed ==
  \A r \in 1..MaxRows : seen[r] > 0 =>
    (\E q \in gained : q > r) \/ Rank(r) < offset

UnlistedAhead ==
  \A r \in firstMatch \ lost :
    /\ r \in Matching
    /\ seen[r] = 0 => (\E q \in lost : q > r) \/ Rank(r) >= offset

OffsetInv ==
  /\ OffsetTypeOK
  /\ listingStep = "begin" =>
       offset = 0 /\ lost = {} /\ \A r \in 1..MaxRows : seen[r] = 0
  /\ \A r \in 1..MaxRows : seen[r] > 0 => r \in DOMAIN rows
  /\ listingStep \in {"count", "fetch"} => ListedPassed /\ UnlistedAhead
  /\ listingStep = "fetch" /\ ~slipped => Cardinality(Matching) <= total
  /\ OffsetListsOnce

LEMMA OffsetInitInv == RowsInit /\ OffsetInit => OffsetInv
<1> SUFFICES ASSUME RowsInit, OffsetInit PROVE OffsetInv
  OBVIOUS
<1>1. OffsetTypeOK
  BY DEF RowsInit, OffsetInit, OffsetTypeOK, RowsTypeOK
<1> QED
  BY <1>1 DEF RowsInit, OffsetInit, OffsetInv, OffsetListsOnce

LEMMA CountRowsInv == OffsetInv /\ CountRows => OffsetInv'
<1> SUFFICES ASSUME OffsetInv, CountRows PROVE OffsetInv'
  OBVIOUS
<1> USE DEF OffsetInv
<1>1. /\ UNCHANGED <<rows, offset, seen, gained, lost, slipped>>
      /\ listingStep' = "fetch" /\ total' = Cardinality(Matching)
      /\ firstMatch' = IF listingStep = "begin" THEN Matching ELSE firstMatch
  BY DEF CountRows
<1>2. Matching' = Matching /\ \A r : Rank(r)' = Rank(r)
  BY <1>1 DEF Rank, Newer, Matching, RowsAre
<1>3. Cardinality(Matching) \in Nat /\ Matching \subseteq DOMAIN rows
  BY RowsFinite DEF OffsetTypeOK, Matching, RowsAre
<1>4. OffsetTypeOK'
  BY <1>1, <1>3 DEF OffsetTypeOK, RowsTypeOK
<1>5. \A r \in Matching : Rank(r) >= 0
  BY RankType
<1>6. CASE listingStep = "begin"
  <2>1. ListedPassed' /\ UnlistedAhead'
    BY <1>1, <1>2, <1>5, <1>6 DEF ListedPassed, UnlistedAhead
  <2> QED
    BY <1>1, <1>2, <1>3, <1>4, <2>1, <1>6 DEF OffsetListsOnce
<1>7. CASE listingStep = "count"
  <2>1. ListedPassed' /\ UnlistedAhead'
    BY <1>1, <1>2, <1>7 DEF ListedPassed, UnlistedAhead
  <2> QED
    BY <1>1, <1>2, <1>3, <1>4, <2>1, <1>7 DEF OffsetListsOnce
<1> QED
  BY <1>6, <1>7 DEF CountRows

LEMMA FetchPageInv == OffsetInv /\ FetchPage => OffsetInv'
<1> SUFFICES ASSUME OffsetInv, FetchPage PROVE OffsetInv'
  OBVIOUS
<1> USE DEF OffsetInv
<1>1. /\ UNCHANGED <<rows, total, firstMatch, gained, lost, slipped>>
      /\ listingStep = "fetch"
      /\ listingStep' = IF offset' < total THEN "count" ELSE "end"
      /\ offset' = offset + Cardinality(Page)
      /\ seen' = [r \in 1..MaxRows |-> IF r \in Page THEN seen[r] + 1 ELSE seen[r]]
  BY DEF FetchPage
<1>2. Matching' = Matching /\ \A r : Rank(r)' = Rank(r)
  BY <1>1 DEF Rank, Newer, Matching, RowsAre
<1>3. /\ Cardinality(Page) \in Nat /\ Cardinality(Page) <= PageLimit
      /\ offset \in Nat /\ PageLimit \in Nat /\ total \in Nat
  BY PageSize, OffsetAssumption DEF OffsetTypeOK
<1>4. OffsetTypeOK'
  BY <1>1, <1>3 DEF OffsetTypeOK, RowsTypeOK
<1>5. Page \subseteq DOMAIN rows /\ Page \subseteq Matching /\ DOMAIN rows \subseteq 1..MaxRows
  BY DEF Page, Matching, RowsAre, OffsetTypeOK
<1>6. \A r \in 1..MaxRows : seen[r] \in Nat /\ Rank(r) \in Nat
  BY RankType DEF OffsetTypeOK
<1>7. ASSUME NEW r \in 1..MaxRows, seen'[r] > 0
      PROVE  r \in DOMAIN rows /\ ((\E q \in gained : q > r) \/ Rank(r) < offset')
  <2>1. CASE r \in Page
    BY <1>1, <1>5, <2>1, PageReaches
  <2>2. CASE r \notin Page
    BY <1>1, <1>3, <1>6, <1>7, <2>2 DEF ListedPassed
  <2> QED
    BY <2>1, <2>2
<1>8. ASSUME NEW r \in 1..MaxRows, seen'[r] > 1 PROVE \E q \in gained : q > r
  <2>1. CASE r \notin Page
    <3>1. seen[r] > 1
      BY <1>1, <1>8, <2>1
    <3>2. r \in DOMAIN rows
      BY <1>6, <3>1
    <3> QED
      BY <3>1, <3>2 DEF OffsetListsOnce
  <2>2. CASE r \in Page
    <3>1. seen[r] > 0 /\ Rank(r) >= offset
      BY <1>1, <1>3, <1>6, <1>8, <2>2 DEF Page, Rank, Newer
    <3> QED
      BY <1>1, <1>3, <1>6, <3>1 DEF ListedPassed
  <2> QED
    BY <2>1, <2>2
<1>9. ASSUME NEW r \in firstMatch \ lost, seen'[r] = 0, ~\E q \in lost : q > r
      PROVE  Rank(r) >= offset'
  <2>1. r \in Matching /\ r \in 1..MaxRows
    BY <1>1, <1>5 DEF UnlistedAhead, Matching, RowsAre
  <2>2. r \notin Page /\ seen[r] = 0
    BY <1>1, <1>6, <1>9, <2>1
  <2>3. Rank(r) >= offset
    BY <1>1, <1>9, <2>2 DEF UnlistedAhead
  <2>4. Rank(r) \notin offset..(offset + PageLimit - 1)
    BY <2>1, <2>2 DEF Page, Rank, Newer
  <2> QED
    BY <1>1, <1>3, <1>6, <2>1, <2>3, <2>4
<1>10. ListedPassed' /\ UnlistedAhead'
  BY <1>1, <1>2, <1>7, <1>9 DEF ListedPassed, UnlistedAhead
<1>11. ASSUME listingStep' = "end", ~slipped, NEW r \in firstMatch \ lost, seen'[r] = 0
       PROVE  \E q \in lost : q > r
  <2>1. r \in Matching /\ Newer(r) \cup {r} \subseteq Matching
    BY <1>1 DEF UnlistedAhead, Newer
  <2>2. r \notin Newer(r)
    BY <2>1, MatchingType DEF Newer
  <2>3. Cardinality(Newer(r) \cup {r}) = Rank(r) + 1
    BY <2>2, RankType, FS_AddElement DEF Rank
  <2>4. Cardinality(Newer(r) \cup {r}) <= Cardinality(Matching) /\ Cardinality(Matching) \in Nat
    BY <2>1, RowsFinite, FS_Subset DEF OffsetTypeOK, Matching, RowsAre
  <2>5. Cardinality(Matching) <= total /\ ~(offset' < total)
    BY <1>1, <1>11
  <2>6. ~(Rank(r) >= offset')
    BY <1>1, <1>3, <2>3, <2>4, <2>5, RankType
  <2> QED
    BY <1>9, <1>11, <2>6
<1>12. OffsetListsOnce'
  BY <1>1, <1>5, <1>8, <1>11 DEF OffsetListsOnce
<1> QED
  BY <1>1, <1>4, <1>7, <1>10, <1>12

LEMMA RowsChangeInv == OffsetInv /\ RowsChange => OffsetInv'
<1> SUFFICES ASSUME OffsetInv, RowsChange PROVE OffsetInv'
  OBVIOUS
<1> USE DEF OffsetInv
<1>1. UNCHANGED <<listingStep, offset, total, seen, firstMatch>>
  BY DEF RowsChange
<1>2. DOMAIN rows \subseteq DOMAIN rows' /\ RowsTypeOK'
  BY SuccessesGrow DEF RowsChange, OffsetTypeOK
<1>3. OffsetTypeOK'
  <2>1. DOMAIN rows' = 1..Len(rows') /\ Len(rows') \in Nat
    BY <1>2 DEF RowsTypeOK
  <2>2. Len(rows') <= MaxRows
    BY DEF RowsChange
  <2>3. DOMAIN rows' \subseteq 1..MaxRows
    BY <2>1, <2>2, OffsetAssumption
  <2> QED
    BY <1>1, <1>2, <2>3 DEF OffsetTypeOK
<1>4. CASE listingStep \in {"begin", "end"}
  <2>1. UNCHANGED <<gained, lost, slipped>>
    BY <1>4 DEF RowsChange
  <2>2. \A r \in DOMAIN rows' : seen[r] > 1 => r \in DOMAIN rows
    <3>1. \A r \in DOMAIN rows' : r \in 1..MaxRows /\ seen[r] \in Nat
      BY <1>3 DEF OffsetTypeOK
    <3> QED
      BY <3>1
  <2> QED
    BY <1>1, <1>2, <1>3, <1>4, <2>1, <2>2 DEF OffsetListsOnce
<1>5. CASE listingStep \in {"count", "fetch"}
  <2>1. /\ gained' = gained \cup (Matching' \ Matching)
        /\ lost' = lost \cup (Matching \ Matching')
        /\ slipped' = (slipped \/ (listingStep = "fetch" /\ ~(Matching' \subseteq Matching)))
    BY <1>5 DEF RowsChange
  <2>2. ASSUME NEW r \in 1..MaxRows, seen[r] > 0, ~\E q \in gained' : q > r
        PROVE  Rank(r)' < offset
    <3>1. Newer(r)' \subseteq Newer(r)
      BY <2>1, <2>2 DEF Newer
    <3>2. Rank(r)' <= Rank(r) /\ Rank(r)' \in Nat /\ Rank(r) \in Nat
      <4>1. IsFiniteSet(Newer(r)) /\ Rank(r) \in Nat
        BY RankType
      <4>2. Cardinality(Newer(r)') <= Cardinality(Newer(r)) /\ IsFiniteSet(Newer(r)')
        BY <3>1, <4>1, FS_Subset
      <4> QED
        BY <4>1, <4>2, FS_CardinalityType DEF Rank
    <3>3. Rank(r) < offset
      BY <1>5, <2>1, <2>2 DEF ListedPassed
    <3> QED
      BY <3>2, <3>3 DEF OffsetTypeOK
  <2>3. ASSUME NEW r \in firstMatch \ lost'
        PROVE  /\ r \in Matching'
               /\ seen[r] = 0 /\ ~(\E q \in lost' : q > r) => Rank(r)' >= offset
    <3>1. r \in Matching'
      BY <1>5, <2>1, <2>3 DEF UnlistedAhead
    <3>2. ASSUME seen[r] = 0, ~\E q \in lost' : q > r PROVE Rank(r)' >= offset
      <4>1. Newer(r) \subseteq Newer(r)'
        BY <2>1, <3>2 DEF Newer
      <4>2. IsFiniteSet(Newer(r)') /\ Rank(r)' \in Nat
        <5>1. Newer(r)' \subseteq DOMAIN rows'
          BY DEF Newer, Matching, RowsAre
        <5>2. IsFiniteSet(DOMAIN rows')
          BY <1>2, FS_Interval DEF RowsTypeOK
        <5> QED
          BY <5>1, <5>2, FS_Subset, FS_CardinalityType DEF Rank
      <4>3. Rank(r) <= Rank(r)' /\ Rank(r) \in Nat
        BY <4>1, <4>2, FS_Subset, RankType DEF Rank
      <4>4. Rank(r) >= offset
        BY <1>5, <2>1, <2>3, <3>2 DEF UnlistedAhead
      <4> QED
        BY <4>2, <4>3, <4>4 DEF OffsetTypeOK
    <3> QED
      BY <3>1, <3>2
  <2>4. ListedPassed' /\ UnlistedAhead'
    BY <1>1, <2>2, <2>3 DEF ListedPassed, UnlistedAhead
  <2>5. ASSUME listingStep = "fetch", ~slipped' PROVE Cardinality(Matching') <= total
    <3>1. Matching' \subseteq Matching /\ Cardinality(Matching) <= total
      BY <2>1, <2>5
    <3>2. IsFiniteSet(Matching) /\ Cardinality(Matching) \in Nat
      BY RowsFinite DEF OffsetTypeOK, Matching, RowsAre
    <3>3. IsFiniteSet(Matching') /\ Cardinality(Matching') <= Cardinality(Matching)
      BY <3>1, <3>2, FS_Subset
    <3> QED
      BY <3>1, <3>2, <3>3, FS_CardinalityType DEF OffsetTypeOK
  <2>6. ASSUME NEW r \in DOMAIN rows', seen[r] > 1 PROVE \E q \in gained' : q > r
    <3>1. r \in 1..MaxRows /\ seen[r] \in Nat
      BY <1>3 DEF OffsetTypeOK
    <3>2. r \in DOMAIN rows
      BY <2>6, <3>1
    <3> QED
      BY <2>1, <2>6, <3>2 DEF OffsetListsOnce
  <2> QED
    BY <1>1, <1>2, <1>3, <1>5, <2>4, <2>5, <2>6 DEF OffsetListsOnce
<1> QED
  BY <1>4, <1>5 DEF OffsetTypeOK

(* A client that pages by offset is shown a row twice only if a newer one  *)
(* came to match meanwhile, and misses one only if a newer one ceased to   *)
(* or one slipped between a count and its page, for any size of page and   *)
(* any number of rows.                                                     *)
THEOREM OffsetPages == OffsetSpec => []OffsetListsOnce
<1>1. OffsetInv /\ [OffsetNext]_<<rows, listingVars>> => OffsetInv'
  <2>1. OffsetInv /\ UNCHANGED <<rows, listingVars>> => OffsetInv'
    <3> SUFFICES ASSUME OffsetInv, UNCHANGED <<rows, listingVars>> PROVE OffsetInv'
      OBVIOUS
    <3>1. UNCHANGED <<rows, listingStep, offset, total, seen, firstMatch, gained, lost, slipped>>
      BY DEF listingVars
    <3>2. Matching' = Matching /\ \A r : Rank(r)' = Rank(r)
      BY <3>1 DEF Rank, Newer, Matching, RowsAre
    <3>3. OffsetTypeOK' /\ OffsetListsOnce'
      BY <3>1 DEF OffsetInv, OffsetTypeOK, RowsTypeOK, OffsetListsOnce
    <3>4. (ListedPassed => ListedPassed') /\ (UnlistedAhead => UnlistedAhead')
      BY <3>1, <3>2 DEF ListedPassed, UnlistedAhead
    <3> QED
      BY <3>1, <3>2, <3>3, <3>4 DEF OffsetInv
  <2> QED
    BY <2>1, CountRowsInv, FetchPageInv, RowsChangeInv DEF OffsetNext
<1>2. OffsetInv => OffsetListsOnce
  BY DEF OffsetInv
<1> QED
  BY <1>1, <1>2, OffsetInitInv, PTL DEF OffsetSpec
=============================================================================
