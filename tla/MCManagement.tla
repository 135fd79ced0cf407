---------------------------- MODULE MCManagement ----------------------------
(***************************************************************************)
(* The management endpoints, the source cache and the statistics job.      *)
(* They share nothing the properties look at, so that one of them is       *)
(* observed at a time: which one is chosen initially, and the others stay  *)
(* in one of their initial states.                                         *)
(***************************************************************************)
EXTENDS MCSourceCache, Tenants, SourceListing, OffsetListing, Statistics

VARIABLE observed

managementVars == <<observed, cacheVars, overlapped, tenantsVars, sourceListingVars,
                    rows, listingVars, statisticsVars>>

ManagementInit ==
  /\ observed \in {"cache", "tenants", "sources", "dead letters", "statistics"}
  /\ HistoryInit
  /\ observed # "cache" =>
       /\ source.slug = CHOOSE s \in Slugs : TRUE
       /\ lookupSlug \in [Lookups -> {source.slug}]
       /\ newSlug = oldSlug
  /\ TenantsInit
  /\ observed # "tenants" => selfRegistrationEnabled
  /\ SourceListingInit
  /\ RowsInit
  /\ OffsetInit
  /\ StatisticsInit

ManagementNext ==
  /\ UNCHANGED observed
  /\ \/ /\ observed = "cache"
        /\ HistoryNext
        /\ UNCHANGED <<tenantsVars, sourceListingVars, rows, listingVars, statisticsVars>>
     \/ /\ observed # "cache"
        /\ UNCHANGED <<cacheVars, overlapped>>
        /\ \/ /\ observed = "tenants"
              /\ TenantsNext
              /\ UNCHANGED <<sourceListingVars, rows, listingVars, statisticsVars>>
           \/ /\ observed = "sources"
              /\ SourceListingNext
              /\ UNCHANGED <<tenantsVars, rows, listingVars, statisticsVars>>
           \/ /\ observed = "dead letters"
              /\ OffsetNext
              /\ UNCHANGED <<tenantsVars, sourceListingVars, statisticsVars>>
           \/ /\ observed = "statistics"
              /\ StatisticsNext \/ (RowsMove /\ Len(rows') <= MaxRows)
              /\ UNCHANGED <<tenantsVars, sourceListingVars, listingVars>>

ManagementSpec ==
  /\ ManagementInit
  /\ [][ManagementNext]_managementVars
  /\ observed = "cache" => CacheFairness
=============================================================================
