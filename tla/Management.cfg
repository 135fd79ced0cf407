SPECIFICATION ManagementSpec
CONSTANTS
  Slugs = {s1, s2}
  Lookups = {r1, r2}
  Updates = {u1, u2}
  NoConfig = NoConfig
  NoSlug = NoSlug
  CacheFaults = 1
  Registrations = {g1, g2, g3}
  Seeds = {g4}
  Names = {n1, n2}
  DefaultTenant = n1
  Ids = {1, 2, 3}
  SourceLimit = 1
  MicrosPerMs = 2
  MaxTime = 3
  PageLimit = 2
  MaxRows = 4
  Aggregators = {a1, a2}
INVARIANTS
  CacheTypeOK
  VerifiedUnderOwnSlug
  StaleNeedsOverlap
  DuplicateNamesOverlapped
  KeysetListsOnce
  OffsetListsOnce
PROPERTIES
  CacheCatchesUp
  StatsRegressOnlyOvertaken
CHECK_DEADLOCK FALSE
