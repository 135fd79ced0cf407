SPECIFICATION FairSpec
CONSTANTS
  e1 = e1
  d1 = d1
  Events = {e1}
  Destinations = {d1, d2}
  MaxRetries <- MCMaxRetries
  Matched <- MCMatched
  Workers = {w1, w2}
  NoJob = NoJob
  WorkerFaults = 2
INVARIANTS
  TypeOK
  NoDeliveryLost
  NeverGivesUpEarly
  AttemptsBounded
  OneChainUnlessFaults
  DeliveredMeansAll
  LastRecorderAggregates
PROPERTIES
  KeepsPromise
  EveryDeliverySettles
  EventsClose
CHECK_DEADLOCK FALSE
