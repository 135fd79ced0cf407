SPECIFICATION PipelineFairSpec
CONSTANTS
  e1 = e1
  d1 = d1
  Events = {e2, e3, e4}
  Preloaded = {e2, e3, e4}
  Destinations = {d2}
  FirstRetries = 1
  OtherRetries = 1
  MaxRetries <- MCMaxRetries
  Matched <- MCMatched
  Workers = {w1}
  NoJob = NoJob
  WorkerFaults = 0
  Webhooks = {}
  MaxQueueDepth = 1
  ApiFaults = 2
  Retries = {}
  Replays = {p1}
  BatchSize = 2
  NoEvent = NoEvent
  Late = {}
  Deletable = {}
  Signals = {t1, t2}
  Aged = {}
INVARIANTS
  ReplayCountsAddUp
  ReplayedIsTracked
PROPERTIES
  ReplayFinishes
  QuietAfterShutdown
  ShutdownCompletes
CHECK_DEADLOCK FALSE
