SPECIFICATION PipelineFairSpec
CONSTANTS
  e1 = e1
  d1 = d1
  Events = {e1}
  Preloaded = {e1}
  Destinations = {d1, d2}
  FirstRetries = 2
  OtherRetries = 1
  MaxRetries <- MCMaxRetries
  Matched <- MCMatched
  Workers = {w1, w2}
  NoJob = NoJob
  WorkerFaults = 0
  Webhooks = {}
  MaxQueueDepth = 1
  ApiFaults = 0
  Retries = {o1, o2}
  Replays = {}
  BatchSize = 1
  NoEvent = NoEvent
  Late = {}
  Deletable = {}
  Signals = {}
  Aged = {}
INVARIANTS
  RetryKeepsTrack
  SweepFindsNothing
  RetryIsOneAttempt
PROPERTY RetriesSettle
CHECK_DEADLOCK FALSE
