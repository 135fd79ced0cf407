SPECIFICATION PipelineSpec
CONSTANTS
  e1 = e1
  d1 = d1
  Events = {e1}
  Preloaded = {}
  Destinations = {d1}
  FirstRetries = 1
  OtherRetries = 1
  MaxRetries <- MCMaxRetries
  Matched <- MCMatched
  Workers = {w1}
  NoJob = NoJob
  WorkerFaults = 0
  Webhooks = {r1, r2}
  MaxQueueDepth = 1
  ApiFaults = 1
  Retries = {}
  Replays = {}
  BatchSize = 1
  NoEvent = NoEvent
  Late = {}
  Deletable = {}
  Signals = {}
  Aged = {}
INVARIANT DuplicateWasProcessed
CHECK_DEADLOCK FALSE
