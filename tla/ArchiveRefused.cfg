SPECIFICATION PipelineSpec
CONSTANTS
  e1 = e1
  d1 = d1
  Events = {e1}
  Preloaded = {e1}
  Destinations = {d1}
  FirstRetries = 1
  OtherRetries = 1
  MaxRetries <- MCMaxRetries
  Matched <- MCMatched
  Workers = {w1}
  NoJob = NoJob
  WorkerFaults = 0
  Webhooks = {}
  MaxQueueDepth = 1
  ApiFaults = 0
  Retries = {}
  Replays = {}
  BatchSize = 1
  NoEvent = NoEvent
  Late = {}
  Deletable = {}
  Signals = {}
  Aged = {e1}
INVARIANT ArchivedIsMoved
CHECK_DEADLOCK FALSE
