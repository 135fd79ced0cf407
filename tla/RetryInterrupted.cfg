SPECIFICATION PipelineSpec
CONSTANTS
  e1 = e1
  d1 = d1
  Events = {e1}
  Preloaded = {e1}
  Destinations = {d1}
  FirstRetries = 1
  OtherRetries = 1
  MaxRetries <- MCMaxRetries
  Matched <- MCMatched
  Workers = {w1}
  NoJob = NoJob
  WorkerFaults = 0
  Webhooks = {}
  MaxQueueDepth = 1
  ApiFaults = 1
  Retries = {o1}
  Replays = {}
  BatchSize = 1
  NoEvent = NoEvent
  Late = {}
  Deletable = {}
  Signals = {}
  Aged = {}
INVARIANT RetryKeepsTrack
CHECK_DEADLOCK FALSE
