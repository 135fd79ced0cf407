SPECIFICATION PipelineSpec
CONSTANTS
  e1 = e1
  d1 = d1
  Events = {e1, e2}
  Preloaded = {e1, e2}
  Destinations = {d1, d2, d3}
  FirstRetries = 1
  OtherRetries = 1
  MaxRetries <- MCMaxRetries
  Matched <- MCMatched
  Workers = {w1}
  NoJob = NoJob
  WorkerFaults = 0
  Webhooks = {}
  MaxQueueDepth = 1
  ApiFaults = 1
  Retries = {o1}
  Replays = {}
  BatchSize = 1
  NoEvent = NoEvent
  Late = {d3}
  Deletable = {d1}
  Signals = {}
  Aged = {e1, e2}
INVARIANTS
  PipelineTypeOK
  DeliveredCoversOriginal
  ClosedUnlessRowsChanged
  NoEventVanishes
PROPERTY KeepsRows
CHECK_DEADLOCK FALSE
