SPECIFICATION PipelineFairSpec
CONSTANTS
  e1 = e1
  d1 = d1
  Events = {e1, e2}
  Preloaded = {}
  Destinations = {d1, d2}
  FirstRetries = 1
  OtherRetries = 2
  MaxRetries <- MCMaxRetries
  Matched <- MCMatched
  Workers = {w1}
  NoJob = NoJob
  WorkerFaults = 0
  Webhooks = {r1, r2}
  MaxQueueDepth = 1
  ApiFaults = 1
  Retries = {}
  Replays = {}
  BatchSize = 1
  NoEvent = NoEvent
  Late = {}
  Deletable = {d2}
  Signals = {}
  Aged = {}
INVARIANTS
  AcceptedIsTracked
  OneFanOut
  RejectedIsNotDelivered
  RefusedLeavesNoTrace
PROPERTY AcceptedSettles
CHECK_DEADLOCK FALSE
