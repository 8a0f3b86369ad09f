\* A push that evicts the envelope whose retry is being awaited, followed by
\* the failed retry's queue.update, leaves more than max_queue_size entries.
CONSTANTS
  None = None
  Undecodable = Undecodable
  MaxSize = 1
  CheckInterval = 1
  MaxSends = 2
  MaxRestarts = 0
  MaxSledErrors = 0
  BackoffConfigs <- MC_Backoff2
  LegacyChoices <- MC_LegacyNone
SPECIFICATION Spec
INVARIANT
  BoundedQueue
