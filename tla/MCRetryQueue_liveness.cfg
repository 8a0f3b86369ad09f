\* Every envelope eventually leaves an unbounded queue, across one restart
\* that may shorten the backoff list; the queue implements the abstract
\* retry queue, whose scan drops only envelopes with a failed attempt.
CONSTANTS
  None = None
  Undecodable = Undecodable
  MaxSize = None
  CheckInterval = 1
  MaxSends = 2
  MaxRestarts = 1
  MaxSledErrors = 0
  BackoffConfigs <- MC_BackoffRunning
  LegacyChoices <- MC_LegacyNone
SPECIFICATION Spec
PROPERTIES
  EveryEnvelopeResolved
  ImplementsAbstractQueue
