\* Safety of the retry loop over a bounded queue, with restarts that may
\* change the backoff list and a tree that may hold an undecodable entry.
CONSTANTS
  None = None
  Undecodable = Undecodable
  MaxSize = 2
  CheckInterval = 1
  MaxSends = 3
  MaxRestarts = 1
  MaxSledErrors = 1
  BackoffConfigs <- MC_BackoffAll
  LegacyChoices <- MC_LegacyBoth
SPECIFICATION Spec
INVARIANTS
  TypeOK
  ScanVisitsEachEnvelopeOnce
  CallbackAtMostOnce
