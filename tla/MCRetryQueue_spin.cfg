\* A tree entry that does not deserialize stops the iterator from advancing.
CONSTANTS
  None = None
  Undecodable = Undecodable
  MaxSize = None
  CheckInterval = 1
  MaxSends = 1
  MaxRestarts = 0
  MaxSledErrors = 0
  BackoffConfigs <- MC_Backoff1
  LegacyChoices <- MC_LegacyOnly
SPECIFICATION Spec
PROPERTY
  ScanTerminates
