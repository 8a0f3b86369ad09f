\* A loaded configuration that sets only max_resubmits = 1: the serde
\* defaults give count 3, minimum 3 and no self-verification.  Five peers,
\* three of them faulty.  Both clients always use FailureStrategy::Error.
CONSTANTS
  p1 = p1
  p2 = p2
  p3 = p3
  p4 = p4
  p5 = p5
  None = None
  Peers <- MC_Peers5
  Faulty <- MC_FaultyThree
  VerificationClientCount <- MC_LoadedCount
  MinimumVerificationClientCount <- MC_LoadedMinimum
  AllowSelfVerification <- MC_LoadedSelf
  MaxResubmits <- MC_LoadedResubmits
  Strategy <- MC_DefaultStrategy
  StrategyN = 0
  MaxLookups = 2
SPECIFICATION Spec
INVARIANTS
  TypeOK
  TasksWithinResubmits
  AcceptedResultIsGenuine
PROPERTY
  RunReturns
