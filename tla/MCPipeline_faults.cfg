\* Failing sled reads and writes, one crash with past events retrieved.
CONSTANTS
  None = None
  TimeCreated <- MC_TimeCreated
  NumEvents = 2
  MaxAttempts = 2
  DbMayFail = TRUE
  RetrievePastEvents = TRUE
  MaxCrashes = 1
SPECIFICATION Spec
\* The agent waits for further OS events once the bounded ones are handled.
CHECK_DEADLOCK FALSE
INVARIANT
  OffChainEventIsOnChain
