\* Healthy sled, no crash: two events handled concurrently.
CONSTANTS
  None = None
  TimeCreated <- MC_TimeCreated
  NumEvents = 2
  MaxAttempts = 1
  DbMayFail = FALSE
  RetrievePastEvents = FALSE
  MaxCrashes = 0
SPECIFICATION Spec
\* The agent waits for further OS events once the bounded ones are handled.
CHECK_DEADLOCK FALSE
PROPERTY
  WatermarkMonotonic
