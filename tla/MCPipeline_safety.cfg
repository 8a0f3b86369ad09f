\* Healthy sled, no crash: three concurrent tasks, failing submissions and
\* both retry queues, one attempt per queue.
CONSTANTS
  None = None
  TimeCreated <- MC_TimeCreated
  NumEvents = 3
  MaxAttempts = 1
  DbMayFail = FALSE
  RetrievePastEvents = FALSE
  MaxCrashes = 0
SPECIFICATION Spec
\* The agent waits for further OS events once the bounded ones are handled.
CHECK_DEADLOCK FALSE
INVARIANTS
  TypeOK
  AcceptedEventAccountedFor
PROPERTY
  AcceptedEventSettles
