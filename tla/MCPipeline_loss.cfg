\* Watermark writes may fail and the process may crash once, with past
\* events retrieved on restart.
CONSTANTS
  None = None
  TimeCreated <- MC_TimeCreated
  NumEvents = 2
  MaxAttempts = 1
  DbMayFail = TRUE
  RetrievePastEvents = TRUE
  MaxCrashes = 1
SPECIFICATION Spec
\* The agent waits for further OS events once the bounded ones are handled.
CHECK_DEADLOCK FALSE
INVARIANT
  AcceptedEventAccountedFor
