SPECIFICATION FairSpec
CONSTANTS
  N = 2
  Interval <- MCInvalid
  JobInterval = 3
  MaxRun = 1
  MaxSession = 2
  Backlog = 2
  MaxClients = 2
  Endless = FALSE
  ClockSteps <- MCBackOrForward
  MaxClockSteps = 1
  MaxAge = 20
INVARIANTS TypeOK JobsOnTime
PROPERTIES JobsRecur ClientsServed
