SPECIFICATION FairSpec
CONSTANTS
  Procs = {p1, p2}
  NoProc = NoProc
  Operations = {"daemon", "foreground"}
  PortSet = TRUE
  Faults = {"statfault", "accept"}
  MaxSignals <- TwoHups
  MaxKills = 1
  MaxLaunches = 2
CHECK_DEADLOCK FALSE
INVARIANT PidFileNamesAgent
PROPERTIES SignalsHandled HupRestarts
