SPECIFICATION Spec
CONSTANTS
  Procs = {p1, p2, p3}
  NoProc = NoProc
  Operations = {"daemon", "foreground", "hasty", "restart"}
  PortSet = FALSE
  Faults = {"config", "context", "exec", "portclash", "statfault", "accept"}
  MaxSignals <- One
  MaxKills = 1
  MaxLaunches = 3
CHECK_DEADLOCK FALSE
SYMMETRY Symmetry
INVARIANTS TypeOK PidFileNamesLive
