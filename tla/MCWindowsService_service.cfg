SPECIFICATION FairSpec
CONSTANTS
  MaxStarts = 2
  Lines = 2
  MaxReports = 2
  Faults = {"register", "log"}
INVARIANTS TypeOK AtMostOneReportLate LinesKept
PROPERTIES StoppedForGood StopWorks
CHECK_DEADLOCK FALSE
