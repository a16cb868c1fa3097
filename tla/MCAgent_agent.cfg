SPECIFICATION FairAgentSpec
CONSTANTS
  Metrics = {m1, m2, m3}
  Names = {n1, n2}
  SaveLimit = 2
  Faults <- MCSilent
  NoMetric = NoMetric
  NoName = NoName
  MaxCrashes = 0
  MetricInterval = 1
  JobInterval = 1
  MaxSession = 1
  Backlog = 1
  MaxClients = 1
  MaxAge = 1
  ConnectTime = 1
  MaxSilence = 1
INVARIANTS AgentTypeOK AtMostOnce
PROPERTIES LoopKept Drains
