SPECIFICATION Spec
CONSTANTS
  Metrics = {m1, m2, m3}
  Names = {n1, n2, n3}
  SaveLimit = 2
  Faults <- MCFaults
  MaxCrashes = 2
  NoMetric = NoMetric
  NoName = NoName
SYMMETRY Symmetry
INVARIANTS TypeOK SaveLimitRespected
PROPERTY DeliveryKept
