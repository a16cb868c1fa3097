--------------------------- MODULE MCMetricStore ---------------------------
(* Every fault, reported or not; metrics and names are interchangeable.     *)
EXTENDS MetricStore, TLC

MCFaults == ReportedFaults \cup SilentFaults

Symmetry == Permutations(Metrics) \cup Permutations(Names)
=============================================================================
