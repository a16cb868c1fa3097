----------------------------- MODULE MCLifecycle -----------------------------
(* Bounds on the signals; processes are interchangeable.                    *)
EXTENDS Lifecycle, TLC

One == [s \in Signals |-> 1]
TwoHups == [s \in Signals |-> IF s = "HUP" THEN 2 ELSE 1]

Symmetry == Permutations(Procs)
=============================================================================
