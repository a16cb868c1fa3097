--------------------------- MODULE MetricDelivery ---------------------------
(***************************************************************************)
(* What the metric plugin promises the people who read the collector: a    *)
(* metric the agent has gathered stays pending (in memory or in the save   *)
(* directory) until the collector has received it, unless the agent gives  *)
(* it up for a reason an operator can see: an error in the log, or the     *)
(* death of the agent.  A metric the network or the disk drops although    *)
(* the call seems to succeed is struck, and may be dropped by the agent as *)
(* well.  Delivery is at least once: a metric that has been received may   *)
(* stay pending and be delivered again.                                    *)
(***************************************************************************)

CONSTANT Metrics

VARIABLES
  pending,    \* metrics the agent is responsible for
  received,   \* metrics the collector has got in full since they were gathered
  lost,       \* metrics whose loss is visible to an operator
  struck      \* metrics that were dropped behind the agent's back

vars == <<pending, received, lost, struck>>

Init ==
  /\ pending = {}
  /\ received = {}
  /\ lost = {}
  /\ struck = {}

\* The identifier of a metric nobody is responsible for can name a new one.
Gather(m) ==
  /\ m \notin pending
  /\ pending' = pending \cup {m}
  /\ received' = received \ {m}
  /\ lost' = lost \ {m}
  /\ struck' = struck \ {m}

Deliver(m) ==
  /\ m \in pending
  /\ received' = received \cup {m}
  /\ UNCHANGED <<pending, lost, struck>>

Strike(m) ==
  /\ m \in pending
  /\ struck' = struck \cup {m}
  /\ pending' \in {pending, pending \ {m}}
  /\ UNCHANGED <<received, lost>>

Retire(m) ==
  /\ m \in pending
  /\ m \in received \cup struck
  /\ pending' = pending \ {m}
  /\ UNCHANGED <<received, lost, struck>>

GiveUp(m) ==
  /\ m \in pending
  /\ pending' = pending \ {m}
  /\ lost' = lost \cup {m}
  /\ UNCHANGED <<received, struck>>

Next ==
  \E m \in Metrics :
    Gather(m) \/ Deliver(m) \/ Strike(m) \/ Retire(m) \/ GiveUp(m)

Spec == Init /\ [][Next]_vars

=============================================================================
