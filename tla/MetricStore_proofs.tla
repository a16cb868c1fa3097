-------------------------- MODULE MetricStore_proofs --------------------------
(***************************************************************************)
(* Proofs about the store-and-forward of metrics, for every number of      *)
(* metrics, file names, crashes, any save limit and any set of faults:     *)
(* the variables keep their types, the save limit is respected, the        *)
(* delivery contract is implemented, and nothing is delivered twice when   *)
(* neither close nor unlink fails and the agent does not die.              *)
(*                                                                         *)
(* The second part is about its composition with the main loop, for any    *)
(* intervals, clients, time that connect takes and time for which a        *)
(* collector is silent: the metric job is a job as the main loop expects   *)
(* it, so that what was proved of each of the two holds of both together.  *)
(***************************************************************************)
EXTENDS Agent, FiniteSetTheorems, TLAPS

-----------------------------------------------------------------------------
(* The inductive invariant                                                 *)

\* The control state says what the buffers hold.
MemoryShape ==
  /\ HasNewMetric => buf \in [kind : {"whole"}, of : Metrics]
  /\ pc \in Sending /\ file # NoName =>
       /\ dir[file] \in [kind : {"part", "whole"}, of : Metrics]
       /\ buf \in {dir[file], Part(dir[file].of)}
  /\ pc \in Saving \cup {"idle", "down", "list", "next"} => file = NoName
  /\ pc \in {"unlink", "fill"} => file \in Names

\* The control state says what the directory holds.
DirectoryShape ==
  /\ pc = "fill" => dir[file] = EmptyText
  /\ pc = "unlink" => dir[file].kind # "none"
  /\ todo \subseteq Saved
  /\ file \notin todo
  /\ HasNewMetric \/ pc \in {"idle", "down", "list"} => todo = {}

\* Room for the file is known when it is created.
Limit ==
  /\ Cardinality(Saved) <= SaveLimit
  /\ pc = "create" => Cardinality(Saved) < SaveLimit

\* The new metric is on no file, and no two files hold the same metric.
OneCopy ==
  /\ HasNewMetric => buf.of \notin OnDisk
  /\ \A n, p \in Names : \A m \in Metrics :
       dir[n] = Whole(m) /\ dir[p] = Whole(m) => n = p

Inv == TypeOK /\ MemoryShape /\ DirectoryShape /\ Limit /\ OneCopy

-----------------------------------------------------------------------------
(* Every step preserves the inductive invariant                            *)

\* Every step keeps the types; the texts it moves are those of MemoryShape.
LEMMA TypePreserved == Inv /\ [Next]_vars => TypeOK'
<1> SUFFICES ASSUME Inv, [Next]_vars PROVE TypeOK'
  OBVIOUS
<1> USE MetricStoreAssumption DEF Inv, TypeOK, Sending, Saving, HasNewMetric,
    MemoryShape, Text, Nothing, EmptyText, Whole, Part, Carried
<1>1. CASE GatherMetric
  BY <1>1 DEF GatherMetric
<1>2. CASE ConnectFailed
  BY <1>2 DEF ConnectFailed, SendFailed
<1>3. CASE Connected
  BY <1>3 DEF Connected
<1>4. CASE HandshakeRefused
  BY <1>4 DEF HandshakeRefused
<1>5. CASE WriteDelivered
  BY <1>5 DEF WriteDelivered
<1>6. CASE WriteLost
  BY <1>6 DEF WriteLost
<1>7. CASE SendClose
  BY <1>7 DEF SendClose, SendFailed, SendSucceeded
<1>8. CASE CountSaves
  BY <1>8 DEF CountSaves, ReportLoss, Return
<1>9. CASE CreateSave
  BY <1>9 DEF CreateSave, CanCreate, ReportLoss, Return
<1>10. CASE SaveWritten
  BY <1>10 DEF SaveWritten, Return
<1>11. CASE SaveNotWritten
  BY <1>11 DEF SaveNotWritten, ReportLoss, Return
<1>12. CASE SaveCutShort
  BY <1>12 DEF SaveCutShort, Return
<1>13. CASE ListSaved
  BY <1>13 DEF ListSaved, Return, Saved
<1>14. CASE NextSaved
  <2>1. CASE \E n \in todo : ReadSaved(n)
    <3>1. PICK n \in todo : ReadSaved(n)
      BY <2>1
    <3>2. n \in Names /\ dir[n] \in Text
      OBVIOUS
    <3>3. Nothing \in Text /\ (dir[n].kind = "empty" \/ Part(dir[n].of) \in Text)
      <4>1. CASE dir[n].kind \in {"none", "empty"}
        BY <3>1, <4>1 DEF DirectoryShape, Saved
      <4>2. CASE dir[n].kind \in {"part", "whole"}
        BY <3>2, <4>2
      <4> QED
        BY <3>2, <4>1, <4>2
    <3>4. buf' \in Text
      BY <3>1, <3>2, <3>3 DEF ReadSaved, Readings
    <3>5. struck' \subseteq Metrics /\ todo' \subseteq Names /\ file' \in Names
      BY <3>1, <3>2 DEF ReadSaved
    <3>6. pc' \in {"unlink", "connect"}
      BY <3>1 DEF ReadSaved
    <3> QED
      BY <1>14, <3>4, <3>5, <3>6 DEF NextSaved
  <2>2. CASE ~\E n \in todo : ReadSaved(n)
    BY <1>14, <2>2 DEF NextSaved, Return
  <2> QED
    BY <2>1, <2>2
<1>15. CASE UnlinkSaved
  BY <1>15 DEF UnlinkSaved, Return
<1>16. CASE Crash
  BY <1>16 DEF Crash, InMemory
<1>17. CASE Start
  BY <1>17 DEF Start
<1>18. CASE CollectorFlips
  BY <1>18 DEF CollectorFlips
<1>19. CASE UNCHANGED vars
  BY <1>19 DEF vars
<1> QED
  BY <1>1, <1>2, <1>3, <1>4, <1>5, <1>6, <1>7, <1>8, <1>9, <1>10, <1>11,
    <1>12, <1>13, <1>14, <1>15, <1>16, <1>17, <1>18, <1>19 DEF Next,
    AgentStep, Send, Save, Resend

\* The buffers hold what the next call needs.
LEMMA MemoryPreserved == Inv /\ [Next]_vars => MemoryShape'
<1> SUFFICES ASSUME Inv, [Next]_vars PROVE MemoryShape'
  OBVIOUS
<1> USE MetricStoreAssumption DEF Inv, TypeOK, Sending, Saving, HasNewMetric,
    MemoryShape, DirectoryShape, Saved, Text, Nothing, EmptyText, Whole, Part
<1>1. CASE GatherMetric
  BY <1>1 DEF GatherMetric
<1>2. CASE ConnectFailed
  BY <1>2 DEF ConnectFailed, SendFailed
<1>3. CASE Connected
  BY <1>3 DEF Connected
<1>4. CASE HandshakeRefused
  BY <1>4 DEF HandshakeRefused
<1>5. CASE WriteDelivered
  BY <1>5 DEF WriteDelivered
<1>6. CASE WriteLost
  BY <1>6 DEF WriteLost
<1>7. CASE SendClose
  BY <1>7 DEF SendClose, SendFailed, SendSucceeded
<1>8. CASE CountSaves
  BY <1>8 DEF CountSaves, ReportLoss, Return
<1>9. CASE CreateSave
  BY <1>9 DEF CreateSave, CanCreate, ReportLoss, Return
<1>10. CASE SaveWritten
  BY <1>10 DEF SaveWritten, Return
<1>11. CASE SaveNotWritten
  BY <1>11 DEF SaveNotWritten, ReportLoss, Return
<1>12. CASE SaveCutShort
  BY <1>12 DEF SaveCutShort, Return
<1>13. CASE ListSaved
  BY <1>13 DEF ListSaved, Return
<1>14. CASE NextSaved
  BY <1>14 DEF NextSaved, ReadSaved, Readings, Return
<1>15. CASE UnlinkSaved
  BY <1>15 DEF UnlinkSaved, Return
<1>16. CASE Crash
  BY <1>16 DEF Crash
<1>17. CASE Start
  BY <1>17 DEF Start
<1>18. CASE CollectorFlips
  BY <1>18 DEF CollectorFlips
<1>19. CASE UNCHANGED vars
  BY <1>19 DEF vars
<1> QED
  BY <1>1, <1>2, <1>3, <1>4, <1>5, <1>6, <1>7, <1>8, <1>9, <1>10, <1>11,
    <1>12, <1>13, <1>14, <1>15, <1>16, <1>17, <1>18, <1>19 DEF Next,
    AgentStep, Send, Save, Resend

\* The scan of send_saved_metrics meets files that exist, each of them once.
LEMMA DirectoryPreserved == Inv /\ [Next]_vars => DirectoryShape'
<1> SUFFICES ASSUME Inv, [Next]_vars PROVE DirectoryShape'
  OBVIOUS
<1> USE MetricStoreAssumption DEF Inv, TypeOK, Sending, Saving, HasNewMetric,
    MemoryShape, DirectoryShape, Saved, Text, Nothing, EmptyText, Whole, Part
<1>1. CASE GatherMetric
  BY <1>1 DEF GatherMetric
<1>2. CASE ConnectFailed
  BY <1>2 DEF ConnectFailed, SendFailed
<1>3. CASE Connected
  BY <1>3 DEF Connected
<1>4. CASE HandshakeRefused
  BY <1>4 DEF HandshakeRefused
<1>5. CASE WriteDelivered
  BY <1>5 DEF WriteDelivered
<1>6. CASE WriteLost
  BY <1>6 DEF WriteLost
<1>7. CASE SendClose
  BY <1>7 DEF SendClose, SendFailed, SendSucceeded
<1>8. CASE CountSaves
  BY <1>8 DEF CountSaves, ReportLoss, Return
<1>9. CASE CreateSave
  BY <1>9 DEF CreateSave, CanCreate, ReportLoss, Return
<1>10. CASE SaveWritten
  BY <1>10 DEF SaveWritten, Return
<1>11. CASE SaveNotWritten
  BY <1>11 DEF SaveNotWritten, ReportLoss, Return
<1>12. CASE SaveCutShort
  BY <1>12 DEF SaveCutShort, Return
<1>13. CASE ListSaved
  BY <1>13 DEF ListSaved, Return
<1>14. CASE NextSaved
  BY <1>14 DEF NextSaved, ReadSaved, Readings, Return
<1>15. CASE UnlinkSaved
  BY <1>15 DEF UnlinkSaved, Return
<1>16. CASE Crash
  BY <1>16 DEF Crash
<1>17. CASE Start
  BY <1>17 DEF Start
<1>18. CASE CollectorFlips
  BY <1>18 DEF CollectorFlips
<1>19. CASE UNCHANGED vars
  BY <1>19 DEF vars
<1> QED
  BY <1>1, <1>2, <1>3, <1>4, <1>5, <1>6, <1>7, <1>8, <1>9, <1>10, <1>11,
    <1>12, <1>13, <1>14, <1>15, <1>16, <1>17, <1>18, <1>19 DEF Next,
    AgentStep, Send, Save, Resend

\* O_EXCL and the order of write and unlink keep a metric on one file at most.
LEMMA OneCopyPreserved == Inv /\ [Next]_vars => OneCopy'
<1> SUFFICES ASSUME Inv, [Next]_vars PROVE OneCopy'
  OBVIOUS
<1> USE MetricStoreAssumption DEF Inv, TypeOK, Sending, Saving, HasNewMetric,
    MemoryShape, OneCopy, OnDisk, DirectoryShape, Saved, Text, Nothing,
    EmptyText, Whole, Part
<1>1. CASE GatherMetric
  BY <1>1 DEF GatherMetric
<1>2. CASE ConnectFailed
  BY <1>2 DEF ConnectFailed, SendFailed
<1>3. CASE Connected
  BY <1>3 DEF Connected
<1>4. CASE HandshakeRefused
  BY <1>4 DEF HandshakeRefused
<1>5. CASE WriteDelivered
  BY <1>5 DEF WriteDelivered
<1>6. CASE WriteLost
  BY <1>6 DEF WriteLost
<1>7. CASE SendClose
  BY <1>7 DEF SendClose, SendFailed, SendSucceeded
<1>8. CASE CountSaves
  BY <1>8 DEF CountSaves, ReportLoss, Return
<1>9. CASE CreateSave
  BY <1>9 DEF CreateSave, CanCreate, ReportLoss, Return
<1>10. CASE SaveWritten
  BY <1>10 DEF SaveWritten, Return
<1>11. CASE SaveNotWritten
  BY <1>11 DEF SaveNotWritten, ReportLoss, Return
<1>12. CASE SaveCutShort
  BY <1>12 DEF SaveCutShort, Return
<1>13. CASE ListSaved
  BY <1>13 DEF ListSaved, Return
<1>14. CASE NextSaved
  BY <1>14 DEF NextSaved, ReadSaved, Readings, Return
<1>15. CASE UnlinkSaved
  BY <1>15 DEF UnlinkSaved, Return
<1>16. CASE Crash
  BY <1>16 DEF Crash
<1>17. CASE Start
  BY <1>17 DEF Start
<1>18. CASE CollectorFlips
  BY <1>18 DEF CollectorFlips
<1>19. CASE UNCHANGED vars
  BY <1>19 DEF vars
<1> QED
  BY <1>1, <1>2, <1>3, <1>4, <1>5, <1>6, <1>7, <1>8, <1>9, <1>10, <1>11,
    <1>12, <1>13, <1>14, <1>15, <1>16, <1>17, <1>18, <1>19 DEF Next,
    AgentStep, Send, Save, Resend

\* Only save_metric adds a file and only the scan removes one.
LEMMA SavedUnchanged ==
  Inv /\ [Next]_vars /\ ~CreateSave /\ ~UnlinkSaved => Saved' = Saved
<1> SUFFICES ASSUME Inv, [Next]_vars, ~CreateSave, ~UnlinkSaved
             PROVE Saved' = Saved
  OBVIOUS
<1>1. CASE SaveWritten
  BY <1>1 DEF SaveWritten, Inv, TypeOK, MemoryShape, DirectoryShape, HasNewMetric,
     Saved, EmptyText
<1>2. CASE SaveCutShort
  BY <1>2 DEF SaveCutShort, Inv, TypeOK, MemoryShape, DirectoryShape, Saved, EmptyText, Part
<1>3. CASE ~SaveWritten /\ ~SaveCutShort
  <2>1. UNCHANGED dir
    BY <1>3 DEF Next, AgentStep, Send, Save, Resend, vars, GatherMetric, ConnectFailed,
       Connected, HandshakeRefused, WriteDelivered, WriteLost, SendClose, CountSaves,
       SaveNotWritten, ListSaved, NextSaved, Crash, Start, CollectorFlips
  <2> QED
    BY <2>1 DEF Saved
<1> QED
  BY <1>1, <1>2, <1>3

\* The count is still right when the file is created: the agent is the only
\* writer of the directory.
LEMMA CreateKnowsCount ==
  Inv /\ [Next]_vars /\ pc' = "create"
    => pc = "create" \/ (CountSaves /\ ~LimitReached)
<1> SUFFICES ASSUME Inv, [Next]_vars, pc' = "create", pc # "create"
             PROVE CountSaves /\ ~LimitReached
  OBVIOUS
<1> QED
  BY DEF Next, AgentStep, Send, Save, Resend, vars, GatherMetric, ConnectFailed,
     Connected, HandshakeRefused, WriteDelivered, WriteLost, SendClose, CountSaves,
     CreateSave, SaveWritten, SaveNotWritten, SaveCutShort, ListSaved, NextSaved,
     UnlinkSaved, Crash, Start, CollectorFlips, SendFailed, SendSucceeded, ReportLoss,
     Return, ReadSaved

\* A file is created only after a count below the limit, and nothing is added
\* between the two.
LEMMA LimitPreserved == Inv /\ [Next]_vars => Limit'
<1> SUFFICES ASSUME Inv, [Next]_vars PROVE Limit'
  OBVIOUS
<1>1. /\ IsFiniteSet(Saved)
      /\ Cardinality(Saved) \in Nat
      /\ SaveLimit \in Nat
  BY MetricStoreAssumption, FS_Subset, FS_CardinalityType DEF Saved
<1>2. Limit
  BY Zenon DEF Inv
<1>3. CASE CreateSave
  <2>1. PICK n \in Names :
          \/ UNCHANGED dir /\ pc' = "idle"
          \/ /\ dir[n].kind = "none"
             /\ dir' = [dir EXCEPT ![n] = EmptyText]
             /\ pc' = "fill"
    BY <1>3 DEF CreateSave, CanCreate, ReportLoss, Return
  <2>2. CASE UNCHANGED dir /\ pc' = "idle"
    BY <1>2, <2>2 DEF Limit, Saved
  <2>3. CASE /\ dir[n].kind = "none"
             /\ dir' = [dir EXCEPT ![n] = EmptyText]
             /\ pc' = "fill"
    <3>1. Saved' = Saved \cup {n} /\ n \notin Saved
      BY <2>3 DEF Saved, EmptyText, Inv, TypeOK
    <3>2. Cardinality(Saved') = Cardinality(Saved) + 1
      BY <1>1, <3>1, FS_AddElement
    <3>3. Cardinality(Saved) < SaveLimit
      BY <1>2, <1>3 DEF CreateSave, Limit
    <3> QED
      BY <1>1, <2>3, <3>2, <3>3 DEF Limit
  <2> QED
    BY <2>1, <2>2, <2>3
<1>4. CASE UnlinkSaved
  <2>1. Saved' \subseteq Saved /\ pc' # "create"
    BY <1>4 DEF UnlinkSaved, Return, Saved, Nothing, Inv, TypeOK
  <2>2. Cardinality(Saved') <= Cardinality(Saved) /\ Cardinality(Saved') \in Nat
    BY <1>1, <2>1, FS_Subset, FS_CardinalityType
  <2> QED
    BY <1>1, <1>2, <2>1, <2>2 DEF Limit
<1>5. CASE ~CreateSave /\ ~UnlinkSaved
  <2>1. Saved' = Saved
    BY <1>5, SavedUnchanged
  <2>2. pc' = "create" => Cardinality(Saved) < SaveLimit
    BY <1>1, <1>2, CreateKnowsCount DEF Limit, LimitReached
  <2> QED
    BY <1>2, <2>1, <2>2 DEF Limit
<1> QED
  BY <1>3, <1>4, <1>5

\* The agent starts with nothing in memory and an empty save directory.
LEMMA InitInv == Init => Inv
<1> SUFFICES ASSUME Init PROVE Inv
  OBVIOUS
<1>1. TypeOK
  BY MetricStoreAssumption DEF Init, TypeOK, Text, Nothing
<1>2. MemoryShape
  BY DEF Init, MemoryShape, HasNewMetric, Sending, Saving
<1>3. DirectoryShape
  BY DEF Init, DirectoryShape, HasNewMetric, Sending, Saving
<1>4. Limit
  <2>1. Saved = {}
    BY DEF Init, Saved, Nothing
  <2> QED
    BY <2>1, FS_EmptySet, MetricStoreAssumption DEF Init, Limit
<1>5. OneCopy
  BY DEF Init, OneCopy, OnDisk, HasNewMetric, Sending, Saving, Nothing, Whole
<1> QED
  BY <1>1, <1>2, <1>3, <1>4, <1>5 DEF Inv

\* The inductive invariant holds in every reachable state.
THEOREM InvHolds == Spec => []Inv
<1>1. Inv /\ [Next]_vars => Inv'
  BY TypePreserved, MemoryPreserved, DirectoryPreserved, OneCopyPreserved,
     LimitPreserved DEF Inv
<1> QED
  BY <1>1, InitInv, PTL DEF Spec

-----------------------------------------------------------------------------
(* Type correctness and the save limit                                     *)

\* Every variable keeps its type, whatever the faults.
THEOREM TypeCorrect == Spec => []TypeOK
<1>1. Inv => TypeOK
  BY DEF Inv
<1> QED
  BY <1>1, InvHolds, PTL

\* The save directory never holds more than metricsavelimit metrics.
THEOREM SaveLimitHolds == Spec => []SaveLimitRespected
<1>1. Inv => SaveLimitRespected
  BY DEF Inv, Limit, SaveLimitRespected
<1> QED
  BY <1>1, InvHolds, PTL

-----------------------------------------------------------------------------
(* The delivery contract                                                   *)

\* Where the code believes the collector has a metric, the collector has it, or a
\* silent fault has hit it.
Acknowledged ==
  /\ pc = "close" /\ buf.kind = "whole" => buf.of \in received \cup struck
  /\ pc = "unlink" /\ dir[file].kind = "whole" => dir[file].of \in received \cup struck
  /\ pc \in Sending /\ file # NoName /\ buf # dir[file] /\ dir[file].kind = "whole" =>
       dir[file].of \in struck

\* Only a delivery or a silent fault leads to close, and only close, an empty file or
\* one that could not be read to unlink.
LEMMA AcknowledgedPreserved ==
  Inv /\ Acknowledged /\ [Next]_vars => Acknowledged'
<1> SUFFICES ASSUME Inv, Acknowledged, [Next]_vars PROVE Acknowledged'
  OBVIOUS
<1> USE DEF Inv, TypeOK, Sending, Saving, HasNewMetric, MemoryShape,
    DirectoryShape, Saved, Acknowledged, Carried, Text,
    Nothing, EmptyText, Whole, Part
<1>1. CASE GatherMetric
  BY <1>1 DEF GatherMetric
<1>2. CASE ConnectFailed
  BY <1>2 DEF ConnectFailed, SendFailed
<1>3. CASE Connected
  BY <1>3 DEF Connected
<1>4. CASE HandshakeRefused
  BY <1>4 DEF HandshakeRefused
<1>5. CASE WriteDelivered
  BY <1>5 DEF WriteDelivered
<1>6. CASE WriteLost
  BY <1>6 DEF WriteLost
<1>7. CASE SendClose
  BY <1>7 DEF SendClose, SendFailed, SendSucceeded
<1>8. CASE CountSaves
  BY <1>8 DEF CountSaves, ReportLoss, Return
<1>9. CASE CreateSave
  BY <1>9 DEF CreateSave, CanCreate, ReportLoss, Return
<1>10. CASE SaveWritten
  BY <1>10 DEF SaveWritten, Return
<1>11. CASE SaveNotWritten
  BY <1>11 DEF SaveNotWritten, ReportLoss, Return
<1>12. CASE SaveCutShort
  BY <1>12 DEF SaveCutShort, Return
<1>13. CASE ListSaved
  BY <1>13 DEF ListSaved, Return
<1>14. CASE NextSaved
  BY <1>14 DEF NextSaved, ReadSaved, Readings, Return
<1>15. CASE UnlinkSaved
  BY <1>15 DEF UnlinkSaved, Return
<1>16. CASE Crash
  BY <1>16 DEF Crash
<1>17. CASE Start
  BY <1>17 DEF Start
<1>18. CASE CollectorFlips
  BY <1>18 DEF CollectorFlips
<1>19. CASE UNCHANGED vars
  BY <1>19 DEF vars
<1> QED
  BY <1>1, <1>2, <1>3, <1>4, <1>5, <1>6, <1>7, <1>8, <1>9, <1>10, <1>11,
    <1>12, <1>13, <1>14, <1>15, <1>16, <1>17, <1>18, <1>19 DEF Next,
    AgentStep, Send, Save, Resend

\* The actions of the contract are its steps.
LEMMA ContractStep ==
  ASSUME NEW m \in Metrics,
         Delivery!Gather(m) \/ Delivery!Deliver(m) \/ Delivery!Strike(m)
           \/ Delivery!Retire(m) \/ Delivery!GiveUp(m)
  PROVE  Delivery!Next
BY DEF Delivery!Next

\* Every step of the agent is a step of the contract or leaves it unchanged.
LEMMA StepDelivers ==
  Inv /\ Acknowledged /\ [Next]_vars
    => [Delivery!Next]_(Delivery!vars)
<1> SUFFICES ASSUME Inv, Acknowledged, [Next]_vars
             PROVE [Delivery!Next]_(Delivery!vars)
  OBVIOUS
<1> USE DEF Inv, TypeOK, Sending, Saving, HasNewMetric, MemoryShape, DirectoryShape,
        OneCopy, Saved, OnDisk, InMemory, Pending, Text, Nothing, EmptyText, Whole, Part
<1>1. CASE GatherMetric
  <2>1. PICK m \in Metrics \ OnDisk :
          /\ buf' = Whole(m)
          /\ received' = received \ {m}
          /\ lost' = lost \ {m}
          /\ struck' = struck \ {m}
    BY <1>1 DEF GatherMetric
  <2>2. Delivery!Gather(m)
    BY <1>1, <2>1 DEF GatherMetric, Delivery!Gather
  <2> QED
    BY <2>1, <2>2, ContractStep
<1>2. CASE ConnectFailed
  <2>1. UNCHANGED Delivery!vars
    BY <1>2 DEF ConnectFailed, SendFailed, Delivery!vars
  <2> QED
    BY <2>1
<1>3. CASE Connected
  <2>1. UNCHANGED Delivery!vars
    BY <1>3 DEF Connected, Delivery!vars
  <2> QED
    BY <2>1
<1>4. CASE WriteDelivered
  <2>1. CASE buf.kind = "whole"
    <3>1. PICK m \in Metrics : m = buf.of /\ m \in Pending
      BY <1>4, <2>1 DEF WriteDelivered
    <3>2. Pending' = Pending
      BY <1>4 DEF WriteDelivered
    <3>3. Delivery!Deliver(m)
      BY <1>4, <2>1, <3>1, <3>2 DEF WriteDelivered, Carried, Delivery!Deliver
    <3> QED
      BY <3>1, <3>3, ContractStep
  <2>2. CASE buf.kind # "whole"
    <3>1. UNCHANGED Delivery!vars
      BY <1>4, <2>2 DEF WriteDelivered, Carried, Delivery!vars
    <3> QED
      BY <3>1
  <2> QED
    BY <2>1, <2>2
<1>5. CASE SendClose
  <2>1. CASE file = NoName /\ SendSucceeded
    <3>1. PICK m \in Metrics : m = buf.of /\ m \in received \cup struck
      BY <1>5, <2>1 DEF SendClose, Acknowledged
    <3>2. Pending' = Pending \ {m} /\ m \in Pending
      BY <1>5, <2>1, <3>1 DEF SendClose, SendSucceeded
    <3>3. Delivery!Retire(m)
      BY <1>5, <3>1, <3>2 DEF SendClose, Delivery!Retire
    <3> QED
      BY <3>1, <3>3, ContractStep
  <2>2. CASE file # NoName \/ ~SendSucceeded
    <3>1. UNCHANGED Delivery!vars
      BY <1>5, <2>2 DEF SendClose, SendSucceeded, SendFailed, Delivery!vars
    <3> QED
      BY <3>1
  <2> QED
    BY <2>1, <2>2
<1>6. ASSUME HasNewMetric, ReportLoss, UNCHANGED <<dir, received, struck>>
      PROVE  Delivery!Next
  <2>1. PICK m \in Metrics : m = buf.of /\ m \in Pending /\ Pending' = Pending \ {m}
    BY <1>6 DEF ReportLoss, Return
  <2>2. Delivery!GiveUp(m)
    BY <1>6, <2>1 DEF ReportLoss, Delivery!GiveUp
  <2> QED
    BY <2>1, <2>2, ContractStep
<1>7. CASE CountSaves
  <2>1. CASE ReportLoss
    BY <1>6, <1>7, <2>1 DEF CountSaves
  <2>2. CASE ~ReportLoss
    <3>1. UNCHANGED Delivery!vars
      BY <1>7, <2>2 DEF CountSaves, Delivery!vars
    <3> QED
      BY <3>1
  <2> QED
    BY <2>1, <2>2
<1>8. CASE CreateSave
  <2>1. CASE ReportLoss /\ UNCHANGED dir
    BY <1>6, <1>8, <2>1 DEF CreateSave
  <2>2. CASE ~(ReportLoss /\ UNCHANGED dir)
    <3>1. UNCHANGED Delivery!vars
      BY <1>8, <2>2 DEF CreateSave, CanCreate, Delivery!vars
    <3> QED
      BY <3>1
  <2> QED
    BY <2>1, <2>2
<1>9. CASE SaveWritten
  <2>1. UNCHANGED Delivery!vars
    BY <1>9 DEF SaveWritten, Return, Delivery!vars
  <2> QED
    BY <2>1
<1>10. CASE SaveNotWritten
  BY <1>6, <1>10 DEF SaveNotWritten
<1>11. CASE ListSaved
  <2>1. UNCHANGED Delivery!vars
    BY <1>11 DEF ListSaved, Return, Delivery!vars
  <2> QED
    BY <2>1
<1>12. CASE NextSaved
  <2>1. CASE \E n \in todo : ReadSaved(n)
    <3>1. PICK n \in todo : ReadSaved(n)
      BY <2>1
    <3>2. Pending' = Pending /\ UNCHANGED <<received, lost>>
      BY <1>12, <3>1 DEF NextSaved, ReadSaved, Readings
    <3>3. CASE \E m \in Metrics : dir[n] = Whole(m) /\ buf' # Whole(m)
      <4>1. PICK m \in Metrics : dir[n] = Whole(m) /\ buf' # Whole(m)
        BY <3>3
      <4>2. m \in Pending
        BY <4>1
      <4>3. struck' = struck \cup {m}
        BY <3>1, <4>1 DEF ReadSaved
      <4>4. Delivery!Strike(m)
        BY <3>2, <4>2, <4>3 DEF Delivery!Strike
      <4> QED
        BY <4>4, ContractStep
    <3>4. CASE ~\E m \in Metrics : dir[n] = Whole(m) /\ buf' # Whole(m)
      <4>1. struck' = struck
        BY <3>1, <3>4 DEF ReadSaved
      <4>2. UNCHANGED Delivery!vars
        BY <3>2, <4>1 DEF Delivery!vars
      <4> QED
        BY <4>2
    <3> QED
      BY <3>3, <3>4
  <2>2. CASE ~\E n \in todo : ReadSaved(n)
    <3>1. UNCHANGED Delivery!vars
      BY <1>12, <2>2 DEF NextSaved, Return, Delivery!vars
    <3> QED
      BY <3>1
  <2> QED
    BY <2>1, <2>2
<1>13. CASE UnlinkSaved
  <2>1. CASE dir[file].kind = "whole" /\ dir' # dir
    <3>1. PICK m \in Metrics :
            dir[file] = Whole(m) /\ m \in received \cup struck /\ m \in Pending
      BY <1>13, <2>1 DEF UnlinkSaved, Acknowledged
    <3>2. Pending' = Pending \ {m}
      BY <1>13, <2>1, <3>1 DEF UnlinkSaved, Return
    <3>3. Delivery!Retire(m)
      BY <1>13, <3>1, <3>2 DEF UnlinkSaved, Delivery!Retire
    <3> QED
      BY <3>1, <3>3, ContractStep
  <2>2. CASE dir[file].kind # "whole" \/ dir' = dir
    <3>1. UNCHANGED Delivery!vars
      BY <1>13, <2>2 DEF UnlinkSaved, Return, Delivery!vars
    <3> QED
      BY <3>1
  <2> QED
    BY <2>1, <2>2
<1>14. CASE Crash
  <2>1. CASE HasNewMetric
    <3>1. PICK m \in Metrics :
            m = buf.of /\ m \in Pending /\ Pending' = Pending \ {m}
      BY <1>14, <2>1 DEF Crash
    <3>2. CASE m \in received
      <4>1. Delivery!Retire(m)
        BY <1>14, <2>1, <3>1, <3>2 DEF Crash, Delivery!Retire
      <4> QED
        BY <3>1, <4>1, ContractStep
    <3>3. CASE m \notin received
      <4>1. Delivery!GiveUp(m)
        BY <1>14, <2>1, <3>1, <3>3 DEF Crash, Delivery!GiveUp
      <4> QED
        BY <3>1, <4>1, ContractStep
    <3> QED
      BY <3>2, <3>3
  <2>2. CASE ~HasNewMetric
    <3>1. UNCHANGED Delivery!vars
      BY <1>14, <2>2 DEF Crash, Delivery!vars
    <3> QED
      BY <3>1
  <2> QED
    BY <2>1, <2>2
<1>15. CASE Start
  <2>1. UNCHANGED Delivery!vars
    BY <1>15 DEF Start, Delivery!vars
  <2> QED
    BY <2>1
<1>16. CASE CollectorFlips
  <2>1. UNCHANGED Delivery!vars
    BY <1>16 DEF CollectorFlips, Delivery!vars
  <2> QED
    BY <2>1
<1>17. CASE HandshakeRefused \/ WriteLost
  <2>1. Pending' = Pending
    BY <1>17 DEF HandshakeRefused, WriteLost
  <2>2. CASE buf.kind = "whole"
    <3>1. PICK m \in Metrics : m = buf.of /\ m \in Pending
      BY <1>17, <2>2 DEF HandshakeRefused, WriteLost
    <3>2. Delivery!Strike(m)
      BY <1>17, <2>1, <2>2, <3>1 DEF HandshakeRefused, WriteLost, Carried, Delivery!Strike
    <3> QED
      BY <3>1, <3>2, ContractStep
  <2>3. CASE buf.kind # "whole"
    <3>1. UNCHANGED <<received, lost, struck>>
      BY <1>17, <2>3 DEF HandshakeRefused, WriteLost, Carried
    <3>2. UNCHANGED Delivery!vars
      BY <2>1, <3>1 DEF Delivery!vars
    <3> QED
      BY <3>2
  <2> QED
    BY <2>2, <2>3
<1>19. CASE SaveCutShort
  <2>1. PICK m \in Metrics : m = buf.of /\ m \in Pending /\ Pending' = Pending \ {m}
    BY <1>19 DEF SaveCutShort, Return
  <2>2. Delivery!Strike(m)
    BY <1>19, <2>1 DEF SaveCutShort, Carried, Delivery!Strike
  <2> QED
    BY <2>1, <2>2, ContractStep
<1>18. CASE UNCHANGED vars
  <2>1. UNCHANGED Delivery!vars
    BY <1>18 DEF vars, Delivery!vars
  <2> QED
    BY <2>1
<1> QED
  BY <1>1, <1>2, <1>3, <1>4, <1>5, <1>7, <1>8, <1>9, <1>10, <1>11, <1>12, <1>13,
     <1>14, <1>15, <1>16, <1>17, <1>18, <1>19 DEF Next, AgentStep, Send, Save, Resend

\* The agent keeps its delivery contract, whatever fails, through crashes and
\* restarts.
THEOREM DeliveryHolds == Spec => DeliveryKept
<1>1. Init => Acknowledged
  BY DEF Init, Acknowledged
<1>2. Init => Delivery!Init
  BY DEF Init, Delivery!Init, Pending, InMemory, OnDisk, HasNewMetric, Sending, Saving,
     Nothing, Whole
<1>3. Inv /\ Acknowledged /\ [Next]_vars => Acknowledged'
  BY AcknowledgedPreserved
<1>4. Inv /\ Acknowledged /\ [Next]_vars => [Delivery!Next]_(Delivery!vars)
  BY StepDelivers
<1> QED
  BY <1>1, <1>2, <1>3, <1>4, InvHolds, PTL DEF Spec, DeliveryKept, Delivery!Spec

-----------------------------------------------------------------------------
(* No metric is sent twice                                                 *)

\* The agent lives, and the calls that follow a delivery do not fail.
Careful == MaxCrashes = 0 /\ {"close", "unlink"} \cap Faults = {}

\* What the agent holds is not at the collector yet, apart from the metric it
\* has just delivered.
Undelivered ==
  /\ HasNewMetric /\ pc # "close" => buf.of \notin received
  /\ \A n \in Names :
       dir[n].kind = "whole" /\ dir[n].of \in received
         => n = file /\ pc \in {"close", "unlink"}

\* A delivery is followed by the removal of the only copy.
LEMMA UndeliveredPreserved ==
  Careful /\ Inv /\ Undelivered /\ [Next]_vars => Undelivered'
<1> SUFFICES ASSUME Careful, Inv, Undelivered, [Next]_vars PROVE Undelivered'
  OBVIOUS
<1> USE MetricStoreAssumption DEF Inv, TypeOK, Sending, Saving, HasNewMetric,
    MemoryShape, DirectoryShape, OneCopy, OnDisk, Saved, Undelivered,
    Careful, Text, Nothing, EmptyText, Whole, Part, Carried
<1>1. CASE GatherMetric
  BY <1>1 DEF GatherMetric
<1>2. CASE ConnectFailed
  BY <1>2 DEF ConnectFailed, SendFailed
<1>3. CASE Connected
  BY <1>3 DEF Connected
<1>4. CASE HandshakeRefused
  BY <1>4 DEF HandshakeRefused
<1>5. CASE WriteDelivered
  BY <1>5 DEF WriteDelivered
<1>6. CASE WriteLost
  BY <1>6 DEF WriteLost
<1>7. CASE SendClose
  BY <1>7 DEF SendClose, SendFailed, SendSucceeded
<1>8. CASE CountSaves
  BY <1>8 DEF CountSaves, ReportLoss, Return
<1>9. CASE CreateSave
  BY <1>9 DEF CreateSave, CanCreate, ReportLoss, Return
<1>10. CASE SaveWritten
  BY <1>10 DEF SaveWritten, Return
<1>11. CASE SaveNotWritten
  BY <1>11 DEF SaveNotWritten, ReportLoss, Return
<1>12. CASE SaveCutShort
  BY <1>12 DEF SaveCutShort, Return
<1>13. CASE ListSaved
  BY <1>13 DEF ListSaved, Return
<1>14. CASE NextSaved
  BY <1>14 DEF NextSaved, ReadSaved, Readings, Return
<1>15. CASE UnlinkSaved
  BY <1>15 DEF UnlinkSaved, Return
<1>16. CASE Crash
  BY <1>16 DEF Crash
<1>17. CASE Start
  BY <1>17 DEF Start
<1>18. CASE CollectorFlips
  BY <1>18 DEF CollectorFlips
<1>19. CASE UNCHANGED vars
  BY <1>19 DEF vars
<1> QED
  BY <1>1, <1>2, <1>3, <1>4, <1>5, <1>6, <1>7, <1>8, <1>9, <1>10, <1>11,
    <1>12, <1>13, <1>14, <1>15, <1>16, <1>17, <1>18, <1>19 DEF Next,
    AgentStep, Send, Save, Resend

\* No metric is sent again once the collector has it.
THEOREM AtMostOnceHolds == ASSUME Careful PROVE Spec => []AtMostOnce
<1>1. Init => Undelivered
  BY DEF Init, Undelivered, HasNewMetric, Sending, Saving, Nothing
<1>2. Inv /\ Undelivered /\ [Next]_vars => Undelivered'
  BY Careful, UndeliveredPreserved
<1>3. Inv /\ Undelivered => AtMostOnce
  <2> SUFFICES ASSUME Inv, Undelivered, pc \in {"connect", "write"}, buf.kind = "whole"
               PROVE  buf.of \notin received
    BY DEF AtMostOnce
  <2>1. CASE file = NoName
    BY <2>1 DEF Undelivered, HasNewMetric, Sending
  <2>2. CASE file # NoName
    <3>1. file \in Names /\ buf = dir[file]
      BY <2>2 DEF Inv, TypeOK, MemoryShape, Sending, Part
    <3> QED
      BY <3>1 DEF Undelivered
  <2> QED
    BY <2>1, <2>2
<1> QED
  BY <1>1, <1>2, <1>3, InvHolds, PTL DEF Spec

-----------------------------------------------------------------------------
(* The metric job in the main loop                                         *)

\* The time send_metric takes for one saved metric, and the most that the calls
\* still to come take: all that may be saved until the directory is listed, then
\* what is left of the list.
Each == 1 + ConnectTime
Rest ==
  IF (pc \in Sending /\ file = NoName) \/ pc = "list"
    THEN SaveLimit * Each
    ELSE Cardinality(todo) * Each

\* A job that was not called yet has taken no time; one that was called can still
\* end in time, but for the seconds a silent collector has cost.
TimeShape ==
  /\ where = "run" /\ ~called => spent = 0
  /\ called => spent + delay + Rest <= LongestRun + stalled

AgentInv == AgentTypeOK /\ Inv /\ TimeShape

\* A step of the composition is one of the metric plugin or leaves it alone.
LEMMA AgentStepsStore == [AgentNext]_allVars => [Next]_vars
<1> SUFFICES ASSUME [AgentNext]_allVars PROVE [Next]_vars
  OBVIOUS
<1>1. CASE Thread
  BY <1>1 DEF Thread, LoopStep, CallGathers, CallFails, MetricStep, JobReturns, Next
<1>2. CASE Tick
  BY <1>2 DEF Tick, TickRunning
<1>3. CASE Others
  <2>1. UNCHANGED vars \/ CollectorFlips
    BY <1>3 DEF Others
  <2> QED
    BY <2>1 DEF Next
<1>4. CASE UNCHANGED allVars
  BY <1>4 DEF allVars
<1> QED
  BY <1>1, <1>2, <1>3, <1>4 DEF AgentNext

\* In the main loop the metric plugin behaves as it does alone.
THEOREM AgentImplementsStore == AgentSpec => Spec
<1>1. AgentInit => Init
  BY DEF AgentInit
<1> QED
  BY <1>1, AgentStepsStore, PTL DEF AgentSpec, Spec

\* The types of the loop's variables.
LEMMA LoopTypes ==
  Loop!TypeOK <=>
    /\ where \in {"select", "serve", "scan", "run"}
    /\ waited \in 0..JobInterval
    /\ spent \in Nat
    /\ i \in 1..2
    /\ where = "run" => i = 1
    /\ age \in [1..1 -> Int]
    /\ since \in [1..1 -> Nat]
    /\ queue \in 0..Backlog
    /\ accepted \in 0..MaxClients
BY DEF Loop!TypeOK, Loop!Jobs

\* Ages are counted up to MaxAge, clients up to MaxClients.
LEMMA AtMostType ==
  /\ \A n \in Nat : Loop!AtMost(n, MaxAge) \in Nat
  /\ \A n \in Int : Loop!AtMost(n, MaxAge) \in Int
  /\ \A n \in 0..MaxClients : Loop!AtMost(n + 1, MaxClients) \in 0..MaxClients
BY AgentAssumption DEF Loop!AtMost

\* The loop's variables keep their types.
LEMMA LoopTypePreserved ==
  Loop!TypeOK /\ [AgentNext]_allVars => Loop!TypeOK'
<1> SUFFICES ASSUME Loop!TypeOK, [AgentNext]_allVars PROVE Loop!TypeOK'
  OBVIOUS
<1>0. /\ where \in {"select", "serve", "scan", "run"}
      /\ waited \in 0..JobInterval
      /\ spent \in Nat
      /\ i \in 1..2
      /\ where = "run" => i = 1
      /\ age \in [1..1 -> Int]
      /\ since \in [1..1 -> Nat]
      /\ queue \in 0..Backlog
      /\ accepted \in 0..MaxClients
  BY LoopTypes
<1>a. JobInterval \in Nat /\ Backlog \in Nat /\ MaxClients \in Nat
  BY AgentAssumption
<1> SUFFICES /\ where' \in {"select", "serve", "scan", "run"}
             /\ waited' \in 0..JobInterval
             /\ spent' \in Nat
             /\ i' \in 1..2
             /\ where' = "run" => i' = 1
             /\ age' \in [1..1 -> Int]
             /\ since' \in [1..1 -> Nat]
             /\ queue' \in 0..Backlog
             /\ accepted' \in 0..MaxClients
  BY DEF Loop!TypeOK, Loop!Jobs
<1> USE DEF Loop!Jobs, Loop!clientVars, Loop!timeVars, Loop!loopVars, Loop!Select
<1>1. CASE Loop!Accept
  <2>1. accepted' \in 0..MaxClients /\ queue' \in 0..Backlog
    BY <1>0, <1>a, <1>1, AtMostType DEF Loop!Accept
  <2> QED
    BY <1>0, <1>1, <2>1 DEF Loop!Accept
<1>2. CASE Loop!ServletReturns
  BY <1>0, <1>2, AgentAssumption DEF Loop!ServletReturns
<1>3. CASE Loop!TimerExpires
  BY <1>0, <1>3 DEF Loop!TimerExpires
<1>4. CASE Loop!CheckJob
  BY <1>0, <1>4 DEF Loop!CheckJob
<1>5. CASE Loop!ScanDone
  BY <1>0, <1>5, AgentAssumption DEF Loop!ScanDone
<1>6. CASE Loop!JobReturns
  BY <1>0, <1>6 DEF Loop!JobReturns
<1>7. CASE TickRunning
  BY <1>0, <1>7, AtMostType DEF TickRunning
<1>8. CASE Loop!Tick
  <2>1. age' \in [1..1 -> Int] /\ since' \in [1..1 -> Nat]
    BY <1>0, <1>8, AtMostType DEF Loop!Tick
  <2>2. waited' \in 0..JobInterval /\ spent' \in Nat
    BY <1>0, <1>a, <1>8 DEF Loop!Tick
  <2> QED
    BY <1>0, <1>8, <2>1, <2>2 DEF Loop!Tick
<1>9. CASE Loop!ClientConnects
  BY <1>0, <1>a, <1>9 DEF Loop!ClientConnects
<1>10. CASE UNCHANGED loopVars
  BY <1>0, <1>10 DEF loopVars
<1> QED
  BY <1>1, <1>2, <1>3, <1>4, <1>5, <1>6, <1>7, <1>8, <1>9, <1>10
  DEF AgentNext, Thread, LoopStep, CallGathers, CallFails, Call, MetricStep, JobReturns,
      Tick, Others, allVars, loopVars

\* metric_sender runs inside run_jobs, and only where it calls sleep, connect or the
\* TLS library does time pass.
LEMMA AgentTypePreserved ==
  AgentInv /\ [AgentNext]_allVars => AgentTypeOK'
<1> SUFFICES ASSUME AgentInv, [AgentNext]_allVars PROVE AgentTypeOK'
  OBVIOUS
<1>1. TypeOK'
  BY AgentStepsStore, TypePreserved DEF AgentInv
<1>2. Loop!TypeOK'
  BY LoopTypePreserved DEF AgentInv, AgentTypeOK
<1>3. /\ called' \in BOOLEAN
      /\ delay' \in 0..Each
      /\ pc' # "idle" => called'
      /\ called' => where' = "run"
      /\ delay' > 0 => pc' = "connect"
      /\ stalled' \in 0..MaxSilence
  <2>0. /\ called \in BOOLEAN
        /\ delay \in 0..Each
        /\ pc # "idle" => called
        /\ called => where = "run"
        /\ delay > 0 => pc = "connect"
        /\ stalled \in 0..MaxSilence /\ MaxSilence \in Nat
        /\ Each \in Nat /\ ConnectTime \in Nat
    BY AgentAssumption DEF AgentInv, AgentTypeOK, Each
  <2>1. CASE LoopStep
    BY <2>0, <2>1 DEF LoopStep, vars, Loop!Accept, Loop!ServletReturns, Loop!TimerExpires,
       Loop!CheckJob, Loop!ScanDone
  <2>2. CASE CallGathers
    BY <2>0, <2>2 DEF CallGathers, Call, GatherMetric, loopVars, Each
  <2>3. CASE CallFails
    BY <2>0, <2>3 DEF CallFails, Call, loopVars, vars
  <2>4. CASE MetricStep
    <3>1. /\ called' = called /\ where' = where /\ stalled' = stalled
          /\ delay' \in 0..Each /\ (delay' > 0 => pc' = "connect")
      BY <2>0, <2>4 DEF MetricStep, Pause, Each, loopVars
    <3>2. pc # "idle"
      BY <2>4 DEF MetricStep, AgentStep, Send, Save, Resend, ConnectFailed, Connected,
         HandshakeRefused, WriteDelivered, WriteLost, SendClose, CountSaves, CreateSave,
         SaveWritten, SaveNotWritten, SaveCutShort, ListSaved, NextSaved, UnlinkSaved
    <3> QED
      BY <2>0, <3>1, <3>2
  <2>5. CASE JobReturns
    BY <2>0, <2>5 DEF JobReturns, vars
  <2>6. CASE TickRunning
    <3>1. CASE delay > 0 /\ delay' = delay - 1 /\ UNCHANGED stalled
      <4>1. delay' \in 0..Each
        BY <2>0, <3>1
      <4> QED
        BY <2>0, <2>6, <3>1, <4>1 DEF TickRunning, vars
    <3>2. CASE stalled < MaxSilence /\ stalled' = stalled + 1 /\ UNCHANGED delay
      <4>1. stalled' \in 0..MaxSilence
        BY <2>0, <3>2
      <4> QED
        BY <2>0, <2>6, <3>2, <4>1 DEF TickRunning, vars
    <3> QED
      BY <2>6, <3>1, <3>2 DEF TickRunning
  <2>7. CASE where # "run" /\ Loop!Tick /\ UNCHANGED <<vars, called, delay, stalled>>
    BY <2>0, <2>7 DEF vars
  <2>8. CASE Others
    BY <2>0, <2>8 DEF Others, vars, loopVars, Loop!ClientConnects, Loop!loopVars,
       CollectorFlips
  <2>9. CASE UNCHANGED allVars
    BY <2>0, <2>9 DEF allVars, vars, loopVars
  <2> QED
    BY <2>1, <2>2, <2>3, <2>4, <2>5, <2>6, <2>7, <2>8, <2>9 DEF AgentNext, Thread, Tick
<1> QED
  BY <1>1, <1>2, <1>3 DEF AgentTypeOK, Each

\* The list is no longer than the limit, and one entry shorter after each metric.
LEMMA RestFacts ==
  ASSUME Inv
  PROVE  /\ Each \in Nat /\ SaveLimit * Each \in Nat
         /\ Cardinality(todo) * Each \in 0..(SaveLimit * Each)
         /\ Cardinality(Saved) * Each \in 0..(SaveLimit * Each)
         /\ \A n \in todo :
              Cardinality(todo \ {n}) * Each = Cardinality(todo) * Each - Each
         /\ Cardinality({}) * Each = 0
<1>1. Each \in Nat /\ SaveLimit \in Nat
  BY AgentAssumption, MetricStoreAssumption DEF Each
<1>2. /\ IsFiniteSet(Saved) /\ IsFiniteSet(todo) /\ todo \subseteq Saved
      /\ Cardinality(Saved) <= SaveLimit
  BY MetricStoreAssumption, FS_Subset DEF Inv, TypeOK, DirectoryShape, Limit, Saved
<1>3. /\ Cardinality(Saved) \in Nat /\ Cardinality(todo) \in Nat
      /\ Cardinality(todo) <= Cardinality(Saved)
  BY <1>2, FS_CardinalityType, FS_Subset
<1>4. \A n \in todo : Cardinality(todo \ {n}) = Cardinality(todo) - 1
  BY <1>2, FS_RemoveElement
<1>5. Cardinality({}) = 0
  BY FS_EmptySet
<1>6. \A a, b \in Nat : a <= b => a * Each \in 0..(b * Each)
  BY <1>1
<1>7. \A a \in Nat : (a - 1) * Each = a * Each - Each
  BY <1>1
<1> QED
  BY <1>1, <1>2, <1>3, <1>4, <1>5, <1>6, <1>7

\* Every call takes from what is left at least the time it needs.
LEMMA TimePreserved ==
  AgentInv /\ [AgentNext]_allVars => TimeShape'
<1> SUFFICES ASSUME AgentInv, [AgentNext]_allVars PROVE TimeShape'
  OBVIOUS
<1>0. /\ called \in BOOLEAN /\ delay \in 0..Each
      /\ spent \in Nat
      /\ pc # "idle" => called
      /\ called => where = "run"
      /\ delay > 0 => pc = "connect"
      /\ where = "run" /\ ~called => spent = 0
      /\ called => spent + delay + Rest <= LongestRun + stalled
      /\ ConnectTime \in Nat /\ stalled \in Nat
      /\ LongestRun = ConnectTime + SaveLimit * Each
  BY AgentAssumption, LoopTypes
  DEF AgentInv, AgentTypeOK, TimeShape, Each, LongestRun
<1>1. /\ Each \in Nat /\ SaveLimit * Each \in Nat
      /\ Cardinality(todo) * Each \in 0..(SaveLimit * Each)
      /\ Cardinality(Saved) * Each \in 0..(SaveLimit * Each)
      /\ \A n \in todo :
           Cardinality(todo \ {n}) * Each = Cardinality(todo) * Each - Each
      /\ Cardinality({}) * Each = 0
  BY RestFacts DEF AgentInv
<1>2. Rest \in Nat
  BY <1>1 DEF Rest
<1>3. CASE LoopStep
  <2>1. ~called /\ ~called'
    BY <1>0, <1>3 DEF LoopStep, Loop!Accept, Loop!ServletReturns, Loop!TimerExpires,
       Loop!CheckJob, Loop!ScanDone
  <2>2. where' = "run" => spent' = 0
    BY <1>0, <1>3, <2>1 DEF LoopStep, Loop!Accept, Loop!ServletReturns, Loop!TimerExpires,
       Loop!CheckJob, Loop!ScanDone, Loop!Select
  <2> QED
    BY <2>1, <2>2 DEF TimeShape
<1>4. CASE CallGathers
  <2>1. called' /\ spent' = 0 /\ delay' \in 0..ConnectTime /\ stalled' = 0
    BY <1>0, <1>4 DEF CallGathers, Call, loopVars
  <2>2. pc' = "connect" /\ file' = NoName
    BY <1>4 DEF CallGathers, GatherMetric, AgentInv, Inv, MemoryShape
  <2>3. Rest' = SaveLimit * Each
    BY <2>2 DEF Rest, Sending, Each
  <2> QED
    BY <1>0, <1>1, <2>1, <2>3 DEF TimeShape, LongestRun, Each
<1>5. CASE CallFails
  <2>1. /\ called' /\ spent' = 0 /\ delay' = 0 /\ pc = "idle" /\ stalled' = 0
        /\ UNCHANGED vars
    BY <1>0, <1>5 DEF CallFails, Call, loopVars
  <2>2. Rest' = 0
    BY <1>1, <2>1 DEF Rest, vars, Sending, AgentInv, Inv, DirectoryShape, Each
  <2> QED
    BY <1>0, <1>1, <2>1, <2>2 DEF TimeShape, LongestRun, Each
<1>6. CASE MetricStep
  <2>0. /\ called /\ called' /\ spent' = spent /\ delay = 0 /\ where' = where
        /\ stalled' = stalled
    BY <1>0, <1>6 DEF MetricStep, AgentStep, Send, Save, Resend, ConnectFailed, Connected,
       HandshakeRefused, WriteDelivered, WriteLost, SendClose, CountSaves, CreateSave,
       SaveWritten, SaveNotWritten, SaveCutShort, ListSaved, NextSaved, UnlinkSaved,
       loopVars
  <2>1. delay' + Rest' <= Rest /\ delay' \in Nat /\ Rest' \in Nat
    <3> USE DEF Rest, Sending, Saving
    <3>1. CASE NextSaved
      <4>1. CASE Return
        <5>1. Rest' = 0 /\ delay' = 0
          BY <1>1, <1>6, <3>1, <4>1 DEF Return, MetricStep, Each
        <5> QED
          BY <1>2, <5>1 DEF Rest
      <4>2. ASSUME NEW n \in todo, ReadSaved(n)
            PROVE  delay' + Rest' <= Rest /\ delay' \in Nat /\ Rest' \in Nat
        <5>1. Rest = Cardinality(todo) * Each
          BY <3>1 DEF NextSaved
        <5>2. delay' \in 0..Each
          BY <1>1, <1>6 DEF MetricStep, Pause, Each
        <5>3. pc' \in {"connect", "unlink"} /\ file' # NoName /\ todo' = todo \ {n}
          BY <4>2, MetricStoreAssumption
          DEF ReadSaved, AgentInv, Inv, TypeOK
        <5>4. Rest' = Cardinality(todo) * Each - Each
          BY <1>1, <5>3 DEF Each
        <5>5. Rest' \in Nat
          <6>1. Cardinality(todo \ {n}) \in Nat
            BY MetricStoreAssumption, FS_Subset, FS_CardinalityType
            DEF AgentInv, Inv, TypeOK
          <6> QED
            BY <1>1, <5>3, <6>1 DEF Each
        <5> QED
          BY <1>1, <5>1, <5>2, <5>4, <5>5
      <4> QED
        BY <3>1, <4>1, <4>2 DEF NextSaved
    <3>2. CASE ~NextSaved
      <4>1. delay' = 0
        BY <1>6, <3>2 DEF MetricStep, AgentStep, Send, Save, Resend, ConnectFailed,
           Connected, HandshakeRefused, WriteDelivered, WriteLost, SendClose, CountSaves,
           CreateSave, SaveWritten, SaveNotWritten, SaveCutShort, ListSaved, UnlinkSaved
      <4>2. Rest' \in {Rest, 0} \/ (pc = "list" /\ Rest' = Cardinality(Saved) * Each)
                \/ (pc \in Sending /\ file = NoName /\ Rest' = Cardinality(todo) * Each)
        <5> USE <1>1 DEF Each, AgentInv, Inv, MemoryShape, DirectoryShape
        <5>1. CASE Send
          BY <5>1 DEF Send, ConnectFailed, Connected, HandshakeRefused, WriteDelivered,
             WriteLost, SendClose, SendFailed, SendSucceeded
        <5>2. CASE Save
          BY <5>2 DEF Save, CountSaves, CreateSave, SaveWritten, SaveNotWritten,
             SaveCutShort, ReportLoss, Return
        <5>3. CASE ListSaved
          BY <5>3 DEF ListSaved, Return
        <5>4. CASE UnlinkSaved
          BY <5>4 DEF UnlinkSaved, Return
        <5> QED
          BY <1>6, <3>2, <5>1, <5>2, <5>3, <5>4 DEF MetricStep, AgentStep, Resend
      <4> QED
        BY <1>1, <1>2, <4>1, <4>2
    <3> QED
      BY <3>1, <3>2
  <2> QED
    <3>1. LongestRun \in Nat /\ LongestRun' = LongestRun
      BY <1>0, <1>1 DEF LongestRun
    <3>2. spent + Rest <= LongestRun + stalled /\ LongestRun + stalled \in Nat
      BY <1>0, <2>0, <1>2, <3>1
    <3>3. spent' + delay' + Rest' <= LongestRun + stalled
      <4>1. \A a, b, c, d, e \in Nat : a + b <= e /\ c + d <= b => a + c + d <= e
        OBVIOUS
      <4>2. spent \in Nat /\ spent' = spent
        BY <1>0, <2>0
      <4> QED
        BY <1>2, <2>1, <3>1, <3>2, <4>1, <4>2
    <3> QED
      BY <2>0, <3>1, <3>3 DEF TimeShape
<1>7. CASE JobReturns
  BY <1>7 DEF JobReturns, Loop!JobReturns, TimeShape
<1>8. CASE TickRunning
  <2>1. /\ spent' = spent + 1 /\ UNCHANGED <<vars, where, called>>
        /\ \/ delay' = delay - 1 /\ stalled' = stalled
           \/ delay' = delay /\ stalled' = stalled + 1
    BY <1>8 DEF TickRunning
  <2>2. Rest' = Rest /\ called
    BY <1>0, <1>8, <2>1 DEF TickRunning, AwaitsCollector, Rest, vars, Sending, Each
  <2> QED
    BY <1>0, <1>1, <1>2, <2>1, <2>2 DEF TimeShape, LongestRun, Each
<1>9. CASE where # "run" /\ Loop!Tick /\ UNCHANGED <<vars, called, delay, stalled>>
  BY <1>0, <1>9 DEF Loop!Tick, TimeShape
<1>10. CASE Others \/ UNCHANGED allVars
  <2>1. UNCHANGED <<spent, where, called, delay, stalled, pc, file, todo>>
    BY <1>10 DEF Others, Loop!ClientConnects, Loop!loopVars, CollectorFlips, vars, allVars,
       loopVars
  <2>2. Rest' = Rest
    BY <2>1 DEF Rest, Sending, Each
  <2> QED
    BY <1>0, <2>1, <2>2 DEF TimeShape, LongestRun
<1> QED
  BY <1>3, <1>4, <1>5, <1>6, <1>7, <1>8, <1>9, <1>10 DEF AgentNext, Thread, Tick

\* Nothing is saved, and no job was called.
LEMMA AgentInitInv == AgentInit => AgentInv
<1> SUFFICES ASSUME AgentInit PROVE AgentInv
  OBVIOUS
<1>1. Inv
  BY InitInv DEF AgentInit
<1>2. Loop!TypeOK
  <2>1. Loop!Init
    BY DEF AgentInit
  <2> QED
    BY <2>1, AgentAssumption DEF Loop!Init, Loop!TypeOK, Loop!Jobs
<1>3. AgentTypeOK
  <2>1. TypeOK /\ pc = "idle" /\ called = FALSE /\ delay = 0
    BY <1>1 DEF AgentInit, Init, Inv
  <2>2. delay \in 0..(1 + ConnectTime) /\ stalled \in 0..MaxSilence
    BY <2>1, AgentAssumption DEF AgentInit
  <2> QED
    <3>1. ~(delay > 0)
      BY <2>1
    <3> QED
      BY <1>2, <2>1, <2>2, <3>1, Zenon DEF AgentTypeOK
<1>4. TimeShape
  BY DEF AgentInit, Loop!Init, TimeShape
<1> QED
  BY <1>1, <1>3, <1>4 DEF AgentInv

\* The invariant of the composition holds in every state.
LEMMA AgentInvHolds == AgentSpec => []AgentInv
<1>1. AgentInv /\ [AgentNext]_allVars => AgentInv'
  <2> SUFFICES ASSUME AgentInv, [AgentNext]_allVars PROVE AgentInv'
    OBVIOUS
  <2>1. Inv'
    BY AgentStepsStore, TypePreserved, MemoryPreserved, DirectoryPreserved,
       OneCopyPreserved, LimitPreserved DEF AgentInv, Inv
  <2> QED
    BY <2>1, AgentTypePreserved, TimePreserved DEF AgentInv
<1> QED
  BY <1>1, AgentInitInv, PTL DEF AgentSpec

\* The variables keep their types, and metric_sender runs only where run_jobs has
\* called it.
THEOREM AgentTypeCorrect == AgentSpec => []AgentTypeOK
<1>1. AgentInv => AgentTypeOK
  BY DEF AgentInv
<1> QED
  BY <1>1, AgentInvHolds, PTL

\* A second of metric_sender is one the main loop allows a job.
LEMMA StepLoops ==
  AgentInv /\ [AgentNext]_allVars => [Loop!Next]_(Loop!vars)
<1> SUFFICES ASSUME AgentInv, [AgentNext]_allVars PROVE [Loop!Next]_(Loop!vars)
  OBVIOUS
<1>1. CASE LoopStep
  BY <1>1 DEF LoopStep, Loop!Next, Loop!Loop
<1>2. CASE UNCHANGED loopVars
  BY <1>2 DEF loopVars, Loop!vars
<1>3. CASE JobReturns
  BY <1>3 DEF JobReturns, Loop!Next, Loop!Loop
<1>4. CASE TickRunning
  <2>1. /\ spent \in Nat /\ age \in [1..1 -> Int] /\ since \in [1..1 -> Nat]
    BY LoopTypes DEF AgentInv, AgentTypeOK
  <2>2. spent < LongestRun + MaxSilence
    <3>1. /\ delay \in Nat /\ stalled \in 0..MaxSilence /\ MaxSilence \in Nat
          /\ delay > 0 \/ stalled < MaxSilence
      BY <1>4, AgentAssumption DEF TickRunning, AgentInv, AgentTypeOK
    <3>2. called
      BY <1>4, <3>1 DEF TickRunning, AwaitsCollector, AgentInv, AgentTypeOK
    <3>3. Rest \in Nat /\ LongestRun \in Nat
      BY RestFacts, AgentAssumption DEF AgentInv, Rest, LongestRun, Each
    <3> QED
      BY <2>1, <3>1, <3>2, <3>3 DEF AgentInv, TimeShape
  <2>3. /\ age' = [j \in 1..1 |-> Loop!AtMost(age[j] + 1, MaxAge)]
        /\ since' = [j \in 1..1 |-> Loop!AtMost(since[j] + 1, MaxAge)]
    <3>1. \A j \in 1..1 : j = 1
      OBVIOUS
    <3>2. /\ age' = [age EXCEPT ![1] = Loop!AtMost(age[1] + 1, MaxAge)]
          /\ since' = [since EXCEPT ![1] = Loop!AtMost(since[1] + 1, MaxAge)]
      BY <1>4 DEF TickRunning
    <3> QED
      BY <2>1, <3>1, <3>2
  <2>4. Loop!Tick
    BY <1>4, <2>2, <2>3 DEF TickRunning, Loop!Tick, Loop!Jobs, Loop!clientVars
  <2> QED
    BY <2>4 DEF Loop!Next
<1>5. CASE Loop!Tick
  BY <1>5 DEF Loop!Next
<1>6. CASE Loop!ClientConnects
  BY <1>6 DEF Loop!Next
<1> QED
  BY <1>1, <1>2, <1>3, <1>4, <1>5, <1>6
  DEF AgentNext, Thread, CallGathers, CallFails, Call, MetricStep, Tick, Others, allVars,
      loopVars

\* The metric job is a job as the main loop expects it, for any limit and time that
\* connect takes: what it keeps the loop for beyond LongestRun are seconds in which
\* the collector has accepted a connection and is silent.
THEOREM LoopKeptHolds == AgentSpec => LoopKept
<1>1. AgentInit => Loop!Init
  BY DEF AgentInit
<1>2. AgentInv => (where = "run" => spent <= LongestRun + stalled)
  <2> SUFFICES ASSUME AgentInv, where = "run" PROVE spent <= LongestRun + stalled
    OBVIOUS
  <2>1. Rest \in Nat /\ LongestRun \in Nat
    BY RestFacts, AgentAssumption DEF AgentInv, Rest, LongestRun, Each
  <2>2. spent \in Nat /\ delay \in Nat /\ stalled \in Nat
    BY LoopTypes, AgentAssumption DEF AgentInv, AgentTypeOK
  <2>3. spent = 0 \/ spent + delay + Rest <= LongestRun + stalled
    BY DEF AgentInv, TimeShape
  <2> QED
    BY <2>1, <2>2, <2>3
<1> QED
  BY <1>1, <1>2, StepLoops, AgentInvHolds, PTL DEF AgentSpec, LoopKept, Loop!Spec

\* In the loop, too, nothing is lost without a trace, and the directory stays within
\* its limit.
THEOREM AgentDelivers == AgentSpec => DeliveryKept /\ []SaveLimitRespected
BY AgentImplementsStore, DeliveryHolds, SaveLimitHolds, PTL

\* In the loop, too, no metric is sent again once the collector has it.
THEOREM AgentAtMostOnce == ASSUME Careful PROVE AgentSpec => []AtMostOnce
<1>1. Spec => []AtMostOnce
  BY Careful, AtMostOnceHolds
<1> QED
  BY <1>1, AgentImplementsStore, PTL

\* What MainLoop_proofs shows of the main loop, for the loop of the composition.
LoopProofs == INSTANCE MainLoop_proofs
                WITH pc <- where, N <- 1, Interval <- [j \in 1..1 |-> MetricInterval],
                     MaxRun <- LongestRun + MaxSilence, Endless <- FALSE,
                     ClockSteps <- {}, MaxClockSteps <- 0, steps <- 0, back <- 0

\* Both names of the loop stand for the same specification.
LEMMA SameLoop ==
  /\ Loop!Init <=> LoopProofs!Init
  /\ [Loop!Next]_(Loop!vars) <=> [LoopProofs!Next]_(LoopProofs!vars)
  /\ Loop!JobsOnTime <=> LoopProofs!JobsOnTime
<1> USE DEF Loop!vars, LoopProofs!vars, Loop!loopVars, LoopProofs!loopVars,
        Loop!clientVars, LoopProofs!clientVars, Loop!timeVars, LoopProofs!timeVars,
        Loop!Jobs, LoopProofs!Jobs, Loop!AtMost, LoopProofs!AtMost
<1>1. Loop!Init <=> LoopProofs!Init
  BY Zenon DEF Loop!Init, LoopProofs!Init
<1>2. /\ Loop!Accept <=> LoopProofs!Accept
      /\ Loop!ServletReturns <=> LoopProofs!ServletReturns
      /\ Loop!TimerExpires <=> LoopProofs!TimerExpires
      /\ Loop!CheckJob <=> LoopProofs!CheckJob
      /\ Loop!JobReturns <=> LoopProofs!JobReturns
      /\ Loop!ScanDone <=> LoopProofs!ScanDone
  BY Zenon DEF Loop!Accept, LoopProofs!Accept, Loop!ServletReturns,
     LoopProofs!ServletReturns, Loop!TimerExpires, LoopProofs!TimerExpires,
     Loop!CheckJob, LoopProofs!CheckJob, Loop!JobReturns, LoopProofs!JobReturns,
     Loop!ScanDone, LoopProofs!ScanDone, Loop!Select, LoopProofs!Select,
     Loop!Due, LoopProofs!Due
<1>3. /\ Loop!Tick <=> LoopProofs!Tick
      /\ Loop!ClientConnects <=> LoopProofs!ClientConnects
      /\ Loop!SetClock <=> LoopProofs!SetClock
  BY Zenon DEF Loop!Tick, LoopProofs!Tick, Loop!ClientConnects,
     LoopProofs!ClientConnects, Loop!SetClock, LoopProofs!SetClock
<1>4. [Loop!Next]_(Loop!vars) <=> [LoopProofs!Next]_(LoopProofs!vars)
  BY <1>2, <1>3, Zenon DEF Loop!Next, LoopProofs!Next, Loop!Loop, LoopProofs!Loop
<1>5. Loop!JobsOnTime <=> LoopProofs!JobsOnTime
  BY Zenon DEF Loop!JobsOnTime, LoopProofs!JobsOnTime, Loop!Latest, LoopProofs!Latest
<1> QED
  BY <1>1, <1>4, <1>5

\* Metrics are gathered on time, however many metrics are saved and whenever the
\* collector comes and goes: no later than the interval, the timeout, a run of
\* LongestRun seconds, what the clients have cost, and the MaxSilence seconds for
\* which a collector that accepts is silent in one run.
THEOREM MetricOnTime == AgentSpec => []Loop!JobsOnTime
<1>1. LoopProofs!MainLoopAssumption
  BY AgentAssumption, MetricStoreAssumption DEF LoopProofs!MainLoopAssumption, LongestRun
<1>2. LoopProofs!Spec => []LoopProofs!JobsOnTime
  BY <1>1, LoopProofs!JobsOnTimeHolds
<1> QED
  BY <1>2, SameLoop, LoopKeptHolds, PTL DEF LoopKept, Loop!Spec, LoopProofs!Spec

=============================================================================
