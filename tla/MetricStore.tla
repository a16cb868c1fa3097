----------------------------- MODULE MetricStore -----------------------------
(***************************************************************************)
(* The store-and-forward of metrics in plugins/metricops.c: metric_sender  *)
(* gathers a metric and sends it with send_metric; a metric that could not *)
(* be sent is written to the save directory by save_metric, and the next   *)
(* metric that is sent takes the saved ones along (send_saved_metrics).    *)
(* The agent may die between any two system calls; the save directory      *)
(* survives it.                                                            *)
(*                                                                         *)
(* One action per system call whose effect outlives the agent, or whose    *)
(* failure decides what happens next; pc names the call to be made.        *)
(***************************************************************************)
EXTENDS Integers, FiniteSets

CONSTANTS
  Metrics,     \* gathered metrics; see GatherMetric for the reuse of a name
  Names,       \* file names save_metric can build: local times, to the second
  SaveLimit,   \* metricsavelimit (5 when it is not configured)
  Faults,      \* the failures the environment may inject
  MaxCrashes,  \* bound: how many times the agent dies
  NoMetric,    \* no metric
  NoName       \* no file

\* Failures the code sees and reports with llog.
ReportedFaults ==
  {"connect", "close", "opendir", "create", "diskfull", "readfile", "unlink"}

\* Failures whose result the code does not look at: SSL_connect returning 0
\* (metricops.c:362 tests for -1 only), SSL_write (370-374), a short write(2)
\* (256-263), and an error of fgets (119), which ends the loop like the end of the
\* file.
SilentFaults == {"handshake", "sslwrite", "shortwrite", "readerror"}

ASSUME MetricStoreAssumption ==
  /\ IsFiniteSet(Names)
  /\ SaveLimit \in Nat
  /\ MaxCrashes \in Nat
  /\ Faults \subseteq ReportedFaults \cup SilentFaults
  /\ NoMetric \notin Metrics
  /\ NoName \notin Names

VARIABLES
  pc,         \* the call the agent makes next
  buf,        \* the text in memory: met, or xmlbuf for a saved metric
  file,       \* savepath or metfile; NoName while a new metric is sent
  todo,       \* entries readdir has yet to return to send_saved_metrics
  dir,        \* the save directory: the text under each name
  collector,  \* "up", "down" when connections to metrichost:metricport are
              \* refused, "silent" when they are accepted and not answered
  received,   \* metrics the collector has got in full since gathered
  lost,       \* metrics whose loss was logged, or that died with the agent
  crashes,    \* deaths so far
  struck      \* ghost: metrics a silent fault has hit since they were gathered

agentVars == <<pc, buf, file, todo>>
vars == <<pc, buf, file, todo, dir, collector, received, lost, crashes, struck>>

-----------------------------------------------------------------------------
(* Texts: what a buffer or a file holds.  "none" is no buffer or no file,   *)
(* "part" a metric cut short.                                              *)

Text == [kind : {"none", "empty"}, of : {NoMetric}]
          \cup [kind : {"part", "whole"}, of : Metrics]

Nothing == [kind |-> "none", of |-> NoMetric]
EmptyText == [kind |-> "empty", of |-> NoMetric]
Whole(m) == [kind |-> "whole", of |-> m]
Part(m) == [kind |-> "part", of |-> m]

Saved == {n \in Names : dir[n].kind # "none"}
OnDisk == {m \in Metrics : \E n \in Names : dir[n] = Whole(m)}

\* The agent is about a metric that no file holds yet.
Sending == {"connect", "write", "close"}
Saving == {"count", "create"}
HasNewMetric == (pc \in Sending \cup Saving /\ file = NoName) \/ pc = "fill"
InMemory == IF HasNewMetric THEN {buf.of} ELSE {}

Pending == InMemory \cup OnDisk

\* The metric in the buffer, if the buffer holds all of it.
Carried == IF buf.kind = "whole" THEN {buf.of} ELSE {}

-----------------------------------------------------------------------------
TypeOK ==
  /\ pc \in {"down", "idle", "list", "next", "unlink", "fill"} \cup Sending \cup Saving
  /\ buf \in Text
  /\ file \in Names \cup {NoName}
  /\ todo \subseteq Names
  /\ dir \in [Names -> Text]
  /\ collector \in {"up", "down", "silent"}
  /\ received \subseteq Metrics
  /\ lost \subseteq Metrics
  /\ crashes \in 0..MaxCrashes
  /\ struck \subseteq Metrics

Init ==
  /\ pc = "idle"
  /\ buf = Nothing
  /\ file = NoName
  /\ todo = {}
  /\ dir = [n \in Names |-> Nothing]
  /\ collector \in {"up", "down", "silent"}
  /\ received = {}
  /\ lost = {}
  /\ crashes = 0
  /\ struck = {}

\* metric_sender returns to run_jobs.
Return ==
  /\ pc' = "idle"
  /\ buf' = Nothing
  /\ file' = NoName
  /\ todo' = {}

-----------------------------------------------------------------------------
(* metric_sender and send_metric                                           *)

\* gather and lstat_to_string succeed (when they fail nothing happens).  The
\* name of a metric the agent has no trace of can stand for the new one.
GatherMetric ==
  /\ pc = "idle"
  /\ \E m \in Metrics \ OnDisk :
       /\ buf' = Whole(m)
       /\ received' = received \ {m}
       /\ lost' = lost \ {m}
       /\ struck' = struck \ {m}
  /\ pc' = "connect"
  /\ UNCHANGED <<file, todo, dir, collector, crashes>>

\* Mutant: the text is freed before it is saved.
SendFailedFreed ==
  /\ pc' = IF file = NoName THEN "count" ELSE "next"
  /\ buf' = Nothing
  /\ file' = NoName
  /\ UNCHANGED todo

\* send_metric returned -1: a new metric is saved, a saved one stays.
SendFailed ==
  /\ pc' = IF file = NoName THEN "count" ELSE "next"
  /\ buf' = IF file = NoName THEN buf ELSE Nothing
  /\ file' = NoName
  /\ UNCHANGED todo

\* Mutant: a saved metric that went out is left in the directory.
SendSucceededFileKept ==
  /\ pc' = IF file = NoName THEN "list" ELSE "next"
  /\ buf' = Nothing
  /\ file' = NoName
  /\ UNCHANGED todo

\* Mutant: a new metric that went out does not take the saved ones along.
SendSucceededAlone ==
  /\ pc' = IF file = NoName THEN "idle" ELSE "unlink"
  /\ buf' = Nothing
  /\ UNCHANGED <<file, todo>>

\* send_metric returned 1: a new metric takes the saved ones along, a saved
\* one is removed.
SendSucceeded ==
  /\ pc' = IF file = NoName THEN "list" ELSE "unlink"
  /\ buf' = Nothing
  /\ UNCHANGED <<file, todo>>

\* No connection: nothing configured, no such host, refused, SSL_set_fd or
\* SSL_connect failed; or the retval read before it is set happens to be -1.
\* SSL_connect and SSL_write have no timeout: a collector that accepts and is silent
\* keeps them until it answers or goes away.
ConnectFailed ==
  /\ pc = "connect"
  /\ collector = "down" \/ (collector = "up" /\ "connect" \in Faults)
  /\ SendFailed
  /\ UNCHANGED <<dir, collector, received, lost, crashes, struck>>

Connected ==
  /\ pc = "connect"
  /\ collector = "up"
  /\ pc' = "write"
  /\ UNCHANGED <<buf, file, todo, dir, collector, received, lost, crashes, struck>>

\* SSL_connect returns 0: the collector turned the handshake down.  Only -1
\* counts as a failure, so the three writes follow and go nowhere.
HandshakeRefused ==
  /\ pc = "connect"
  /\ collector = "up"
  /\ "handshake" \in Faults
  /\ pc' = "close"
  /\ struck' = struck \cup Carried
  /\ UNCHANGED <<buf, file, todo, dir, collector, received, lost, crashes>>

\* The metric and +DONE+ reach the collector; it can use a whole metric only.
WriteDelivered ==
  /\ pc = "write"
  /\ collector # "silent"
  /\ pc' = "close"
  /\ received' = received \cup Carried
  /\ UNCHANGED <<buf, file, todo, dir, collector, lost, crashes, struck>>

\* One of the SSL_writes fails or is partial; none of the three is checked.
WriteLost ==
  /\ pc = "write"
  /\ collector # "silent"
  /\ "sslwrite" \in Faults
  /\ pc' = "close"
  /\ struck' = struck \cup Carried
  /\ UNCHANGED <<buf, file, todo, dir, collector, received, lost, crashes>>

SendClose ==
  /\ pc = "close"
  /\ \/ SendSucceeded
     \/ "close" \in Faults /\ SendFailed
  /\ UNCHANGED <<dir, collector, received, lost, crashes, struck>>

-----------------------------------------------------------------------------
(* save_metric                                                             *)

\* Mutant: the limit is tested with > instead of >=.
LimitPassed == Cardinality(Saved) > SaveLimit

LimitReached == Cardinality(Saved) >= SaveLimit

\* save_metric gives the metric up with an LOG_ERR line.
ReportLoss ==
  /\ lost' = lost \cup {buf.of}
  /\ Return

CountSaves ==
  /\ pc = "count"
  /\ \/ /\ LimitReached \/ "opendir" \in Faults
        /\ ReportLoss
     \/ /\ ~LimitReached
        /\ pc' = "create"
        /\ UNCHANGED <<buf, file, todo, lost>>
  /\ UNCHANGED <<dir, collector, received, crashes, struck>>

\* Mutant: O_TRUNC instead of O_EXCL.
CanTruncate(n) == n \in Names

\* O_CREAT | O_EXCL: a name that is taken is refused.  Names are local times,
\* so a fall-back hour or a clock that is set back brings a name up again.
CanCreate(n) == dir[n].kind = "none"

CreateSave ==
  /\ pc = "create"
  /\ \E n \in Names :
       \/ /\ ~CanCreate(n) \/ "create" \in Faults
          /\ ReportLoss
          /\ UNCHANGED dir
       \/ /\ CanCreate(n)
          /\ dir' = [dir EXCEPT ![n] = EmptyText]
          /\ file' = n
          /\ pc' = "fill"
          /\ UNCHANGED <<buf, todo, lost>>
  /\ UNCHANGED <<collector, received, crashes, struck>>

SaveWritten ==
  /\ pc = "fill"
  /\ dir' = [dir EXCEPT ![file] = buf]
  /\ Return
  /\ UNCHANGED <<collector, received, lost, crashes, struck>>

\* write returned -1: the empty file stays behind.
SaveNotWritten ==
  /\ pc = "fill"
  /\ "diskfull" \in Faults
  /\ ReportLoss
  /\ UNCHANGED <<dir, collector, received, crashes, struck>>

\* write returned less than strlen(metric): logged as a success.
SaveCutShort ==
  /\ pc = "fill"
  /\ "shortwrite" \in Faults
  /\ dir' = [dir EXCEPT ![file] = Part(buf.of)]
  /\ Return
  /\ struck' = struck \cup Carried
  /\ UNCHANGED <<collector, received, lost, crashes>>

-----------------------------------------------------------------------------
(* send_saved_metrics                                                      *)

ListSaved ==
  /\ pc = "list"
  /\ \/ /\ pc' = "next"
        /\ todo' = Saved
        /\ UNCHANGED <<buf, file>>
     \/ "opendir" \in Faults /\ Return
  /\ UNCHANGED <<dir, collector, received, lost, crashes, struck>>

\* What the loop over fgets leaves in xmlbuf: all of the file, or what was read when
\* a read failed.
Readings(text) ==
  IF text.kind = "empty"
    THEN {Nothing}
    ELSE {text} \cup (IF "readerror" \in Faults THEN {Nothing, Part(text.of)} ELSE {})

\* Nothing read leaves xmlbuf NULL and ret at fclose's 0: nothing is sent and the
\* file is removed as if it had been.
ReadSaved(n) ==
  /\ todo' = todo \ {n}
  /\ file' = n
  /\ buf' \in Readings(dir[n])
  /\ pc' = IF buf' = Nothing THEN "unlink" ELSE "connect"
  /\ struck' = struck \cup {m \in Metrics : dir[n] = Whole(m) /\ buf' # Whole(m)}

NextSaved ==
  /\ pc = "next"
  /\ \/ \E n \in todo : ReadSaved(n)
     \/ /\ todo = {} \/ "readfile" \in Faults
        /\ Return
        /\ UNCHANGED struck
  /\ UNCHANGED <<dir, collector, received, lost, crashes>>

UnlinkSaved ==
  /\ pc = "unlink"
  /\ \/ /\ dir' = [dir EXCEPT ![file] = Nothing]
        /\ pc' = "next"
        /\ file' = NoName
        /\ UNCHANGED <<buf, todo>>
     \/ "unlink" \in Faults /\ Return /\ UNCHANGED dir
  /\ UNCHANGED <<collector, received, lost, crashes, struck>>

-----------------------------------------------------------------------------
(* The environment                                                         *)

\* A signal, a crash or a kill: only the save directory is left.
Crash ==
  /\ pc # "down"
  /\ crashes < MaxCrashes
  /\ crashes' = crashes + 1
  /\ pc' = "down"
  /\ buf' = Nothing
  /\ file' = NoName
  /\ todo' = {}
  /\ lost' = lost \cup (InMemory \ received)
  /\ UNCHANGED <<dir, collector, received, struck>>

Start ==
  /\ pc = "down"
  /\ pc' = "idle"
  /\ UNCHANGED <<buf, file, todo, dir, collector, received, lost, crashes, struck>>

CollectorFlips ==
  /\ collector' \in {"up", "down", "silent"} \ {collector}
  /\ UNCHANGED <<pc, buf, file, todo, dir, received, lost, crashes, struck>>

-----------------------------------------------------------------------------
Send == ConnectFailed \/ Connected \/ HandshakeRefused \/ WriteDelivered
          \/ WriteLost \/ SendClose
Save == CountSaves \/ CreateSave \/ SaveWritten \/ SaveNotWritten \/ SaveCutShort
Resend == ListSaved \/ NextSaved \/ UnlinkSaved

AgentStep == Send \/ Save \/ Resend

Next == GatherMetric \/ AgentStep \/ Crash \/ Start \/ CollectorFlips

Spec == Init /\ [][Next]_vars

-----------------------------------------------------------------------------
(* Properties                                                              *)

\* The directory never holds more metrics than metricsavelimit, however the
\* agent died in save_metric (ChangeLog: "Only allow 5 saved metrics to exist").
SaveLimitRespected == Cardinality(Saved) <= SaveLimit

\* What send_metric, save_metric and send_saved_metrics promise together: a
\* gathered metric stays in memory or on disk until the collector has it, or
\* its loss is logged, or the agent dies with it in memory, or one of the four
\* results nobody looks at was a failure for this very metric.
Delivery == INSTANCE MetricDelivery WITH pending <- Pending
DeliveryKept == Delivery!Spec

\* Without crashes and failing close and unlink calls no metric is sent again
\* once the collector has it: every resend is of a metric it never got.
AtMostOnce == pc \in {"connect", "write"} /\ buf.kind = "whole" => buf.of \notin received

\* A collector that stays up, and answers, drains the save directory:
\* send_saved_metrics comes to every file.  It takes a thread that goes on and a metric_sender that
\* is called again and again: see Agent.
Drains == <>[](collector = "up") => \A n \in Names : []<>(dir[n].kind = "none")
=============================================================================
