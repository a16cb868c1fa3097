-------------------------------- MODULE Agent --------------------------------
(***************************************************************************)
(* The metric job inside the main loop: the composition of MainLoop and    *)
(* MetricStore.  run_jobs calls metric_sender like any other job, so       *)
(* metrics are gathered only when a wait ends without a client, and while  *)
(* metric_sender connects, or sleeps before it sends a saved metric, the   *)
(* one thread serves nobody.  Nor does it while a collector that has       *)
(* accepted leaves SSL_connect or SSL_write without an answer, and nothing *)
(* in the code ends that.  The agent does not die here; what a death does  *)
(* to the save directory is in MetricStore.                                *)
(***************************************************************************)
EXTENDS MetricStore

CONSTANTS
  MetricInterval,   \* /configuration/metricinterval
  JobInterval, MaxSession, Backlog, MaxClients, MaxAge,  \* see MainLoop
  ConnectTime,      \* bound: seconds until a call of connect returns
  MaxSilence        \* bound: seconds of a run in which the collector is silent

ASSUME AgentAssumption ==
  /\ {JobInterval, MaxSession, Backlog, MaxClients, MaxAge, ConnectTime, MaxSilence}
       \subseteq Nat
  /\ MetricInterval \in Int
  /\ MetricInterval <= MaxAge

VARIABLES
  where, waited, spent, i, age, since, queue, accepted,  \* see MainLoop
  called,  \* run_jobs has called metric_sender
  delay,   \* seconds until sleep(1) and connect have returned
  stalled  \* seconds of this run in which the collector was silent

loopVars == <<where, waited, spent, i, age, since, queue, accepted>>
allVars == <<vars, loopVars, called, delay, stalled>>

\* A new metric is sent at once, a saved one after a second of sleep.
LongestRun == ConnectTime + SaveLimit * (1 + ConnectTime)

Loop == INSTANCE MainLoop
          WITH pc <- where, N <- 1, Interval <- [j \in 1..1 |-> MetricInterval],
               MaxRun <- LongestRun + MaxSilence, Endless <- FALSE,
               ClockSteps <- {}, MaxClockSteps <- 0, steps <- 0, back <- 0

AgentTypeOK ==
  /\ TypeOK
  /\ Loop!TypeOK
  /\ called \in BOOLEAN
  /\ delay \in 0..(1 + ConnectTime)
  /\ stalled \in 0..MaxSilence
  /\ pc # "idle" => called
  /\ called => where = "run"
  /\ delay > 0 => pc = "connect"

AgentInit ==
  /\ Init
  /\ Loop!Init
  /\ called = FALSE
  /\ delay = 0
  /\ stalled = 0

-----------------------------------------------------------------------------
(* The thread                                                              *)

LoopStep ==
  /\ \/ Loop!Accept \/ Loop!ServletReturns \/ Loop!TimerExpires
     \/ Loop!CheckJob \/ Loop!ScanDone
  /\ UNCHANGED <<vars, called, delay, stalled>>

\* run_jobs calls metric_sender.
Call ==
  /\ where = "run"
  /\ ~called
  /\ called' = TRUE
  /\ stalled' = 0
  /\ UNCHANGED loopVars

CallGathers ==
  /\ Call
  /\ GatherMetric
  /\ delay' \in 0..ConnectTime

\* gather fails: metric_sender returns at once.
CallFails ==
  /\ Call
  /\ UNCHANGED <<vars, delay>>

\* Mutant: it sleeps for longer.
LongPause == 3 + ConnectTime

\* send_saved_metrics sleeps for a second before each metric it sends.
Pause == 1 + ConnectTime

MetricStep ==
  /\ delay = 0
  /\ AgentStep
  /\ IF pc = "next" /\ pc' = "connect" THEN delay' \in 1..Pause ELSE delay' = 0
  /\ UNCHANGED <<loopVars, called, stalled>>

\* Mutant: lastrun is set and run_jobs goes on while the metric is still sent.
JobLeft ==
  /\ called
  /\ delay = 0
  /\ Loop!JobReturns
  /\ called' = FALSE
  /\ UNCHANGED <<vars, delay, stalled>>

JobReturns ==
  /\ called
  /\ pc = "idle"
  /\ Loop!JobReturns
  /\ called' = FALSE
  /\ UNCHANGED <<vars, delay, stalled>>

Thread == LoopStep \/ CallGathers \/ CallFails \/ MetricStep \/ JobReturns

-----------------------------------------------------------------------------
(* Time and the others                                                     *)

\* SSL_connect, after connect, and SSL_write wait for the collector.
AwaitsCollector == pc \in {"connect", "write"} /\ delay = 0 /\ collector = "silent"

\* Else only sleep and connect take time worth counting.
TickRunning ==
  /\ where = "run"
  /\ \/ /\ delay > 0
        /\ delay' = delay - 1
        /\ UNCHANGED stalled
     \/ /\ AwaitsCollector
        /\ stalled < MaxSilence
        /\ stalled' = stalled + 1
        /\ UNCHANGED delay
  /\ spent' = spent + 1
  /\ age' = [age EXCEPT ![1] = Loop!AtMost(@ + 1, MaxAge)]
  /\ since' = [since EXCEPT ![1] = Loop!AtMost(@ + 1, MaxAge)]
  /\ UNCHANGED <<vars, where, waited, i, queue, accepted, called>>

Tick ==
  \/ TickRunning
  \/ /\ where # "run"
     /\ Loop!Tick
     /\ UNCHANGED <<vars, called, delay, stalled>>

Others ==
  /\ \/ Loop!ClientConnects /\ UNCHANGED vars
     \/ CollectorFlips /\ UNCHANGED loopVars
  /\ UNCHANGED <<called, delay, stalled>>

AgentNext == Thread \/ Tick \/ Others

AgentSpec == AgentInit /\ [][AgentNext]_allVars

\* The thread goes on, time passes, and gather does not fail for ever; nothing is
\* assumed of the clients and the collector.  That metric_sender is called again
\* and again is not assumed: it is what the main loop does.
FairAgentSpec ==
  AgentSpec /\ WF_allVars(Thread) /\ WF_allVars(Tick) /\ SF_allVars(CallGathers)

-----------------------------------------------------------------------------
(* Properties                                                              *)

\* The metric job is a job as MainLoop supposes, and keeps the loop for no more than
\* LongestRun seconds, because send_saved_metrics goes over a directory that
\* save_metric keeps within metricsavelimit, plus the seconds for which a collector
\* that has accepted is silent: there are as many of those as the collector likes.
LoopKept == Loop!Spec /\ [](where = "run" => spent <= LongestRun + stalled)

\* In the loop, too, the properties of MetricStore hold: AtMostOnce, and Drains,
\* although metrics are sent only in waits that no client has cut short.
=============================================================================
