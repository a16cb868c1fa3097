------------------------------ MODULE MainLoop ------------------------------
(***************************************************************************)
(* The main loop of main.c and the jobs of job.c.  One thread waits for a  *)
(* connection for at most jinterval seconds; a connection is served, and   *)
(* only a wait without one is followed by run_jobs.  Time passes while the *)
(* agent waits, serves or runs a job; the clock the jobs go by can be set. *)
(***************************************************************************)
EXTENDS Integers

CONSTANTS
  N,             \* jobs that were added with add_job, in this order
  Interval,      \* the interval of each job
  JobInterval,   \* jinterval: /configuration/jobinterval, 60 by default
  MaxRun,        \* bound: seconds a job runs
  MaxSession,    \* bound: seconds a client keeps the servlet
  Backlog,       \* connections that may wait to be accepted (10 in listen)
  MaxClients,    \* bound: clients counted in accepted
  Endless,       \* whether clients keep coming after MaxClients
  ClockSteps,    \* seconds by which the clock can be set
  MaxClockSteps, \* bound: how often it is set
  MaxAge         \* bound: ages are counted up to here

ASSUME MainLoopAssumption ==
  /\ N \in Nat
  /\ Interval \in [1..N -> Int]
  /\ JobInterval \in Nat
  /\ MaxRun \in Nat
  /\ MaxSession \in Nat
  /\ Backlog \in Nat
  /\ MaxClients \in Nat
  /\ Endless \in BOOLEAN
  /\ ClockSteps \subseteq Int
  /\ MaxClockSteps \in Nat
  /\ MaxAge \in Nat
  /\ \A j \in 1..N : Interval[j] <= MaxAge

Jobs == 1..N

VARIABLES
  pc,        \* "select", "serve", "scan" or "run"
  waited,    \* seconds since select was entered
  spent,     \* seconds since the session or the run began
  i,         \* the job run_jobs is at
  age,       \* time(NULL) - lastrun, for each job
  since,     \* ghost: the seconds that really passed since lastrun was set
  queue,     \* connections that wait to be accepted
  accepted,  \* connections accepted so far
  steps,     \* how often the clock was set
  back       \* ghost: seconds the clock was set back, all in all

loopVars == <<pc, waited, spent, i>>
timeVars == <<age, since, steps, back>>
clientVars == <<queue, accepted>>
vars == <<pc, waited, spent, i, age, since, queue, accepted, steps, back>>

AtMost(n, bound) == IF n > bound THEN bound ELSE n

TypeOK ==
  /\ pc \in {"select", "serve", "scan", "run"}
  /\ waited \in 0..JobInterval
  /\ spent \in Nat
  /\ i \in 1..(N + 1)
  /\ pc = "run" => i \in Jobs
  /\ age \in [Jobs -> Int]
  /\ since \in [Jobs -> Nat]
  /\ queue \in 0..Backlog
  /\ accepted \in 0..MaxClients
  /\ steps \in 0..MaxClockSteps
  /\ back \in Nat

\* add_job has set every lastrun; nobody has connected yet.
Init ==
  /\ pc = "select"
  /\ waited = 0
  /\ spent = 0
  /\ i = 1
  /\ age = [j \in Jobs |-> 0]
  /\ since = [j \in Jobs |-> 0]
  /\ queue = 0
  /\ accepted = 0
  /\ steps = 0
  /\ back = 0

-----------------------------------------------------------------------------
(* The loop                                                                *)

\* The next call of select starts with the full timeout.
Select ==
  /\ pc' = "select"
  /\ waited' = 0
  /\ spent' = 0
  /\ i' = 1

\* A connection is served even when the time is up as well.
Accept ==
  /\ pc = "select"
  /\ queue > 0
  /\ accepted < MaxClients \/ Endless
  /\ accepted' = AtMost(accepted + 1, MaxClients)
  /\ queue' = queue - 1
  /\ pc' = "serve"
  /\ spent' = 0
  /\ UNCHANGED <<waited, i, timeVars>>

ServletReturns ==
  /\ pc = "serve"
  /\ Select
  /\ UNCHANGED <<clientVars, timeVars>>

TimerExpires ==
  /\ pc = "select"
  /\ queue = 0
  /\ waited = JobInterval
  /\ pc' = "scan"
  /\ i' = 1
  /\ UNCHANGED <<waited, spent, clientVars, timeVars>>

\* Mutant: a job has to be late by more than its interval.
PastDue(j) == age[j] > Interval[j]

Due(j) == age[j] >= Interval[j]

\* Mutant: the loop over the jobs goes one too far.
CheckJobPastEnd ==
  /\ pc = "scan"
  /\ IF i > N \/ Due(i) THEN pc' = "run" /\ spent' = 0 /\ i' = i
                        ELSE i' = i + 1 /\ UNCHANGED <<pc, spent>>
  /\ UNCHANGED <<waited, clientVars, timeVars>>

CheckJob ==
  /\ pc = "scan"
  /\ i \in Jobs
  /\ IF Due(i) THEN pc' = "run" /\ spent' = 0 /\ i' = i
               ELSE i' = i + 1 /\ UNCHANGED <<pc, spent>>
  /\ UNCHANGED <<waited, clientVars, timeVars>>

\* Mutant: run_jobs runs one job at a time and goes back to select.
OneJobReturns ==
  /\ pc = "run"
  /\ age' = [age EXCEPT ![i] = 0]
  /\ since' = [since EXCEPT ![i] = 0]
  /\ Select
  /\ UNCHANGED <<clientVars, steps, back>>

\* Mutant: run_jobs starts over after every job, until none is due.
JobReturnsToFirst ==
  /\ pc = "run"
  /\ age' = [age EXCEPT ![i] = 0]
  /\ since' = [since EXCEPT ![i] = 0]
  /\ pc' = "scan"
  /\ i' = 1
  /\ UNCHANGED <<waited, spent, clientVars, steps, back>>

\* lastrun is set when the job is done, not when it was due.
JobReturns ==
  /\ pc = "run"
  /\ age' = [age EXCEPT ![i] = 0]
  /\ since' = [since EXCEPT ![i] = 0]
  /\ pc' = "scan"
  /\ i' = i + 1
  /\ UNCHANGED <<waited, spent, clientVars, steps, back>>

ScanDone ==
  /\ pc = "scan"
  /\ i = N + 1
  /\ Select
  /\ UNCHANGED <<clientVars, timeVars>>

Loop == Accept \/ ServletReturns \/ TimerExpires \/ CheckJob \/ JobReturns \/ ScanDone

-----------------------------------------------------------------------------
(* Time and clients                                                        *)

Tick ==
  /\ \/ /\ pc = "select" /\ queue = 0 /\ waited < JobInterval
        /\ waited' = waited + 1
        /\ UNCHANGED spent
     \/ /\ \/ pc = "serve" /\ spent < MaxSession
           \/ pc = "run" /\ spent < MaxRun
        /\ spent' = spent + 1
        /\ UNCHANGED waited
  /\ age' = [j \in Jobs |-> AtMost(age[j] + 1, MaxAge)]
  /\ since' = [j \in Jobs |-> AtMost(since[j] + 1, MaxAge)]
  /\ UNCHANGED <<pc, i, clientVars, steps, back>>

\* With the backlog full a connection is refused.
ClientConnects ==
  /\ queue < Backlog
  /\ queue + accepted < MaxClients \/ Endless
  /\ queue' = queue + 1
  /\ UNCHANGED <<loopVars, timeVars, accepted>>

SetClock ==
  /\ steps < MaxClockSteps
  /\ steps' = steps + 1
  /\ \E d \in ClockSteps :
       /\ age' = [j \in Jobs |-> AtMost(age[j] + d, MaxAge)]
       /\ back' = IF d < 0 THEN back - d ELSE back
  /\ UNCHANGED <<loopVars, clientVars, since>>

Next == Loop \/ Tick \/ ClientConnects \/ SetClock

Spec == Init /\ [][Next]_vars

(***************************************************************************)
(* Time passes, and the thread goes on: a session ends after MaxSession    *)
(* seconds at the latest, which the code leaves to the client.             *)
(***************************************************************************)
Fairness == WF_vars(Loop) /\ WF_vars(Tick)

FairSpec == Spec /\ Fairness

-----------------------------------------------------------------------------
(* Properties                                                              *)

\* The most a job can be behind without clients: it missed one check by a
\* second, then the rest of that scan, the wait, the next scan and its own run.
Latest(j) == (IF Interval[j] > 0 THEN Interval[j] - 1 ELSE 0) + JobInterval + N * MaxRun

\* A job is late by no more than that, plus the session and the timeout that
\* is started anew for every client, plus what the clock was set back.
JobsOnTime ==
  \A j \in Jobs : since[j] <= Latest(j) + accepted * (JobInterval + MaxSession) + back

\* "recurring tasks" (NEWS:17): every job is run again and again.
JobsRecur == \A j \in 1..N : []<>(pc = "run" /\ i = j)

\* A client that connects is served, however many jobs are due.
ClientsServed == queue > 0 ~> pc = "serve"
=============================================================================
