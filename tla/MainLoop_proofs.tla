---------------------------- MODULE MainLoop_proofs ----------------------------
(***************************************************************************)
(* Proofs about the main loop, for any number of jobs, any intervals and   *)
(* any bounds on sessions and runs: the variables keep their types, and a  *)
(* job is never later than its interval, the timeout, one round of the     *)
(* other jobs and what the clients and the clock have cost.                *)
(***************************************************************************)
EXTENDS MainLoop, TLAPS

-----------------------------------------------------------------------------
(* Products, which the provers are to see through these two names only     *)

Runs(n) == n * MaxRun
Sessions(n) == n * (JobInterval + MaxSession)

\* The products are monotone and grow by one term at a time.
LEMMA RunsGrow ==
  /\ \A n \in Int : Runs(n) \in Int /\ Runs(n + 1) = Runs(n) + MaxRun
  /\ \A m, n \in Int : m <= n => Runs(m) <= Runs(n)
  /\ Runs(0) = 0
<1>1. MaxRun \in Nat
  BY MainLoopAssumption
<1>2. \A n \in Int : Runs(n) \in Int /\ Runs(n + 1) = Runs(n) + MaxRun
  BY <1>1 DEF Runs
<1>3. \A m, n \in Int : m <= n => Runs(m) <= Runs(n)
  <2>1. SUFFICES ASSUME NEW m \in Int, NEW n \in Int, m <= n PROVE m * MaxRun <= n * MaxRun
    BY DEF Runs
  <2>2. (n - m) * MaxRun >= 0
    BY <1>1, <2>1
  <2>3. (n - m) * MaxRun = n * MaxRun - m * MaxRun
    BY <1>1
  <2> QED
    BY <1>1, <2>2, <2>3
<1> QED
  BY <1>1, <1>2, <1>3 DEF Runs

\* The same of sessions, which are counted one by one.
LEMMA SessionsGrow ==
  \A n \in Nat : /\ Sessions(n) \in Nat
                 /\ Sessions(n + 1) = Sessions(n) + JobInterval + MaxSession
  BY MainLoopAssumption DEF Sessions

\* What a bounded counter shows.
LEMMA AtMostIs ==
  \A n \in Int : /\ AtMost(n, MaxAge) \in Int
                 /\ AtMost(n, MaxAge) <= MaxAge
                 /\ AtMost(n, MaxAge) <= n
                 /\ n \in Nat => AtMost(n, MaxAge) \in Nat
                 /\ n <= MaxAge => AtMost(n, MaxAge) = n
  BY MainLoopAssumption DEF AtMost

\* A gap between two bounded counters does not grow at the bound.
LEMMA AtMostKeeps ==
  ASSUME NEW a \in Int, NEW s \in Int, NEW b \in Nat, a >= s - b
  PROVE  /\ AtMost(a, MaxAge) >= AtMost(s, MaxAge) - b
         /\ s <= MaxAge => AtMost(a, MaxAge) >= s - b
<1>1. MaxAge \in Nat
  BY MainLoopAssumption
<1> QED
  BY <1>1 DEF AtMost

-----------------------------------------------------------------------------
(* The inductive invariant                                                 *)

\* A session and a run keep to their bounds.
Bounded ==
  /\ pc = "serve" => spent <= MaxSession
  /\ pc = "run" => spent <= MaxRun
  /\ pc = "select" \/ pc = "serve" => waited <= JobInterval
  /\ \A j \in Jobs : since[j] <= MaxAge

\* What the clock shows of the time that passed.
ClockShape == \A j \in Jobs : age[j] >= since[j] - back

\* A job that was not due when it was looked at.
NotDue(j) == IF Interval[j] > 0 THEN Interval[j] - 1 ELSE 0

\* The seconds a job is behind.
Late(j) == since[j] - NotDue(j) - back

\* What one round may cost job j: after it was looked at, the jobs from there to
\* i; before, the wait, the rest of the last round and the jobs before i.
Round(j) == IF j < i THEN Runs(i - 1 - j) ELSE Runs(N - j + i - 1) + JobInterval

\* No job is later than the runs, the wait and the sessions explain.
NotLate ==
  \A j \in Jobs :
    /\ pc = "select" => Late(j) <= Runs(N - j) + waited + Sessions(accepted)
    /\ pc = "serve" => Late(j) <= Runs(N - j) + waited + spent + Sessions(accepted - 1)
    /\ pc = "scan" => Late(j) <= Round(j) + Sessions(accepted)
    /\ pc = "run" => Late(j) <= Round(j) + spent + Sessions(accepted)

ServedClient == pc = "serve" => accepted > 0

Inv == TypeOK /\ Bounded /\ ClockShape /\ ServedClient

-----------------------------------------------------------------------------
(* Every step preserves the inductive invariant                            *)

\* Every step keeps the types.
LEMMA TypePreserved ==
  TypeOK /\ [Next]_vars => TypeOK'
<1> SUFFICES ASSUME TypeOK, [Next]_vars
             PROVE  TypeOK'
  OBVIOUS
<1> USE MainLoopAssumption DEF TypeOK, Jobs, loopVars, timeVars, clientVars
<1>1. CASE Accept
  BY <1>1 DEF Accept, AtMost
<1>2. CASE ServletReturns
  BY <1>2 DEF ServletReturns, Select
<1>3. CASE TimerExpires
  BY <1>3 DEF TimerExpires
<1>4. CASE CheckJob
  <2>1. i \in Jobs /\ UNCHANGED <<waited, queue, accepted, age, since, steps, back>>
    BY <1>4 DEF CheckJob, timeVars, clientVars
  <2>2. CASE Due(i)
    BY <1>4, <2>1, <2>2 DEF CheckJob
  <2>3. CASE ~Due(i)
    BY <1>4, <2>1, <2>3 DEF CheckJob
  <2> QED
    BY <2>2, <2>3
<1>5. CASE JobReturns
  BY <1>5 DEF JobReturns
<1>6. CASE ScanDone
  BY <1>6 DEF ScanDone, Select
<1>7. CASE Tick
  <2>1. /\ UNCHANGED <<pc, i, queue, accepted, steps, back>>
        /\ age' = [j \in Jobs |-> AtMost(age[j] + 1, MaxAge)]
        /\ since' = [j \in Jobs |-> AtMost(since[j] + 1, MaxAge)]
    BY <1>7 DEF Tick, clientVars
  <2>2. \/ waited' = waited + 1 /\ waited < JobInterval /\ spent' = spent
        \/ spent' = spent + 1 /\ waited' = waited
    BY <1>7 DEF Tick
  <2>3. age' \in [Jobs -> Int]
    BY <2>1, AtMostIs
  <2>4. since' \in [Jobs -> Nat]
    <3>1. \A j \in Jobs : since[j] + 1 \in Nat /\ since[j] + 1 \in Int
      OBVIOUS
    <3> QED
      BY <2>1, <3>1, AtMostIs
  <2>5. waited' \in 0..JobInterval /\ spent' \in Nat
    BY <2>2
  <2> QED
    BY <2>1, <2>3, <2>4, <2>5
<1>8. CASE ClientConnects
  BY <1>8 DEF ClientConnects
<1>9. CASE SetClock
  <2>1. PICK d \in ClockSteps :
          /\ age' = [j \in Jobs |-> AtMost(age[j] + d, MaxAge)]
          /\ back' = IF d < 0 THEN back - d ELSE back
    BY <1>9 DEF SetClock
  <2>2. d \in Int
    OBVIOUS
  <2>3. age' \in [Jobs -> Int] /\ back' \in Nat
    BY <2>1, <2>2, AtMostIs
  <2> QED
    BY <1>9, <2>3 DEF SetClock
<1>10. CASE UNCHANGED vars
  BY <1>10 DEF vars
<1> QED
  BY <1>1, <1>2, <1>3, <1>4, <1>5, <1>6, <1>7, <1>8, <1>9, <1>10
     DEF Next, Loop

\* Sessions and runs are cut off at their bounds.
LEMMA BoundsPreserved ==
  TypeOK /\ Bounded /\ ServedClient /\ ~Endless /\ [Next]_vars => Bounded' /\ ServedClient'
<1> SUFFICES ASSUME TypeOK, Bounded, ServedClient, ~Endless, [Next]_vars
             PROVE  Bounded' /\ ServedClient'
  OBVIOUS
<1> USE MainLoopAssumption DEF TypeOK, Bounded, ServedClient, Jobs, loopVars, timeVars,
    clientVars
<1>1. CASE Accept
  BY <1>1 DEF Accept, AtMost
<1>2. CASE ServletReturns
  BY <1>2 DEF ServletReturns, Select
<1>3. CASE TimerExpires
  BY <1>3 DEF TimerExpires
<1>4. CASE CheckJob
  BY <1>4 DEF CheckJob, Due
<1>5. CASE JobReturns
  BY <1>5 DEF JobReturns
<1>6. CASE ScanDone
  BY <1>6 DEF ScanDone, Select
<1>7. CASE Tick
  <2>1. \A j \in Jobs : since'[j] <= MaxAge
    BY <1>7, AtMostIs DEF Tick
  <2>2. pc' = pc /\ accepted' = accepted
    BY <1>7 DEF Tick
  <2>3. /\ pc = "serve" => spent' <= MaxSession
        /\ pc = "run" => spent' <= MaxRun
        /\ pc = "select" \/ pc = "serve" => waited' <= JobInterval
    BY <1>7 DEF Tick
  <2> QED
    BY <2>1, <2>2, <2>3
<1>8. CASE ClientConnects
  BY <1>8 DEF ClientConnects
<1>9. CASE SetClock
  BY <1>9 DEF SetClock, AtMost
<1>10. CASE UNCHANGED vars
  BY <1>10 DEF vars
<1> QED
  BY <1>1, <1>2, <1>3, <1>4, <1>5, <1>6, <1>7, <1>8, <1>9, <1>10
     DEF Next, Loop

\* Time passes for the clock and for the counter alike.
LEMMA TickKeepsClock == TypeOK /\ ClockShape /\ Tick => ClockShape'
<1> SUFFICES ASSUME TypeOK, ClockShape, Tick, NEW j \in Jobs
             PROVE  age'[j] >= since'[j] - back'
  BY DEF ClockShape
<1>1. /\ age'[j] = AtMost(age[j] + 1, MaxAge)
      /\ since'[j] = AtMost(since[j] + 1, MaxAge)
      /\ back' = back
  BY DEF Tick
<1>2. age[j] \in Int /\ since[j] \in Nat /\ back \in Nat
  BY DEF TypeOK
<1>3. age[j] + 1 \in Int /\ since[j] + 1 \in Int /\ age[j] + 1 >= since[j] + 1 - back
  BY <1>2 DEF ClockShape
<1> QED
  BY <1>1, <1>2, <1>3, AtMostKeeps

\* A clock that is set back hides no more time than that.
LEMMA SetClockKeepsClock == TypeOK /\ Bounded /\ ClockShape /\ SetClock => ClockShape'
<1> SUFFICES ASSUME TypeOK, Bounded, ClockShape, SetClock, NEW j \in Jobs
             PROVE  age'[j] >= since'[j] - back'
  BY DEF ClockShape
<1>1. PICK d \in ClockSteps : /\ age' = [k \in Jobs |-> AtMost(age[k] + d, MaxAge)]
                              /\ back' = IF d < 0 THEN back - d ELSE back
  BY DEF SetClock
<1>2. d \in Int /\ since' = since
  BY MainLoopAssumption DEF SetClock
<1>3. age[j] \in Int /\ since[j] \in Nat /\ back \in Nat
  BY DEF TypeOK
<1>4. age[j] >= since[j] - back /\ since[j] <= MaxAge
  BY DEF ClockShape, Bounded
<1>5. back' \in Nat /\ back' >= back /\ back' >= back - d
  BY <1>1, <1>2, <1>3
<1>6. age[j] + d \in Int /\ age[j] + d >= since[j] - back'
  BY <1>2, <1>3, <1>4, <1>5
<1>7. AtMost(age[j] + d, MaxAge) >= since[j] - back'
  BY <1>3, <1>4, <1>5, <1>6, AtMostKeeps
<1> QED
  BY <1>1, <1>2, <1>7

\* What the clock shows stays close to the time that passed.
LEMMA ClockPreserved ==
  TypeOK /\ Bounded /\ ClockShape /\ [Next]_vars => ClockShape'
<1> SUFFICES ASSUME TypeOK, Bounded, ClockShape, [Next]_vars
             PROVE  ClockShape'
  OBVIOUS
<1> USE DEF TypeOK, ClockShape, loopVars, timeVars, clientVars
<1>1. CASE Accept
  BY <1>1 DEF Accept, AtMost
<1>2. CASE ServletReturns
  BY <1>2 DEF ServletReturns, Select
<1>3. CASE TimerExpires
  BY <1>3 DEF TimerExpires
<1>4. CASE CheckJob
  BY <1>4 DEF CheckJob, Due
<1>5. CASE JobReturns
  BY <1>5 DEF JobReturns
<1>6. CASE ScanDone
  BY <1>6 DEF ScanDone, Select
<1>7. CASE Tick
  BY <1>7, TickKeepsClock
<1>8. CASE ClientConnects
  BY <1>8 DEF ClientConnects
<1>9. CASE SetClock
  BY <1>9, SetClockKeepsClock
<1>10. CASE UNCHANGED vars
  BY <1>10 DEF vars
<1> QED
  BY <1>1, <1>2, <1>3, <1>4, <1>5, <1>6, <1>7, <1>8, <1>9, <1>10
     DEF Next, Loop

\* The terms of NotLate are numbers.
LEMMA LateType ==
  ASSUME TypeOK, NEW j \in Jobs
  PROVE  /\ Late(j) \in Int
         /\ NotDue(j) \in Nat
         /\ Round(j) \in Int
         /\ Runs(N - j) \in Int
         /\ Sessions(accepted) \in Nat
<1>1. since[j] \in Nat /\ back \in Nat /\ i \in Int /\ N \in Nat /\ j \in Int
  BY MainLoopAssumption DEF TypeOK, Jobs
<1>2. Interval[j] \in Int /\ JobInterval \in Nat
  BY MainLoopAssumption DEF Jobs
<1>3. NotDue(j) \in Nat
  BY <1>2 DEF NotDue
<1>4. Runs(N - j) \in Int /\ Runs(i - 1 - j) \in Int /\ Runs(N - j + i - 1) \in Int
  BY <1>1, RunsGrow
<1>5. Sessions(accepted) \in Nat
  <2>1. accepted \in Nat
    BY MainLoopAssumption DEF TypeOK
  <2> QED
    BY <2>1, SessionsGrow
<1> QED
  BY <1>1, <1>2, <1>3, <1>4, <1>5 DEF Late, Round

\* A round starts with the wait and the rest of the last one behind it, and
\* leaves the runs of the jobs that follow.
LEMMA RoundEnds ==
  ASSUME NEW j \in Jobs
  PROVE  /\ i = 1 => Round(j) = Runs(N - j) + JobInterval
         /\ i = N + 1 => Round(j) = Runs(N - j)
<1>1. N \in Nat /\ j \in 1..N
  BY MainLoopAssumption DEF Jobs
<1>2. i = 1 => ~(j < i) /\ N - j + i - 1 = N - j
  BY <1>1
<1>3. i = N + 1 => j < i /\ i - 1 - j = N - j
  BY <1>1
<1> QED
  BY <1>2, <1>3 DEF Round

\* The step to the next job costs the others one run at most; the job itself
\* starts from nothing.
LEMMA RoundSteps ==
  ASSUME TypeOK, i' = i + 1, NEW j \in Jobs
  PROVE  /\ j # i => Round(j)' = Round(j) + MaxRun
         /\ j = i => Round(j)' = 0
<1>1. i \in Int /\ N \in Nat /\ j \in Int /\ MaxRun \in Nat /\ JobInterval \in Nat
  BY MainLoopAssumption DEF TypeOK, Jobs
<1>2. Round(j)' = IF j < i' THEN Runs(i' - 1 - j) ELSE Runs(N - j + i' - 1) + JobInterval
  BY Zenon DEF Round, Runs
<1>3. CASE j < i
  <2>1. /\ i - 1 - j \in Int
        /\ i' - 1 - j = i - 1 - j + 1
        /\ j < i' /\ j # i
    BY <1>1, <1>3
  <2>2. Runs(i - 1 - j + 1) = Runs(i - 1 - j) + MaxRun
    BY <2>1, RunsGrow
  <2>3. Round(j)' = Runs(i' - 1 - j) /\ Round(j) = Runs(i - 1 - j)
    BY <1>2, <1>3, <2>1, Zenon DEF Round
  <2> QED
    BY <2>1, <2>2, <2>3
<1>4. CASE j = i
  <2>1. i' - 1 - j = 0 /\ j < i'
    BY <1>1, <1>4
  <2>2. Round(j)' = Runs(i' - 1 - j)
    BY <1>2, <2>1, Zenon
  <2> QED
    BY <1>4, <2>1, <2>2, RunsGrow
<1>5. CASE j > i
  <2>1. /\ N - j + i - 1 \in Int
        /\ N - j + i' - 1 = N - j + i - 1 + 1
        /\ ~(j < i') /\ ~(j < i) /\ j # i
    BY <1>1, <1>5
  <2>2. Runs(N - j + i - 1 + 1) = Runs(N - j + i - 1) + MaxRun /\ Runs(N - j + i - 1) \in Int
    BY <2>1, RunsGrow
  <2>3. /\ Round(j)' = Runs(N - j + i' - 1) + JobInterval
        /\ Round(j) = Runs(N - j + i - 1) + JobInterval
    BY <1>2, <2>1, Zenon DEF Round
  <2> QED
    BY <1>1, <2>1, <2>2, <2>3
<1> QED
  BY <1>1, <1>3, <1>4, <1>5

\* A job that is not due is not behind, whatever was done to the clock.
LEMMA NotDueNotLate ==
  ASSUME TypeOK, ClockShape, NEW j \in Jobs, ~Due(j)
  PROVE  Late(j) <= 0
<1>1. age[j] \in Int /\ since[j] \in Nat /\ back \in Nat /\ Interval[j] \in Int
  BY MainLoopAssumption DEF TypeOK, Jobs
<1>2. age[j] >= since[j] - back /\ age[j] < Interval[j]
  BY <1>1 DEF ClockShape, Due
<1> QED
  BY <1>1, <1>2 DEF Late, NotDue

\* The lateness of a job changes with its counter and with the clock only.
LEMMA SameLate ==
  ASSUME NEW j \in Jobs, UNCHANGED <<since, back>> PROVE Late(j)' = Late(j)
  BY DEF Late, NotDue

\* The terms of NotLate are numbers, in every state the invariant allows.
LEMMA Numbers ==
  ASSUME TypeOK, NEW j \in Jobs
  PROVE  /\ Late(j) \in Int /\ Round(j) \in Int /\ Runs(N - j) \in Int
         /\ Sessions(accepted) \in Nat /\ spent \in Nat /\ waited \in Nat
         /\ MaxRun \in Nat /\ MaxSession \in Nat /\ JobInterval \in Nat
  BY LateType, MainLoopAssumption DEF TypeOK

\* A client that is accepted is paid for when its session ends.
LEMMA AcceptNotLate == ~Endless /\ TypeOK /\ NotLate /\ Accept => NotLate'
<1> SUFFICES ASSUME ~Endless, TypeOK, NotLate, Accept, NEW j \in Jobs
             PROVE  Late(j)' <= Runs(N - j) + waited' + spent' + Sessions(accepted' - 1)
  BY DEF NotLate, Accept, Runs, Sessions
<1>1. /\ pc = "select" /\ pc' = "serve" /\ spent' = 0 /\ waited' = waited
      /\ UNCHANGED <<since, back>>
  BY DEF Accept, timeVars
<1>2. accepted' = accepted + 1 /\ accepted \in Nat
  BY MainLoopAssumption DEF Accept, AtMost, TypeOK
<1>3. Late(j) <= Runs(N - j) + waited + Sessions(accepted)
  BY <1>1 DEF NotLate
<1>4. accepted' - 1 = accepted
  BY <1>2
<1> QED
  BY <1>1, <1>3, <1>4, SameLate, Numbers

\* The wait before the session and the session are within what is paid.
LEMMA ServedNotLate ==
  TypeOK /\ Bounded /\ ServedClient /\ NotLate /\ ServletReturns => NotLate'
<1> SUFFICES ASSUME TypeOK, Bounded, ServedClient, NotLate, ServletReturns, NEW j \in Jobs
             PROVE  Late(j)' <= Runs(N - j) + waited' + Sessions(accepted')
  BY DEF NotLate, ServletReturns, Select, Runs, Sessions
<1>1. /\ pc = "serve" /\ waited' = 0 /\ accepted' = accepted
      /\ UNCHANGED <<since, back>>
  BY DEF ServletReturns, Select, timeVars, clientVars
<1>2. spent <= MaxSession /\ waited <= JobInterval
  BY <1>1 DEF Bounded
<1>3. accepted - 1 \in Nat /\ accepted - 1 + 1 = accepted
  BY <1>1, MainLoopAssumption DEF TypeOK, ServedClient
<1>4. Sessions(accepted) = Sessions(accepted - 1) + JobInterval + MaxSession
  BY <1>3, SessionsGrow
<1>5. Late(j) <= Runs(N - j) + waited + spent + Sessions(accepted - 1)
  BY <1>1 DEF NotLate
<1>6. Sessions(accepted - 1) \in Nat
  BY <1>3, SessionsGrow
<1> QED
  BY <1>1, <1>2, <1>4, <1>5, <1>6, SameLate, Numbers

\* The whole timeout has passed when a round starts.
LEMMA RoundNotLate == TypeOK /\ NotLate /\ TimerExpires => NotLate'
<1> SUFFICES ASSUME TypeOK, NotLate, TimerExpires, NEW j \in Jobs
             PROVE  Late(j)' <= Round(j)' + Sessions(accepted')
  BY DEF NotLate, TimerExpires, Runs, Sessions
<1>1. /\ pc = "select" /\ waited = JobInterval /\ accepted' = accepted
      /\ UNCHANGED <<since, back>>
  BY DEF TimerExpires, timeVars, clientVars
<1>2. Round(j)' = Runs(N - j) + JobInterval
  <2>1. i' = 1 /\ ~(j < i') /\ N - j + i' - 1 = N - j
    BY MainLoopAssumption DEF TimerExpires, Jobs
  <2>2. Round(j)' = Runs(N - j + i' - 1) + JobInterval
    BY <2>1, Zenon DEF Round, Runs
  <2> QED
    BY <2>1, <2>2
<1>3. Late(j) <= Runs(N - j) + waited + Sessions(accepted)
  BY <1>1 DEF NotLate
<1> QED
  BY <1>1, <1>2, <1>3, SameLate, Numbers

\* Only a job that is not due is passed over.
LEMMA CheckNotLate == TypeOK /\ ClockShape /\ NotLate /\ CheckJob => NotLate'
<1> SUFFICES ASSUME TypeOK, ClockShape, NotLate, CheckJob PROVE NotLate'
  OBVIOUS
<1>1. /\ pc = "scan" /\ i \in Jobs /\ UNCHANGED <<since, back, accepted>>
  BY DEF CheckJob, timeVars, clientVars
<1>2. CASE Due(i)
  <2>1. pc' = "run" /\ spent' = 0 /\ i' = i
    BY <1>2 DEF CheckJob
  <2> SUFFICES ASSUME NEW j \in Jobs
               PROVE  Late(j)' <= Round(j)' + spent' + Sessions(accepted')
    BY <2>1 DEF NotLate, Runs, Sessions
  <2>2. Late(j) <= Round(j) + Sessions(accepted)
    BY <1>1 DEF NotLate
  <2>3. Round(j)' = Round(j)
    BY <2>1 DEF Round, Runs
  <2> QED
    BY <1>1, <2>1, <2>2, <2>3, SameLate, Numbers
<1>3. CASE ~Due(i)
  <2>1. pc' = "scan" /\ i' = i + 1
    BY <1>1, <1>3 DEF CheckJob
  <2> SUFFICES ASSUME NEW j \in Jobs
               PROVE  Late(j)' <= Round(j)' + Sessions(accepted')
    BY <2>1 DEF NotLate, Runs, Sessions
  <2>2. CASE j = i
    BY <1>1, <1>3, <2>1, <2>2, NotDueNotLate, RoundSteps, SameLate, Numbers
  <2>3. CASE j # i
    <3>1. Late(j) <= Round(j) + Sessions(accepted)
      BY <1>1 DEF NotLate
    <3>2. Round(j)' = Round(j) + MaxRun
      BY <2>1, <2>3, RoundSteps
    <3> QED
      BY <1>1, <3>1, <3>2, SameLate, Numbers
  <2> QED
    BY <2>2, <2>3
<1> QED
  BY <1>2, <1>3

\* A run is paid for by the jobs that had to wait for it.
LEMMA ReturnNotLate == TypeOK /\ Bounded /\ NotLate /\ JobReturns => NotLate'
<1> SUFFICES ASSUME TypeOK, Bounded, NotLate, JobReturns, NEW j \in Jobs
             PROVE  Late(j)' <= Round(j)' + Sessions(accepted')
  BY DEF NotLate, JobReturns, Runs, Sessions
<1>1. /\ pc = "run" /\ i \in Jobs /\ i' = i + 1
      /\ accepted' = accepted /\ back' = back
      /\ since' = [since EXCEPT ![i] = 0]
  BY DEF JobReturns, clientVars, TypeOK
<1>2. CASE j = i
  <2>1. since'[j] = 0
    BY <1>1, <1>2 DEF TypeOK
  <2>2. Late(j)' <= 0 /\ Late(j)' \in Int
    <3>1. back \in Nat /\ NotDue(j) \in Nat
      BY LateType DEF TypeOK
    <3>2. Late(j)' = 0 - NotDue(j) - back
      BY <1>1, <2>1 DEF Late, NotDue
    <3> QED
      BY <3>1, <3>2
  <2>3. Round(j)' = 0
    BY <1>1, <1>2, RoundSteps
  <2> QED
    BY <1>1, <2>2, <2>3, Numbers
<1>3. CASE j # i
  <2>1. Late(j)' = Late(j)
    BY <1>1, <1>3 DEF Late, NotDue, TypeOK
  <2>2. Late(j) <= Round(j) + spent + Sessions(accepted) /\ spent <= MaxRun
    BY <1>1 DEF NotLate, Bounded
  <2>3. Round(j)' = Round(j) + MaxRun
    BY <1>1, <1>3, RoundSteps
  <2> QED
    BY <1>1, <2>1, <2>2, <2>3, Numbers
<1> QED
  BY <1>2, <1>3

\* What a round leaves behind is where the next wait starts.
LEMMA ScanNotLate == TypeOK /\ NotLate /\ ScanDone => NotLate'
<1> SUFFICES ASSUME TypeOK, NotLate, ScanDone, NEW j \in Jobs
             PROVE  Late(j)' <= Runs(N - j) + waited' + Sessions(accepted')
  BY DEF NotLate, ScanDone, Select, Runs, Sessions
<1>1. /\ pc = "scan" /\ waited' = 0 /\ i = N + 1 /\ accepted' = accepted
      /\ UNCHANGED <<since, back>>
  BY DEF ScanDone, Select, timeVars, clientVars
<1>2. Late(j) <= Round(j) + Sessions(accepted)
  BY <1>1 DEF NotLate
<1> QED
  BY <1>1, <1>2, RoundEnds, SameLate, Numbers

\* A second that passes is counted on both sides.
LEMMA TickNotLate == TypeOK /\ NotLate /\ Tick => NotLate'
<1> SUFFICES ASSUME TypeOK, NotLate, Tick PROVE NotLate'
  OBVIOUS
<1>1. ASSUME NEW j \in Jobs PROVE Late(j)' <= Late(j) + 1 /\ Late(j)' \in Int
  <2>1. since[j] \in Nat /\ back \in Nat /\ NotDue(j) \in Nat
    BY LateType DEF TypeOK
  <2>2. since'[j] = AtMost(since[j] + 1, MaxAge) /\ back' = back
    BY DEF Tick
  <2>3. since'[j] \in Int /\ since'[j] <= since[j] + 1
    BY <2>1, <2>2, AtMostIs
  <2>4. Late(j)' = since'[j] - NotDue(j) - back
    BY <2>2 DEF Late, NotDue
  <2> QED
    BY <2>1, <2>3, <2>4 DEF Late
<1>2. pc' = pc /\ i' = i /\ accepted' = accepted
  BY DEF Tick, clientVars
<1>3. \/ pc = "select" /\ waited' = waited + 1
      \/ pc \in {"serve", "run"} /\ spent' = spent + 1 /\ waited' = waited
  BY DEF Tick
<1>4. ASSUME NEW j \in Jobs PROVE Round(j)' = Round(j)
  BY <1>2 DEF Round, Runs
<1>5. CASE pc = "select"
  <2> SUFFICES ASSUME NEW j \in Jobs
               PROVE  Late(j)' <= Runs(N - j) + waited' + Sessions(accepted')
    BY <1>2, <1>5 DEF NotLate, Runs, Sessions
  <2>1. Late(j) <= Runs(N - j) + waited + Sessions(accepted)
    BY <1>5 DEF NotLate
  <2> QED
    BY <1>1, <1>2, <1>3, <1>5, <2>1, Numbers
<1>6. CASE pc = "serve"
  <2> SUFFICES ASSUME NEW j \in Jobs
               PROVE  Late(j)' <= Runs(N - j) + waited' + spent' + Sessions(accepted' - 1)
    BY <1>2, <1>6 DEF NotLate, Runs, Sessions
  <2>1. Late(j) <= Runs(N - j) + waited + spent + Sessions(accepted - 1)
    BY <1>6 DEF NotLate
  <2>2. Sessions(accepted - 1) \in Int
    BY MainLoopAssumption DEF Sessions, TypeOK
  <2> QED
    BY <1>1, <1>2, <1>3, <1>6, <2>1, <2>2, Numbers
<1>7. CASE pc = "run"
  <2> SUFFICES ASSUME NEW j \in Jobs
               PROVE  Late(j)' <= Round(j)' + spent' + Sessions(accepted')
    BY <1>2, <1>7 DEF NotLate, Runs, Sessions
  <2>1. Late(j) <= Round(j) + spent + Sessions(accepted)
    BY <1>7 DEF NotLate
  <2> QED
    BY <1>1, <1>2, <1>3, <1>4, <1>7, <2>1, Numbers
<1> QED
  BY <1>3, <1>5, <1>6, <1>7

\* A clock that is set back makes no job later than the bound, which counts it.
LEMMA SetClockNotLate == TypeOK /\ NotLate /\ SetClock => NotLate'
<1> SUFFICES ASSUME TypeOK, NotLate, SetClock PROVE NotLate'
  OBVIOUS
<1>1. UNCHANGED <<pc, waited, spent, i, accepted, since>>
  BY DEF SetClock, loopVars, clientVars
<1>2. back' \in Nat /\ back' >= back
  BY MainLoopAssumption DEF SetClock, TypeOK
<1>3. ASSUME NEW j \in Jobs PROVE Late(j)' <= Late(j) /\ Late(j)' \in Int
  <2>1. since[j] \in Nat /\ back \in Nat /\ NotDue(j) \in Nat
    BY LateType DEF TypeOK
  <2>2. Late(j)' = since[j] - NotDue(j) - back'
    BY <1>1 DEF Late, NotDue
  <2> QED
    BY <1>2, <2>1, <2>2 DEF Late
<1>4. ASSUME NEW j \in Jobs PROVE Round(j)' = Round(j)
  BY <1>1 DEF Round, Runs
<1>5. Sessions(accepted - 1) \in Int
  BY MainLoopAssumption DEF Sessions, TypeOK
<1>6. ASSUME NEW j \in Jobs
      PROVE  /\ pc = "select" => Late(j)' <= Runs(N - j) + waited + Sessions(accepted)
             /\ pc = "serve" => Late(j)' <= Runs(N - j) + waited + spent + Sessions(accepted - 1)
             /\ pc = "scan" => Late(j)' <= Round(j)' + Sessions(accepted)
             /\ pc = "run" => Late(j)' <= Round(j)' + spent + Sessions(accepted)
  BY <1>3, <1>4, <1>5, Numbers DEF NotLate
<1> QED
  BY <1>1, <1>6 DEF NotLate, Runs, Sessions

\* Every second a job waits is explained by the wait, a run or a session.
LEMMA NotLatePreserved ==
  ~Endless /\ Inv /\ NotLate /\ [Next]_vars => NotLate'
<1> SUFFICES ASSUME ~Endless, Inv, NotLate, [Next]_vars
             PROVE  NotLate'
  OBVIOUS
<1>1. CASE Accept
  BY <1>1, AcceptNotLate DEF Inv
<1>2. CASE ServletReturns
  BY <1>2, ServedNotLate DEF Inv
<1>3. CASE TimerExpires
  BY <1>3, RoundNotLate DEF Inv
<1>4. CASE CheckJob
  BY <1>4, CheckNotLate DEF Inv
<1>5. CASE JobReturns
  BY <1>5, ReturnNotLate DEF Inv
<1>6. CASE ScanDone
  BY <1>6, ScanNotLate DEF Inv
<1>7. CASE Tick
  BY <1>7, TickNotLate DEF Inv
<1>8. CASE ClientConnects
  BY <1>8 DEF NotLate, Late, NotDue, Round, Runs, Sessions, ClientConnects, loopVars, timeVars
<1>9. CASE SetClock
  BY <1>9, SetClockNotLate DEF Inv
<1>10. CASE UNCHANGED vars
  BY <1>10 DEF vars, NotLate, Late, NotDue, Round, Runs, Sessions
<1> QED
  BY <1>1, <1>2, <1>3, <1>4, <1>5, <1>6, <1>7, <1>8, <1>9, <1>10
     DEF Next, Loop

-----------------------------------------------------------------------------
(* The theorems                                                            *)

\* No job has waited when the loop starts.
LEMMA InitHolds == Init => Inv /\ NotLate
<1> SUFFICES ASSUME Init PROVE Inv /\ NotLate
  OBVIOUS
<1>1. Inv
  BY MainLoopAssumption DEF Init, Inv, TypeOK, Bounded, ClockShape, ServedClient, Jobs
<1>2. pc = "select" /\ waited = 0 /\ accepted = 0
  BY DEF Init
<1>3. ASSUME NEW j \in Jobs
      PROVE  Late(j) <= Runs(N - j) + waited + Sessions(accepted)
  <2>1. NotDue(j) \in Nat /\ Late(j) = 0 - NotDue(j) - 0
    BY <1>1, LateType DEF Inv, Init, Late
  <2>2. N - j \in Nat
    BY MainLoopAssumption DEF Jobs
  <2>3. Runs(N - j) >= 0
    BY <2>2, RunsGrow
  <2>4. Runs(N - j) \in Int /\ Sessions(accepted) \in Nat
    BY <1>1, LateType DEF Inv
  <2> QED
    BY <1>2, <2>1, <2>3, <2>4
<1> QED
  BY <1>1, <1>2, <1>3 DEF NotLate

\* A round costs no job more than the wait and the runs of the others.
LEMMA RoundBounded ==
  ASSUME TypeOK, NEW j \in Jobs
  PROVE  Round(j) + MaxRun <= Runs(N) + JobInterval
<1>1. N \in Nat /\ i \in 1..(N + 1) /\ j \in 1..N /\ JobInterval \in Nat /\ MaxRun \in Nat
  BY MainLoopAssumption DEF TypeOK, Jobs
<1>2. Runs(N - 1 + 1) = Runs(N - 1) + MaxRun /\ Runs(N - 1) \in Int
  <2>1. N - 1 \in Int
    BY <1>1
  <2> QED
    BY <2>1, RunsGrow
<1>3. N - 1 + 1 = N
  BY <1>1
<1>4. CASE j < i
  <2>1. i - 1 - j \in Int /\ N - 1 \in Int /\ i - 1 - j <= N - 1
    BY <1>1, <1>4
  <2>2. Runs(i - 1 - j) <= Runs(N - 1) /\ Runs(i - 1 - j) \in Int
    BY <2>1, RunsGrow
  <2>3. Round(j) = Runs(i - 1 - j)
    BY <1>4 DEF Round
  <2> QED
    BY <1>1, <1>2, <1>3, <2>2, <2>3
<1>5. CASE ~(j < i)
  <2>1. N - j + i - 1 \in Int /\ N - 1 \in Int /\ N - j + i - 1 <= N - 1
    BY <1>1, <1>5
  <2>2. Runs(N - j + i - 1) <= Runs(N - 1) /\ Runs(N - j + i - 1) \in Int
    BY <2>1, RunsGrow
  <2>3. Round(j) = Runs(N - j + i - 1) + JobInterval
    BY <1>5 DEF Round
  <2> QED
    BY <1>1, <1>2, <1>3, <2>2, <2>3
<1> QED
  BY <1>4, <1>5

\* What explains the lateness of a job is bounded in every state of the loop.
LEMMA LateBounded ==
  ASSUME Inv, NotLate, NEW j \in Jobs
  PROVE  Late(j) <= Runs(N) + JobInterval + Sessions(accepted)
<1>1. /\ Late(j) \in Int /\ Round(j) \in Int /\ Runs(N - j) \in Int
      /\ Sessions(accepted) \in Nat /\ spent \in Nat /\ waited \in Nat
      /\ MaxRun \in Nat /\ MaxSession \in Nat /\ JobInterval \in Nat
  BY Numbers DEF Inv
<1>2. Round(j) + MaxRun <= Runs(N) + JobInterval
  BY RoundBounded DEF Inv
<1>3. Runs(N) \in Int /\ Runs(N - j) <= Runs(N)
  <2>1. N \in Int /\ N - j \in Int /\ N - j <= N
    BY MainLoopAssumption DEF Jobs
  <2> QED
    BY <2>1, RunsGrow
<1>4. CASE pc = "select"
  BY <1>1, <1>3, <1>4 DEF Inv, NotLate, Bounded
<1>5. CASE pc = "serve"
  <2>1. accepted - 1 \in Nat /\ accepted - 1 + 1 = accepted
    BY <1>5, MainLoopAssumption DEF Inv, TypeOK, ServedClient
  <2>2. /\ Sessions(accepted - 1) \in Nat
        /\ Sessions(accepted) = Sessions(accepted - 1) + JobInterval + MaxSession
    BY <2>1, SessionsGrow
  <2>3. Late(j) <= Runs(N - j) + waited + spent + Sessions(accepted - 1)
    BY <1>5 DEF NotLate
  <2>4. waited <= JobInterval /\ spent <= MaxSession
    BY <1>5 DEF Inv, Bounded
  <2> QED
    BY <1>1, <1>3, <2>2, <2>3, <2>4
<1>6. CASE pc = "scan"
  BY <1>1, <1>2, <1>3, <1>6 DEF NotLate
<1>7. CASE pc = "run"
  BY <1>1, <1>2, <1>3, <1>7 DEF Inv, NotLate, Bounded
<1> QED
  BY <1>4, <1>5, <1>6, <1>7 DEF Inv, TypeOK

\* The bound of the property is the one the inductive invariant gives.
LEMMA NotLateIsOnTime == Inv /\ NotLate => JobsOnTime
<1> SUFFICES ASSUME Inv, NotLate, NEW j \in Jobs
             PROVE  since[j] <= Latest(j) + accepted * (JobInterval + MaxSession) + back
  BY DEF JobsOnTime
<1>1. Late(j) <= Runs(N) + JobInterval + Sessions(accepted)
  BY LateBounded
<1>2. /\ since[j] \in Nat /\ back \in Nat /\ NotDue(j) \in Nat /\ JobInterval \in Nat
      /\ Sessions(accepted) \in Nat
  BY LateType, MainLoopAssumption DEF Inv, TypeOK
<1>3. Runs(N) \in Int
  BY RunsGrow, MainLoopAssumption
<1>4. Late(j) = since[j] - NotDue(j) - back
  BY DEF Late
<1>5. since[j] <= NotDue(j) + JobInterval + Runs(N) + Sessions(accepted) + back
  BY <1>1, <1>2, <1>3, <1>4
<1>6. Latest(j) = NotDue(j) + JobInterval + Runs(N)
  BY DEF Latest, NotDue, Runs
<1>7. Sessions(accepted) = accepted * (JobInterval + MaxSession)
  BY DEF Sessions
<1> QED
  BY <1>5, <1>6, <1>7

\* The loop keeps its variables in their types, whatever the intervals are.
THEOREM TypeCorrect == Spec => []TypeOK
<1>1. Init => TypeOK
  BY InitHolds DEF Inv
<1>2. TypeOK /\ [Next]_vars => TypeOK'
  BY TypePreserved
<1> QED
  BY <1>1, <1>2, PTL DEF Spec

\* The loop of main.c with run_jobs keeps every job within its bound: what a
\* job is late is the timeout, a round, the clients served and the clock set back.
THEOREM JobsOnTimeHolds == ASSUME ~Endless PROVE Spec => []JobsOnTime
<1>1. Init => Inv /\ NotLate
  BY InitHolds
<1>2. Inv /\ NotLate /\ [Next]_vars => Inv' /\ NotLate'
  BY TypePreserved, BoundsPreserved, ClockPreserved, NotLatePreserved DEF Inv
<1>3. Inv /\ NotLate => JobsOnTime
  BY NotLateIsOnTime
<1> QED
  BY <1>1, <1>2, <1>3, PTL DEF Spec
=============================================================================
