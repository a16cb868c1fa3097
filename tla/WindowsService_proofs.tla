------------------------- MODULE WindowsService_proofs -------------------------
(***************************************************************************)
(* Proofs about the Windows service, for any number of starts, lines and   *)
(* reports: what threads and processes without a lock do to serviceStatus  *)
(* and to the log.                                                         *)
(***************************************************************************)
EXTENDS WindowsService, FiniteSetTheorems, TLAPS

-----------------------------------------------------------------------------
(* The inductive invariant                                                 *)

Starting == {"main", "started", "ready"}

\* What the manager knows bounds what the threads can be at: a service starts
\* while it is pending, and has a control only while it runs.
ControlShape ==
  /\ \A p, q \in current : p = q
  /\ \A p \in current : worker[p] # "none"
  /\ \A p \in Procs :
       /\ worker[p] \in Starting => p \in current /\ scm = "START_PENDING"
       /\ handler[p] # "idle" => p \in current /\ scm = "RUNNING"

\* serviceStatus follows the worker until the service runs, and controlHandler
\* from then on: the manager is told of a stop only after it is set.
StateShape ==
  \A p \in Procs :
    /\ worker[p] \in {"none", "main"} => state[p] = "none"
    /\ worker[p] \in {"started", "ready"} => state[p] = "START_PENDING"
    /\ handler[p] = "report" => state[p] = "STOPPED"
    /\ worker[p] \in {"loop", "report"} /\ Stopped(p) => state[p] = "STOPPED"

\* Late lines are those of the report the worker was at when the service stopped.
LateShape ==
  \A p \in Procs :
    /\ late[p] > 0 => Stopped(p) /\ worker[p] # "none"
    /\ worker[p] = "report" => late[p] < line[p]
    /\ late[p] <= Lines

\* The worker of the service that runs has found an end that is none any more.
Overtaken ==
  \E p \in current :
    /\ scm # "STOPPED"
    /\ worker[p] \in {"started", "report"}
    /\ at[p]["worker"] \notin {-1, log}

\* Each aside is an excuse for one lost line, its own or the one it overtook.
LogShape ==
  /\ \A p \in Procs :
       worker[p] \notin {"started", "report", "done"} => at[p]["worker"] = -1
  /\ written - log + (IF Overtaken THEN 1 ELSE 0) <= asides

Inv == TypeOK /\ ControlShape /\ StateShape /\ LateShape /\ LogShape

-----------------------------------------------------------------------------
(* A line that is written, or not                                          *)

\* What writeToLog does for one line, if it can open the log.
WritesOrFails(p, t) == WriteLine(p, t) \/ LogFails(p, t)

\* The types of what a line changes.
LEMMA WriteTypes ==
  ASSUME TypeOK, NEW p \in Procs, NEW t \in Threads, WritesOrFails(p, t)
  PROVE  /\ at' \in [Procs -> [Threads -> Nat \cup {-1}]]
         /\ log' \in 0..written'
         /\ written' \in Nat
         /\ asides' \in Nat
         /\ late' \in [Procs -> Nat]
<1>1. CASE WriteLine(p, t)
  <2>1. at[p] \in [Threads -> Nat \cup {-1}]
    BY DEF TypeOK
  <2>2. at' \in [Procs -> [Threads -> Nat \cup {-1}]]
    BY <1>1, <2>1 DEF WriteLine, TypeOK
  <2>3. late' \in [Procs -> Nat]
    BY <1>1 DEF WriteLine, TypeOK
  <2> QED
    BY <1>1, <2>2, <2>3 DEF WriteLine, LengthAfter, TypeOK
<1>2. CASE LogFails(p, t)
  BY <1>2 DEF LogFails, logVars, TypeOK
<1> QED
  BY <1>1, <1>2 DEF WritesOrFails

\* Only a late worker's line is counted as late.
LEMMA WriteLate ==
  ASSUME TypeOK, NEW p \in Procs, NEW t \in Threads, WritesOrFails(p, t)
  PROVE  /\ \A q \in Procs : q # p => late'[q] = late[q]
         /\ late'[p] = late[p] \/ (t = "worker" /\ Stopped(p) /\ late'[p] = late[p] + 1)
  BY DEF WritesOrFails, WriteLine, LogFails, logVars, TypeOK

-----------------------------------------------------------------------------
(* Every step preserves the inductive invariant                            *)

\* Every step keeps the types; the manager starts one process at a time.
LEMMA TypePreserved ==
  TypeOK /\ StateShape /\ [Next]_vars => TypeOK'
<1> SUFFICES ASSUME TypeOK, StateShape, [Next]_vars PROVE TypeOK'
  OBVIOUS
<1> USE WindowsServiceAssumption DEF TypeOK, Threads, logVars
<1>1. CASE Install
  BY <1>1 DEF Install
<1>2. CASE Remove
  BY <1>2 DEF Remove
<1>3. ASSUME NEW p \in Procs, Start(p) PROVE TypeOK'
  <2>1. Cardinality({p}) = 1
    BY FS_Singleton
  <2>2. current' = {p}
    BY <1>3 DEF Start
  <2>3. Cardinality(current') <= 1
    BY <2>1, <2>2
  <2> QED
    BY <1>3, <2>2, <2>3 DEF Start
<1>4. ASSUME NEW p \in Procs, Exit(p) PROVE TypeOK'
  BY <1>4 DEF Exit
<1>5. ASSUME NEW p \in Procs, NEW t \in Threads, SeekEnd(p, t) PROVE TypeOK'
  <2>1. at[p] \in [Threads -> Nat \cup {-1}]
    OBVIOUS
  <2>2. at' \in [Procs -> [Threads -> Nat \cup {-1}]]
    BY <1>5, <2>1 DEF SeekEnd
  <2> QED
    BY <1>5, <2>2 DEF SeekEnd
<1>6. ASSUME NEW p \in Procs, Register(p) PROVE TypeOK'
  BY <1>6 DEF Register, WorkerAt
<1>7. ASSUME NEW p \in Procs, InitService(p) PROVE TypeOK'
  <2>1. CASE /\ WritesOrFails(p, "worker")
             /\ WorkerAt(p, "ready")
             /\ UNCHANGED <<scm, installed, state>>
    BY <1>7, <2>1, WriteTypes DEF InitService, WorkerAt
  <2>2. CASE /\ WritesOrFails(p, "worker")
             /\ WorkerAt(p, "done")
             /\ state' = [state EXCEPT ![p] = "STOPPED"]
             /\ SetServiceStatus(p, "STOPPED")
    BY <1>7, <2>2, WriteTypes DEF InitService, WorkerAt, SetServiceStatus
  <2> QED
    BY <1>7, <2>1, <2>2 DEF InitService, WritesOrFails
<1>8. ASSUME NEW p \in Procs, ReportRunning(p) PROVE TypeOK'
  BY <1>8 DEF ReportRunning, WorkerAt, SetServiceStatus
<1>9. ASSUME NEW p \in Procs, Loop(p) PROVE TypeOK'
  <2>1. CASE state[p] = "RUNNING"
    <3>1. begun[p] + 1 \in 0..MaxReports /\ 1 \in 1..Lines
      BY <1>9, <2>1 DEF Loop
    <3> QED
      BY <1>9, <2>1, <3>1 DEF Loop, WorkerAt
  <2>2. CASE state[p] # "RUNNING"
    BY <1>9, <2>2 DEF Loop, WorkerAt
  <2> QED
    BY <2>1, <2>2
<1>10. ASSUME NEW p \in Procs, Report(p) PROVE TypeOK'
  <2>1. WritesOrFails(p, "worker")
    BY <1>10 DEF Report, WritesOrFails
  <2>2. CASE More(p)
    BY <1>10, <2>1, <2>2, WriteTypes DEF Report, More
  <2>3. CASE ~More(p)
    BY <1>10, <2>1, <2>3, WriteTypes DEF Report, More, WorkerAt
  <2> QED
    BY <2>2, <2>3
<1>11. ASSUME NEW p \in Procs, Control(p) PROVE TypeOK'
  BY <1>11 DEF Control, HandlerAt
<1>12. ASSUME NEW p \in Procs, LogStop(p) PROVE TypeOK'
  <2>1. WritesOrFails(p, "handler") /\ handler[p] = "log"
    BY <1>12 DEF LogStop, WritesOrFails, WriteLine, LogFails, Writes
  <2> QED
    BY <1>12, <2>1, WriteTypes DEF LogStop, HandlerAt
<1>13. ASSUME NEW p \in Procs, SetStopped(p) PROVE TypeOK'
  BY <1>13 DEF SetStopped, HandlerAt
<1>14. ASSUME NEW p \in Procs, ReportStopped(p) PROVE TypeOK'
  <2>1. state[p] \in {"STOPPED", "RUNNING", "START_PENDING"}
    BY <1>14 DEF ReportStopped, StateShape
  <2> QED
    BY <1>14, <2>1 DEF ReportStopped, HandlerAt, SetServiceStatus
<1>15. CASE UNCHANGED vars
  BY <1>15 DEF vars, Stopped
<1> QED
  BY <1>1, <1>2, <1>3, <1>4, <1>5, <1>6, <1>7, <1>8,
     <1>9, <1>10, <1>11, <1>12, <1>13, <1>14, <1>15
     DEF Next, Worker, Handler, Threads

\* A start finds the service stopped, so that no thread of an older process has it
\* start or stop again.
LEMMA ControlPreserved ==
  TypeOK /\ ControlShape /\ StateShape /\ [Next]_vars => ControlShape'
<1> SUFFICES ASSUME TypeOK, ControlShape, StateShape, [Next]_vars PROVE ControlShape'
  OBVIOUS
<1> USE WindowsServiceAssumption DEF TypeOK, ControlShape, StateShape, Starting, Stopped, Threads, logVars
<1>1. CASE Install
  BY <1>1 DEF Install
<1>2. CASE Remove
  BY <1>2 DEF Remove
<1>3. ASSUME NEW p \in Procs, Start(p) PROVE ControlShape'
  BY <1>3 DEF Start
<1>4. ASSUME NEW p \in Procs, Exit(p) PROVE ControlShape'
  BY <1>4 DEF Exit
<1>5. ASSUME NEW p \in Procs, NEW t \in Threads, SeekEnd(p, t) PROVE ControlShape'
  BY <1>5 DEF SeekEnd, Writes
<1>6. ASSUME NEW p \in Procs, Register(p) PROVE ControlShape'
  BY <1>6 DEF Register, WorkerAt
<1>7. ASSUME NEW p \in Procs, InitService(p) PROVE ControlShape'
  <2>1. CASE /\ WritesOrFails(p, "worker")
             /\ WorkerAt(p, "ready")
             /\ UNCHANGED <<scm, installed, state>>
    BY <1>7, <2>1 DEF InitService, WorkerAt
  <2>2. CASE /\ WritesOrFails(p, "worker")
             /\ WorkerAt(p, "done")
             /\ state' = [state EXCEPT ![p] = "STOPPED"]
             /\ SetServiceStatus(p, "STOPPED")
    BY <1>7, <2>2 DEF InitService, WorkerAt, SetServiceStatus
  <2> QED
    BY <1>7, <2>1, <2>2 DEF InitService, WritesOrFails
<1>8. ASSUME NEW p \in Procs, ReportRunning(p) PROVE ControlShape'
  BY <1>8 DEF ReportRunning, WorkerAt, SetServiceStatus
<1>9. ASSUME NEW p \in Procs, Loop(p) PROVE ControlShape'
  <2>1. CASE state[p] = "RUNNING"
    BY <1>9, <2>1 DEF Loop, WorkerAt
  <2>2. CASE state[p] # "RUNNING"
    BY <1>9, <2>2 DEF Loop, WorkerAt
  <2> QED
    BY <2>1, <2>2
<1>10. ASSUME NEW p \in Procs, Report(p) PROVE ControlShape'
  <2>1. WritesOrFails(p, "worker")
    BY <1>10 DEF Report, WritesOrFails
  <2>2. CASE More(p)
    BY <1>10, <2>1, <2>2 DEF Report, More
  <2>3. CASE ~More(p)
    BY <1>10, <2>1, <2>3 DEF Report, More, WorkerAt
  <2> QED
    BY <2>2, <2>3
<1>11. ASSUME NEW p \in Procs, Control(p) PROVE ControlShape'
  BY <1>11 DEF Control, HandlerAt
<1>12. ASSUME NEW p \in Procs, LogStop(p) PROVE ControlShape'
  <2>1. WritesOrFails(p, "handler") /\ handler[p] = "log"
    BY <1>12 DEF LogStop, WritesOrFails, WriteLine, LogFails, Writes
  <2> QED
    BY <1>12, <2>1 DEF LogStop, HandlerAt
<1>13. ASSUME NEW p \in Procs, SetStopped(p) PROVE ControlShape'
  BY <1>13 DEF SetStopped, HandlerAt
<1>14. ASSUME NEW p \in Procs, ReportStopped(p) PROVE ControlShape'
  BY <1>14 DEF ReportStopped, HandlerAt, SetServiceStatus
<1>15. CASE UNCHANGED vars
  BY <1>15 DEF vars, Stopped
<1> QED
  BY <1>1, <1>2, <1>3, <1>4, <1>5, <1>6, <1>7, <1>8,
     <1>9, <1>10, <1>11, <1>12, <1>13, <1>14, <1>15
     DEF Next, Worker, Handler, Threads

\* The worker sets serviceStatus before there is a control, controlHandler after.
LEMMA StatePreserved ==
  TypeOK /\ ControlShape /\ StateShape /\ [Next]_vars => StateShape'
<1> SUFFICES ASSUME TypeOK, ControlShape, StateShape, [Next]_vars PROVE StateShape'
  OBVIOUS
<1> USE WindowsServiceAssumption DEF TypeOK, ControlShape, StateShape, Starting, Stopped, Threads, logVars
<1>1. CASE Install
  BY <1>1 DEF Install
<1>2. CASE Remove
  BY <1>2 DEF Remove
<1>3. ASSUME NEW p \in Procs, Start(p) PROVE StateShape'
  BY <1>3 DEF Start
<1>4. ASSUME NEW p \in Procs, Exit(p) PROVE StateShape'
  BY <1>4 DEF Exit
<1>5. ASSUME NEW p \in Procs, NEW t \in Threads, SeekEnd(p, t) PROVE StateShape'
  BY <1>5 DEF SeekEnd, Writes
<1>6. ASSUME NEW p \in Procs, Register(p) PROVE StateShape'
  BY <1>6 DEF Register, WorkerAt
<1>7. ASSUME NEW p \in Procs, InitService(p) PROVE StateShape'
  <2>1. CASE /\ WritesOrFails(p, "worker")
             /\ WorkerAt(p, "ready")
             /\ UNCHANGED <<scm, installed, state>>
    BY <1>7, <2>1 DEF InitService, WorkerAt
  <2>2. CASE /\ WritesOrFails(p, "worker")
             /\ WorkerAt(p, "done")
             /\ state' = [state EXCEPT ![p] = "STOPPED"]
             /\ SetServiceStatus(p, "STOPPED")
    BY <1>7, <2>2 DEF InitService, WorkerAt, SetServiceStatus
  <2> QED
    BY <1>7, <2>1, <2>2 DEF InitService, WritesOrFails
<1>8. ASSUME NEW p \in Procs, ReportRunning(p) PROVE StateShape'
  BY <1>8 DEF ReportRunning, WorkerAt, SetServiceStatus
<1>9. ASSUME NEW p \in Procs, Loop(p) PROVE StateShape'
  <2>1. CASE state[p] = "RUNNING"
    BY <1>9, <2>1 DEF Loop, WorkerAt
  <2>2. CASE state[p] # "RUNNING"
    BY <1>9, <2>2 DEF Loop, WorkerAt
  <2> QED
    BY <2>1, <2>2
<1>10. ASSUME NEW p \in Procs, Report(p) PROVE StateShape'
  <2>1. WritesOrFails(p, "worker")
    BY <1>10 DEF Report, WritesOrFails
  <2>2. CASE More(p)
    BY <1>10, <2>1, <2>2 DEF Report, More
  <2>3. CASE ~More(p)
    BY <1>10, <2>1, <2>3 DEF Report, More, WorkerAt
  <2> QED
    BY <2>2, <2>3
<1>11. ASSUME NEW p \in Procs, Control(p) PROVE StateShape'
  BY <1>11 DEF Control, HandlerAt
<1>12. ASSUME NEW p \in Procs, LogStop(p) PROVE StateShape'
  <2>1. WritesOrFails(p, "handler") /\ handler[p] = "log"
    BY <1>12 DEF LogStop, WritesOrFails, WriteLine, LogFails, Writes
  <2> QED
    BY <1>12, <2>1 DEF LogStop, HandlerAt
<1>13. ASSUME NEW p \in Procs, SetStopped(p) PROVE StateShape'
  BY <1>13 DEF SetStopped, HandlerAt
<1>14. ASSUME NEW p \in Procs, ReportStopped(p) PROVE StateShape'
  BY <1>14 DEF ReportStopped, HandlerAt, SetServiceStatus
<1>15. CASE UNCHANGED vars
  BY <1>15 DEF vars, Stopped
<1> QED
  BY <1>1, <1>2, <1>3, <1>4, <1>5, <1>6, <1>7, <1>8,
     <1>9, <1>10, <1>11, <1>12, <1>13, <1>14, <1>15
     DEF Next, Worker, Handler, Threads

\* The loop begins no report once the manager was told of the stop.
LEMMA LatePreserved ==
  TypeOK /\ ControlShape /\ StateShape /\ LateShape /\ [Next]_vars => LateShape'
<1> SUFFICES ASSUME TypeOK, ControlShape, StateShape, LateShape, [Next]_vars PROVE LateShape'
  OBVIOUS
<1> USE WindowsServiceAssumption DEF TypeOK, ControlShape, StateShape, LateShape, Starting, Stopped, Threads, logVars
<1>1. CASE Install
  BY <1>1 DEF Install
<1>2. CASE Remove
  BY <1>2 DEF Remove
<1>3. ASSUME NEW p \in Procs, Start(p) PROVE LateShape'
  BY <1>3 DEF Start
<1>4. ASSUME NEW p \in Procs, Exit(p) PROVE LateShape'
  BY <1>4 DEF Exit
<1>5. ASSUME NEW p \in Procs, NEW t \in Threads, SeekEnd(p, t) PROVE LateShape'
  BY <1>5 DEF SeekEnd, Writes
<1>6. ASSUME NEW p \in Procs, Register(p) PROVE LateShape'
  BY <1>6 DEF Register, WorkerAt
<1>7. ASSUME NEW p \in Procs, InitService(p) PROVE LateShape'
  <2>1. CASE /\ WritesOrFails(p, "worker")
             /\ WorkerAt(p, "ready")
             /\ UNCHANGED <<scm, installed, state>>
    BY <1>7, <2>1, WriteLate DEF InitService, WorkerAt
  <2>2. CASE /\ WritesOrFails(p, "worker")
             /\ WorkerAt(p, "done")
             /\ state' = [state EXCEPT ![p] = "STOPPED"]
             /\ SetServiceStatus(p, "STOPPED")
    BY <1>7, <2>2, WriteLate DEF InitService, WorkerAt, SetServiceStatus
  <2> QED
    BY <1>7, <2>1, <2>2 DEF InitService, WritesOrFails
<1>8. ASSUME NEW p \in Procs, ReportRunning(p) PROVE LateShape'
  BY <1>8 DEF ReportRunning, WorkerAt, SetServiceStatus
<1>9. ASSUME NEW p \in Procs, Loop(p) PROVE LateShape'
  <2>1. CASE state[p] = "RUNNING"
    BY <1>9, <2>1 DEF Loop, WorkerAt
  <2>2. CASE state[p] # "RUNNING"
    BY <1>9, <2>2 DEF Loop, WorkerAt
  <2> QED
    BY <2>1, <2>2
<1>10. ASSUME NEW p \in Procs, Report(p) PROVE LateShape'
  <2>1. WritesOrFails(p, "worker")
    BY <1>10 DEF Report, WritesOrFails
  <2>2. CASE More(p)
    BY <1>10, <2>1, <2>2, WriteLate DEF Report, More
  <2>3. CASE ~More(p)
    BY <1>10, <2>1, <2>3, WriteLate DEF Report, More, WorkerAt
  <2> QED
    BY <2>2, <2>3
<1>11. ASSUME NEW p \in Procs, Control(p) PROVE LateShape'
  BY <1>11 DEF Control, HandlerAt
<1>12. ASSUME NEW p \in Procs, LogStop(p) PROVE LateShape'
  <2>1. WritesOrFails(p, "handler") /\ handler[p] = "log"
    BY <1>12 DEF LogStop, WritesOrFails, WriteLine, LogFails, Writes
  <2> QED
    BY <1>12, <2>1, WriteLate DEF LogStop, HandlerAt
<1>13. ASSUME NEW p \in Procs, SetStopped(p) PROVE LateShape'
  BY <1>13 DEF SetStopped, HandlerAt
<1>14. ASSUME NEW p \in Procs, ReportStopped(p) PROVE LateShape'
  BY <1>14 DEF ReportStopped, HandlerAt, SetServiceStatus
<1>15. CASE UNCHANGED vars
  BY <1>15 DEF vars, Stopped
<1> QED
  BY <1>1, <1>2, <1>3, <1>4, <1>5, <1>6, <1>7, <1>8,
     <1>9, <1>10, <1>11, <1>12, <1>13, <1>14, <1>15
     DEF Next, Worker, Handler, Threads

\* A line is lost at the cost of an aside that came between its two calls.
LEMMA LogPreserved ==
  TypeOK /\ ControlShape /\ StateShape /\ LogShape /\ [Next]_vars => LogShape'
<1> SUFFICES ASSUME TypeOK, ControlShape, StateShape, LogShape, [Next]_vars PROVE LogShape'
  OBVIOUS
<1> USE WindowsServiceAssumption DEF TypeOK, ControlShape, StateShape, LogShape, Overtaken, Starting, Stopped, Threads, logVars
<1>1. CASE Install
  BY <1>1 DEF Install
<1>2. CASE Remove
  BY <1>2 DEF Remove
<1>3. ASSUME NEW p \in Procs, Start(p) PROVE LogShape'
  BY <1>3 DEF Start
<1>4. ASSUME NEW p \in Procs, Exit(p) PROVE LogShape'
  BY <1>4 DEF Exit
<1>5. ASSUME NEW p \in Procs, NEW t \in Threads, SeekEnd(p, t) PROVE LogShape'
  BY <1>5 DEF SeekEnd, Writes
<1>6. ASSUME NEW p \in Procs, Register(p) PROVE LogShape'
  BY <1>6 DEF Register, WorkerAt
<1>7. ASSUME NEW p \in Procs, InitService(p) PROVE LogShape'
  BY <1>7 DEF InitService, WriteLine, LogFails, Writes, LengthAfter, WorkerAt, SetServiceStatus
<1>8. ASSUME NEW p \in Procs, ReportRunning(p) PROVE LogShape'
  BY <1>8 DEF ReportRunning, WorkerAt, SetServiceStatus
<1>9. ASSUME NEW p \in Procs, Loop(p) PROVE LogShape'
  BY <1>9 DEF Loop, WorkerAt
<1>10. ASSUME NEW p \in Procs, Report(p) PROVE LogShape'
  <2>1. \A q \in Procs : q # p => worker'[q] = worker[q] /\ at'[q] = at[q]
    BY <1>10 DEF Report, WriteLine, LogFails, WorkerAt
  <2>2. CASE LogFails(p, "worker")
    BY <1>10, <2>1, <2>2 DEF Report, LogFails, WorkerAt
  <2>3. CASE WriteLine(p, "worker") /\ Stopped(p)
    BY <1>10, <2>1, <2>3 DEF Report, WriteLine, LengthAfter, WorkerAt
  <2>4. CASE WriteLine(p, "worker") /\ ~Stopped(p)
    BY <1>10, <2>1, <2>4 DEF Report, WriteLine, LengthAfter, WorkerAt
  <2> QED
    BY <1>10, <2>2, <2>3, <2>4 DEF Report
<1>11. ASSUME NEW p \in Procs, Control(p) PROVE LogShape'
  BY <1>11 DEF Control, HandlerAt
<1>12. ASSUME NEW p \in Procs, LogStop(p) PROVE LogShape'
  BY <1>12 DEF LogStop, WriteLine, LogFails, Writes, LengthAfter, HandlerAt
<1>13. ASSUME NEW p \in Procs, SetStopped(p) PROVE LogShape'
  BY <1>13 DEF SetStopped, HandlerAt
<1>14. ASSUME NEW p \in Procs, ReportStopped(p) PROVE LogShape'
  BY <1>14 DEF ReportStopped, HandlerAt, SetServiceStatus
<1>15. CASE UNCHANGED vars
  BY <1>15 DEF vars, Stopped
<1> QED
  BY <1>1, <1>2, <1>3, <1>4, <1>5, <1>6, <1>7, <1>8,
     <1>9, <1>10, <1>11, <1>12, <1>13, <1>14, <1>15
     DEF Next, Worker, Handler, Threads

\* The invariant holds at first, before the service is installed.
LEMMA InitInv == Init => Inv
<1> SUFFICES ASSUME Init PROVE Inv
  OBVIOUS
<1> USE WindowsServiceAssumption DEF Init
<1>1. TypeOK
  BY FS_EmptySet DEF TypeOK
<1>2. ControlShape /\ StateShape
  BY DEF ControlShape, StateShape, Starting
<1>3. LateShape /\ LogShape
  BY DEF LateShape, LogShape, Overtaken, Threads
<1> QED
  BY <1>1, <1>2, <1>3 DEF Inv

\* Inv is inductive, and so an invariant.
LEMMA InvHolds == Spec => []Inv
<1>1. Inv /\ [Next]_vars => Inv'
  BY TypePreserved, ControlPreserved, StatePreserved, LatePreserved, LogPreserved DEF Inv
<1> QED
  BY <1>1, InitInv, PTL DEF Spec

-----------------------------------------------------------------------------
(* The theorems                                                            *)

\* Every variable keeps its type, and no two processes are the service.
THEOREM TypeCorrect == Spec => []TypeOK
<1>1. Inv => TypeOK
  BY DEF Inv
<1> QED
  BY <1>1, InvHolds, PTL

\* However many processes there have been, a stopped worker writes the rest of one
\* report at most.
THEOREM AtMostOneReportLateHolds == Spec => []AtMostOneReportLate
<1>1. Inv => AtMostOneReportLate
  BY DEF Inv, LateShape, AtMostOneReportLate
<1> QED
  BY <1>1, InvHolds, PTL

\* A line is lost only next to one that controlHandler or a late worker wrote.
THEOREM LinesKeptHolds == Spec => []LinesKept
<1>1. Inv => LinesKept
  BY DEF Inv, TypeOK, LogShape, LinesKept
<1> QED
  BY <1>1, InvHolds, PTL

\* No step of the worker undoes what controlHandler did to serviceStatus.
THEOREM StoppedForGoodHolds == Spec => StoppedForGood
<1>1. Inv /\ [Next]_vars =>
        [\A p \in Procs : state[p] = "STOPPED" => state'[p] = "STOPPED"]_vars
  <2> SUFFICES ASSUME Inv, Next, NEW p \in Procs, state[p] = "STOPPED"
               PROVE  state'[p] = "STOPPED"
    OBVIOUS
  <2> USE DEF Inv, TypeOK, StateShape
  <2>1. ASSUME NEW q \in Procs, Worker(q) PROVE state'[p] = "STOPPED"
    BY <2>1 DEF Worker, SeekEnd, Register, InitService, ReportRunning, Loop, Report
  <2>2. ASSUME NEW q \in Procs, Handler(q) PROVE state'[p] = "STOPPED"
    BY <2>2 DEF Handler, SeekEnd, LogStop, SetStopped, ReportStopped
  <2> QED
    BY <2>1, <2>2 DEF Next, Install, Remove, Start, Control, Exit
<1> QED
  BY <1>1, InvHolds, PTL DEF Spec, StoppedForGood
=============================================================================
