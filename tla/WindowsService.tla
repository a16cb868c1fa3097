---------------------------- MODULE WindowsService ----------------------------
(***************************************************************************)
(* The Windows agent, windows/main.cpp: the thread that serviceMain runs   *)
(* in writes a report to the log line by line and sleeps, the thread of    *)
(* StartServiceCtrlDispatcher runs controlHandler, and the service control *)
(* manager starts and stops the process.  The threads share serviceStatus  *)
(* without a lock, and the processes share the log: a new process can be   *)
(* started as soon as the last one has said that it is stopped, while its  *)
(* worker still writes.                                                    *)
(***************************************************************************)
EXTENDS Integers, FiniteSets

CONSTANTS
  MaxStarts,   \* bound: starts of the service
  Lines,       \* bound: lines of a report (25 in the code)
  MaxReports,  \* bound: reports of one process
  Faults       \* "register", "log" (the file cannot be opened)

ASSUME WindowsServiceAssumption ==
  /\ MaxStarts \in Nat
  /\ Lines \in Nat \ {0}
  /\ MaxReports \in Nat
  /\ Faults \subseteq {"register", "log"}

VARIABLES
  installed,  \* what the manager has: "no", "yes", "deleted" (but not gone yet)
  scm,        \* the state of the service as the manager knows it
  current,    \* the process it has started last
  alive,
  worker,     \* where serviceMain is
  handler,    \* where controlHandler is
  state,      \* serviceStatus.dwCurrentState
  line,       \* the line of the report that comes next
  at,         \* the end of the file as a thread has found it, -1 before it looks
  begun,      \* reports so far
  log,        \* lines in the file
  written,    \* ghost: lines that were written to it
  asides,     \* ghost: those that controlHandler or a late worker wrote
  late        \* ghost: those of a late worker, one whose service is stopped

logVars == <<at, log, written, asides, late>>
vars == <<installed, scm, current, alive, worker, handler, state, line, begun, logVars>>

Procs == 1..MaxStarts
Threads == {"worker", "handler"}

TypeOK ==
  /\ installed \in {"no", "yes", "deleted"}
  /\ scm \in {"STOPPED", "START_PENDING", "RUNNING"}
  /\ current \subseteq Procs /\ Cardinality(current) <= 1
  /\ alive \subseteq Procs
  /\ worker \in [Procs -> {"none", "main", "started", "ready", "loop", "report", "done"}]
  /\ handler \in [Procs -> {"idle", "log", "set", "report"}]
  /\ state \in [Procs -> {"none", "START_PENDING", "RUNNING", "STOPPED"}]
  /\ line \in [Procs -> 1..Lines]
  /\ at \in [Procs -> [Threads -> Nat \cup {-1}]]
  /\ begun \in [Procs -> 0..MaxReports]
  /\ log \in 0..written
  /\ written \in Nat
  /\ asides \in Nat
  /\ late \in [Procs -> Nat]

Init ==
  /\ installed = "no"
  /\ scm = "STOPPED"
  /\ current = {}
  /\ alive = {}
  /\ worker = [p \in Procs |-> "none"]
  /\ handler = [p \in Procs |-> "idle"]
  /\ state = [p \in Procs |-> "none"]
  /\ line = [p \in Procs |-> 1]
  /\ at = [p \in Procs |-> [t \in Threads |-> -1]]
  /\ begun = [p \in Procs |-> 0]
  /\ log = 0
  /\ written = 0
  /\ asides = 0
  /\ late = [p \in Procs |-> 0]

-----------------------------------------------------------------------------
(* The service control manager                                             *)

Install ==
  /\ installed = "no"
  /\ installed' = "yes"
  /\ UNCHANGED <<scm, current, alive, worker, handler, state, line, begun, logVars>>

\* DeleteService: what runs is deleted when it stops.
Remove ==
  /\ installed = "yes"
  /\ installed' = IF scm = "STOPPED" THEN "no" ELSE "deleted"
  /\ UNCHANGED <<scm, current, alive, worker, handler, state, line, begun, logVars>>

\* At boot, by the installation or by hand: main calls the dispatcher, and that
\* calls serviceMain.
Start(p) ==
  /\ installed = "yes"
  /\ scm = "STOPPED"
  /\ worker[p] = "none"
  /\ \A q \in Procs : q < p => worker[q] # "none"
  /\ scm' = "START_PENDING"
  /\ current' = {p}
  /\ alive' = alive \cup {p}
  /\ worker' = [worker EXCEPT ![p] = "main"]
  /\ UNCHANGED <<installed, handler, state, line, begun, logVars>>

Stopped(p) == p \notin current \/ scm = "STOPPED"

\* The dispatcher returns when the service is stopped, and main after it: the
\* process ends wherever its worker is.
Exit(p) ==
  /\ p \in alive
  /\ Stopped(p)
  /\ alive' = alive \ {p}
  /\ worker' = [worker EXCEPT ![p] = "done"]
  /\ UNCHANGED <<installed, scm, current, handler, state, line, begun, logVars>>

SetServiceStatus(p, status) ==
  /\ scm' = status
  /\ installed' = IF status = "STOPPED" /\ installed = "deleted" THEN "no" ELSE installed

-----------------------------------------------------------------------------
(* writeToLog: the text reaches the file when fclose looks for its end and *)
(* writes, which is two calls                                              *)

Writes(p, t) ==
  /\ p \in alive
  /\ IF t = "worker" THEN worker[p] \in {"started", "report"} ELSE handler[p] = "log"

SeekEnd(p, t) ==
  /\ Writes(p, t)
  /\ at[p][t] = -1
  /\ at' = [at EXCEPT ![p][t] = log]
  /\ UNCHANGED <<installed, scm, current, alive, worker, handler, state, line, begun,
                 log, written, asides, late>>

\* Mutant: the file is opened with "w".
Truncated(position) == 1

\* The line goes where the end was, over what has come there since.
LengthAfter(position) == IF position = log THEN log + 1 ELSE log

WriteLine(p, t) ==
  /\ Writes(p, t)
  /\ at[p][t] # -1
  /\ at' = [at EXCEPT ![p][t] = -1]
  /\ log' = LengthAfter(at[p][t])
  /\ written' = written + 1
  /\ asides' = IF t = "handler" \/ Stopped(p) THEN asides + 1 ELSE asides
  /\ late' = IF t = "worker" /\ Stopped(p) THEN [late EXCEPT ![p] = @ + 1] ELSE late

LogFails(p, t) ==
  /\ "log" \in Faults
  /\ Writes(p, t)
  /\ at[p][t] = -1
  /\ UNCHANGED logVars

-----------------------------------------------------------------------------
(* serviceMain                                                             *)

WorkerAt(p, where) == worker' = [worker EXCEPT ![p] = where]

\* A handler that cannot be registered leaves the service pending.
Register(p) ==
  /\ p \in alive
  /\ worker[p] = "main"
  /\ state' = [state EXCEPT ![p] = "START_PENDING"]
  /\ \/ WorkerAt(p, "started")
     \/ "register" \in Faults /\ WorkerAt(p, "done")
  /\ UNCHANGED <<installed, scm, current, alive, handler, line, begun, logVars>>

InitService(p) ==
  /\ worker[p] = "started"
  /\ \/ /\ WriteLine(p, "worker")
        /\ WorkerAt(p, "ready")
        /\ UNCHANGED <<scm, installed, state>>
     \/ /\ LogFails(p, "worker")
        /\ WorkerAt(p, "done")
        /\ state' = [state EXCEPT ![p] = "STOPPED"]
        /\ SetServiceStatus(p, "STOPPED")
  /\ UNCHANGED <<current, alive, handler, line, begun>>

\* Mutant: the manager is told before serviceStatus is set.
ReportBeforeRunning(p) ==
  /\ p \in alive
  /\ \/ /\ worker[p] = "ready"
        /\ scm # "RUNNING"
        /\ SetServiceStatus(p, "RUNNING")
        /\ UNCHANGED <<worker, state>>
     \/ /\ worker[p] = "ready"
        /\ scm = "RUNNING"
        /\ state' = [state EXCEPT ![p] = "RUNNING"]
        /\ WorkerAt(p, "loop")
        /\ UNCHANGED <<installed, scm>>
  /\ UNCHANGED <<current, alive, handler, line, begun, logVars>>

\* The manager sends no control before it is told, so nothing comes in between.
ReportRunning(p) ==
  /\ p \in alive
  /\ worker[p] = "ready"
  /\ state' = [state EXCEPT ![p] = "RUNNING"]
  /\ SetServiceStatus(p, "RUNNING")
  /\ WorkerAt(p, "loop")
  /\ UNCHANGED <<current, alive, handler, line, begun, logVars>>

\* Mutant: the loop is for ever.
LoopForever(p) ==
  /\ p \in alive
  /\ worker[p] = "loop"
  /\ begun[p] < MaxReports
  /\ begun' = [begun EXCEPT ![p] = @ + 1]
  /\ line' = [line EXCEPT ![p] = 1]
  /\ WorkerAt(p, "report")
  /\ UNCHANGED <<installed, scm, current, alive, handler, state, logVars>>

\* while(dwCurrentState == SERVICE_RUNNING), at first and after each Sleep.  init
\* returns 0 whatever its calls do (windows_plugin.cpp:93), so that what follows its
\* failure in serviceMain is never reached.
Loop(p) ==
  /\ p \in alive
  /\ worker[p] = "loop"
  /\ IF state[p] = "RUNNING"
       THEN /\ begun[p] < MaxReports
            /\ begun' = [begun EXCEPT ![p] = @ + 1]
            /\ line' = [line EXCEPT ![p] = 1]
            /\ WorkerAt(p, "report")
       ELSE WorkerAt(p, "done") /\ UNCHANGED <<begun, line>>
  /\ UNCHANGED <<installed, scm, current, alive, handler, state, logVars>>

\* Mutant: one line more than there is.
MoreOrLast(p) == line[p] <= Lines

More(p) == line[p] < Lines

\* The result of writeToLog is not looked at.
Report(p) ==
  /\ worker[p] = "report"
  /\ WriteLine(p, "worker") \/ LogFails(p, "worker")
  /\ IF More(p)
       THEN line' = [line EXCEPT ![p] = @ + 1] /\ UNCHANGED worker
       ELSE WorkerAt(p, "loop") /\ UNCHANGED line
  /\ UNCHANGED <<installed, scm, current, alive, handler, state, begun>>

-----------------------------------------------------------------------------
(* controlHandler                                                          *)

HandlerAt(p, where) == handler' = [handler EXCEPT ![p] = where]

\* SERVICE_CONTROL_STOP or _SHUTDOWN.  Any other control reports the state the
\* manager has.
Control(p) ==
  /\ p \in alive \cap current
  /\ scm = "RUNNING"
  /\ handler[p] = "idle"
  /\ HandlerAt(p, "log")
  /\ UNCHANGED <<installed, scm, current, alive, worker, state, line, begun, logVars>>

LogStop(p) ==
  /\ WriteLine(p, "handler") \/ LogFails(p, "handler")
  /\ HandlerAt(p, "set")
  /\ UNCHANGED <<installed, scm, current, alive, worker, state, line, begun>>

SetStopped(p) ==
  /\ handler[p] = "set"
  /\ state' = [state EXCEPT ![p] = "STOPPED"]
  /\ HandlerAt(p, "report")
  /\ UNCHANGED <<installed, scm, current, alive, worker, line, begun, logVars>>

\* Mutant: the manager is not told.
StopUnreported(p) ==
  /\ handler[p] = "report"
  /\ HandlerAt(p, "idle")
  /\ UNCHANGED <<installed, scm, current, alive, worker, state, line, begun, logVars>>

ReportStopped(p) ==
  /\ handler[p] = "report"
  /\ SetServiceStatus(p, state[p])
  /\ HandlerAt(p, "idle")
  /\ UNCHANGED <<current, alive, worker, state, line, begun, logVars>>

-----------------------------------------------------------------------------
Worker(p) == SeekEnd(p, "worker") \/ Register(p) \/ InitService(p) \/ ReportRunning(p)
               \/ Loop(p) \/ Report(p)
Handler(p) == SeekEnd(p, "handler") \/ LogStop(p) \/ SetStopped(p) \/ ReportStopped(p)

Next ==
  \/ Install
  \/ Remove
  \/ \E p \in Procs : Start(p) \/ Control(p) \/ Worker(p) \/ Handler(p) \/ Exit(p)

Spec == Init /\ [][Next]_vars

\* The thread of the dispatcher is scheduled, and a process whose main returns
\* ends.
FairSpec == Spec /\ \A p \in Procs : WF_vars(Handler(p)) /\ WF_vars(Exit(p))

-----------------------------------------------------------------------------
(* Properties                                                              *)

\* A worker whose service is stopped writes the rest of one report at most into
\* the log, which a new process may have begun to write to.
AtMostOneReportLate == \A p \in Procs : late[p] <= Lines

\* Only where a stop is logged next to a report, or a late line next to those of
\* a new process, can a line of the log be lost, one for each such line.
LinesKept == written - log <= asides

\* The worker does not take back what controlHandler has set: serviceStatus needs
\* no lock, because there is no control before the service runs.
StoppedForGood ==
  [][\A p \in Procs : state[p] = "STOPPED" => state'[p] = "STOPPED"]_vars

\* A stop ends the process, whatever its worker is at.
StopWorks == \A p \in Procs : handler[p] = "log" ~> p \notin alive
=============================================================================
