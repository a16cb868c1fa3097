------------------------------ MODULE Lifecycle ------------------------------
(***************************************************************************)
(* Start, restart and end of the agent: main, daemonize and harakiri of    *)
(* main.c, open_listener and init_context of network.c, and the init       *)
(* script.  Processes share the pid file and the listen port and nothing   *)
(* else.  One action per system call others can see; pc names it.          *)
(*                                                                         *)
(* Signals follow BSD signal(): a signal is blocked while its handler      *)
(* runs.  harakiri never returns, so it stays blocked; execv and fork hand *)
(* the mask on.                                                            *)
(*                                                                         *)
(* open_listener does not set SO_REUSEADDR: bind fails as long as there is *)
(* any connection of the port, one that was closed a while ago included.   *)
(***************************************************************************)
EXTENDS Integers, FiniteSets

CONSTANTS
  Procs,       \* processes; one that ended may be used for a new one
  NoProc,
  Operations,  \* what the operators do: see Launch and ScriptRestart
  PortSet,     \* whether listenport is configured
  Faults,      \* "config", "context", "exec", "portclash", "statfault", "accept"
  MaxSignals,  \* bound: signals of each kind sent
  MaxKills,    \* bound: processes killed or crashed
  MaxLaunches  \* bound: processes started

Signals == {"TERM", "HUP"}

ASSUME LifecycleAssumption ==
  /\ NoProc \notin Procs
  /\ Operations \subseteq {"daemon", "foreground", "hasty", "restart"}
  /\ PortSet \in BOOLEAN
  /\ Faults \subseteq {"config", "context", "exec", "portclash", "statfault", "accept"}
  /\ MaxSignals \in [Signals -> Nat]
  /\ MaxKills \in Nat
  /\ MaxLaunches \in Nat

VARIABLES
  pc,
  mode,      \* "daemon", or "foreground" (-n)
  why,       \* what harakiri was called with: "exit" or a signal
  twice,     \* harakiri has been entered from within harakiri
  pending,   \* signals sent to a process and not delivered
  blocked,   \* its signal mask
  hasJobs,   \* whether its plugins have added jobs
  port,      \* "none", "configured", or "stray" for a port nobody chose
  client,    \* whether it has an accepted connection open
  lingers,   \* a connection of the port was closed and is not forgotten (TIME_WAIT)
  pidfile,   \* the process PIDFILE names, NoProc when there is no such file
  script,    \* "idle", or "start" between stop and start of the init script
  sent, kills, launches

portVars == <<port, client, lingers>>
outVars == <<pidfile, script, sent, kills, launches>>
vars == <<pc, mode, why, twice, pending, blocked, hasJobs, portVars, outVars>>

Dying == {"unlink", "close", "free"}

\* The listening socket is open from open_listener to the close in harakiri, not
\* longer; the socket of a client as long as there is a process that has it.
TypeOK ==
  /\ pc \in [Procs -> {"off", "config", "check", "write", "setup", "bind", "run"}
                        \cup Dying]
  /\ mode \in [Procs -> {"daemon", "foreground"}]
  /\ why \in [Procs -> {"exit"} \cup Signals]
  /\ twice \in [Procs -> BOOLEAN]
  /\ pending \in [Procs -> SUBSET Signals]
  /\ blocked \in [Procs -> SUBSET Signals]
  /\ hasJobs \in [Procs -> BOOLEAN]
  /\ port \in [Procs -> {"none", "configured", "stray"}]
  /\ \A p \in Procs : port[p] # "none" => pc[p] \in {"run", "unlink", "close"}
  /\ client \in [Procs -> BOOLEAN]
  /\ \A p \in Procs : client[p] => pc[p] # "off"
  /\ lingers \in BOOLEAN
  /\ pidfile \in Procs \cup {NoProc}
  /\ script \in {"idle", "start"}
  /\ sent \in [Signals -> Nat]
  /\ kills \in 0..MaxKills
  /\ launches \in 0..MaxLaunches

Init ==
  /\ pc = [p \in Procs |-> "off"]
  /\ mode = [p \in Procs |-> "daemon"]
  /\ why = [p \in Procs |-> "exit"]
  /\ twice = [p \in Procs |-> FALSE]
  /\ pending = [p \in Procs |-> {}]
  /\ blocked = [p \in Procs |-> {}]
  /\ hasJobs = [p \in Procs |-> FALSE]
  /\ port = [p \in Procs |-> "none"]
  /\ client = [p \in Procs |-> FALSE]
  /\ lingers = FALSE
  /\ pidfile = NoProc
  /\ script = "idle"
  /\ sent = [s \in Signals |-> 0]
  /\ kills = 0
  /\ launches = 0

GoTo(p, where) == pc' = [pc EXCEPT ![p] = where]

\* The process is gone: the system closes its sockets and forgets its signals.
Gone(p) ==
  /\ GoTo(p, "off")
  /\ port' = [port EXCEPT ![p] = "none"]
  /\ client' = [client EXCEPT ![p] = FALSE]
  /\ lingers' \in {lingers, lingers \/ client[p]}
  /\ pending' = [pending EXCEPT ![p] = {}]
  /\ blocked' = [blocked EXCEPT ![p] = {}]

\* harakiri(cause) is called.
Harakiri(p, cause) ==
  /\ GoTo(p, "unlink")
  /\ why' = [why EXCEPT ![p] = cause]
  /\ twice' = [twice EXCEPT ![p] = pc[p] \in Dying]

-----------------------------------------------------------------------------
(* Start                                                                   *)

\* getopt, then the rest of main; a process number is not used again while
\* the pid file names it.
Exec(p, m) ==
  /\ launches < MaxLaunches
  /\ pc[p] = "off"
  /\ pidfile # p
  /\ GoTo(p, "config")
  /\ mode' = [mode EXCEPT ![p] = m]
  /\ why' = [why EXCEPT ![p] = "exit"]
  /\ twice' = [twice EXCEPT ![p] = FALSE]
  /\ launches' = launches + 1
  /\ UNCHANGED <<pending, blocked, hasJobs, portVars, pidfile, sent, kills>>

\* A careful operator starts an agent when there is none.
Launch(p) ==
  /\ "hasty" \in Operations \/ \A q \in Procs : pc[q] = "off"
  /\ \E m \in Operations \cap {"daemon", "foreground"} : Exec(p, m)
  /\ script = "idle"
  /\ UNCHANGED script

\* read_config fails, or a daemon cannot fork or setsid: exit(-1).
ConfigFails(p) ==
  /\ pc[p] = "config"
  /\ "config" \in Faults
  /\ Gone(p)
  /\ UNCHANGED <<mode, why, twice, hasJobs, outVars>>

\* read_config and load_modules; a daemon forks and goes on in the child, which has
\* the mask and the sockets of its parent, but not the signals that wait for it.  Its
\* number, which nobody knows before it is in the pid file, is p here as well.  The
\* handlers are installed before anything else is done.
ConfigRead(p) ==
  /\ pc[p] = "config"
  /\ \E j \in BOOLEAN : hasJobs' = [hasJobs EXCEPT ![p] = j]
  /\ \/ /\ mode[p] = "daemon"
        /\ GoTo(p, "check")
        /\ pending' = [pending EXCEPT ![p] = {}]
     \/ /\ mode[p] = "foreground"
        /\ GoTo(p, "setup")
        /\ UNCHANGED pending
  /\ UNCHANGED <<mode, why, twice, blocked, portVars, outVars>>

\* stat(PIDFILE, buf) with a buf that points nowhere: a file that exists can
\* be reported as an error, which is taken for no file.
NoPidFile(p) ==
  /\ pc[p] = "check"
  /\ pidfile = NoProc \/ "statfault" \in Faults
  /\ GoTo(p, "write")
  /\ UNCHANGED <<mode, why, twice, pending, blocked, hasJobs, portVars, outVars>>

\* "PID file exists (%s), loggeragent running?."
PidFileExists(p) ==
  /\ pc[p] = "check"
  /\ pidfile # NoProc
  /\ Harakiri(p, "exit")
  /\ UNCHANGED <<mode, pending, blocked, hasJobs, portVars, outVars>>

\* Mutant: the number that is written is that of the parent, which is gone.
WritePidOfParent(p) ==
  /\ pc[p] = "write"
  /\ pidfile' = NoProc
  /\ GoTo(p, "setup")
  /\ UNCHANGED <<mode, why, twice, pending, blocked, hasJobs, portVars,
                 script, sent, kills, launches>>

WritePid(p) ==
  /\ pc[p] = "write"
  /\ pidfile' = p
  /\ GoTo(p, "setup")
  /\ UNCHANGED <<mode, why, twice, pending, blocked, hasJobs, portVars,
                 script, sent, kills, launches>>

\* Without a port and without jobs there is nothing to do; without a port but
\* with jobs portnum keeps what was on the stack.
SetUp(p) ==
  /\ pc[p] = "setup"
  /\ IF ~PortSet /\ ~hasJobs[p]
       THEN Harakiri(p, "exit")
       ELSE GoTo(p, "bind") /\ UNCHANGED <<why, twice>>
  /\ UNCHANGED <<mode, pending, blocked, hasJobs, portVars, outVars>>

\* init_context: the context, the CA, the certificate or its key is no good.
ContextFails(p) ==
  /\ pc[p] = "bind"
  /\ "context" \in Faults
  /\ Harakiri(p, "exit")
  /\ UNCHANGED <<mode, pending, blocked, hasJobs, portVars, outVars>>

\* A connection holds the port: one that is served, one that was accepted before execv
\* and that nobody will close, or one that was closed lately.
PortHeld == lingers \/ \E q \in Procs : client[q]
PortFree == ~PortHeld /\ \A q \in Procs : port[q] # "configured"

Listen(p) ==
  /\ pc[p] = "bind"
  /\ PortSet => PortFree
  /\ port' = [port EXCEPT ![p] = IF PortSet THEN "configured" ELSE "stray"]
  /\ GoTo(p, "run")
  /\ UNCHANGED <<mode, why, twice, pending, blocked, hasJobs, client, lingers, outVars>>

\* The port is taken: harakiri, unless the message, which prints a number with
\* %s, ends the process first.
BindFails(p) ==
  /\ pc[p] = "bind"
  /\ (PortSet /\ ~PortFree) \/ "portclash" \in Faults
  /\ \/ Harakiri(p, "exit") /\ UNCHANGED <<pending, blocked, portVars, kills>>
     \/ /\ kills < MaxKills
        /\ kills' = kills + 1
        /\ Gone(p)
        /\ UNCHANGED <<why, twice>>
  /\ UNCHANGED <<mode, hasJobs, pidfile, script, sent, launches>>

\* In the main loop: accept, SSL_new or SSL_set_fd fails, a client that has
\* left the queue before it is accepted included.
AcceptFails(p) ==
  /\ pc[p] = "run"
  /\ ~client[p]
  /\ "accept" \in Faults
  /\ Harakiri(p, "exit")
  /\ UNCHANGED <<mode, pending, blocked, hasJobs, portVars, outVars>>

\* A client has connected, and servlet begins.
Accept(p) ==
  /\ pc[p] = "run"
  /\ port[p] = "configured"
  /\ ~client[p]
  /\ client' = [client EXCEPT ![p] = TRUE]
  /\ UNCHANGED <<pc, mode, why, twice, pending, blocked, hasJobs, port, lingers, outVars>>

\* servlet returns and the connection is closed; if this end closes first, the system
\* remembers it for a while.
CloseClient(p) ==
  /\ pc[p] = "run"
  /\ client[p]
  /\ client' = [client EXCEPT ![p] = FALSE]
  /\ lingers' \in {lingers, TRUE}
  /\ UNCHANGED <<pc, mode, why, twice, pending, blocked, hasJobs, port, outVars>>

\* The system forgets the connections that were closed.
LingerEnds ==
  /\ lingers
  /\ lingers' = FALSE
  /\ UNCHANGED <<pc, mode, why, twice, pending, blocked, hasJobs, port, client, outVars>>

-----------------------------------------------------------------------------
(* End: harakiri                                                           *)

\* Mutant: the pid file is left to the next start.
UnlinkPidFileForgotten(p) ==
  /\ pc[p] = "unlink"
  /\ GoTo(p, "close")
  /\ UNCHANGED <<mode, why, twice, pending, blocked, hasJobs, portVars, outVars>>

\* Whoever the file names, and whether this process has written one or not.
UnlinkPidFile(p) ==
  /\ pc[p] = "unlink"
  /\ pidfile' = NoProc
  /\ GoTo(p, "close")
  /\ UNCHANGED <<mode, why, twice, pending, blocked, hasJobs, portVars,
                 script, sent, kills, launches>>

\* Mutant: the socket is left to the system, and handed on by execv.
CloseServerForgotten(p) ==
  /\ pc[p] = "close"
  /\ GoTo(p, "free")
  /\ UNCHANGED <<mode, why, twice, pending, blocked, hasJobs, portVars, outVars>>

CloseServer(p) ==
  /\ pc[p] = "close"
  /\ port' = [port EXCEPT ![p] = "none"]
  /\ GoTo(p, "free")
  /\ UNCHANGED <<mode, why, twice, pending, blocked, hasJobs, client, lingers, outVars>>

\* Everything is freed (a second time when harakiri was entered twice, which
\* may end the process) and the process exits.
Exit(p) ==
  /\ pc[p] = "free"
  /\ why[p] # "HUP" \/ twice[p] \/ "exec" \in Faults
  /\ Gone(p)
  /\ UNCHANGED <<mode, why, twice, hasJobs, outVars>>

\* execv: the same program with the same arguments, the same signal mask and, if the
\* signal came during a session, the same socket of the client.
Reexec(p) ==
  /\ pc[p] = "free"
  /\ why[p] = "HUP"
  /\ GoTo(p, "config")
  /\ why' = [why EXCEPT ![p] = "exit"]
  /\ twice' = [twice EXCEPT ![p] = FALSE]
  /\ UNCHANGED <<mode, pending, blocked, hasJobs, portVars, outVars>>

-----------------------------------------------------------------------------
(* Signals and operators                                                   *)

Send(p, s) ==
  /\ pc[p] # "off"
  /\ sent[s] < MaxSignals[s]
  /\ sent' = [sent EXCEPT ![s] = @ + 1]
  /\ pending' = [pending EXCEPT ![p] = @ \cup {s}]

SignalSent(p, s) ==
  /\ Send(p, s)
  /\ UNCHANGED <<pc, mode, why, twice, blocked, hasJobs, portVars,
                 pidfile, script, kills, launches>>

\* Mutant: the handler runs with every signal blocked, and so does the agent
\* after the restart.
DeliverAllBlocked(p, s) ==
  /\ s \in pending[p] \ blocked[p]
  /\ pc[p] # "config"
  /\ Harakiri(p, s)
  /\ pending' = [pending EXCEPT ![p] = @ \ {s}]
  /\ blocked' = [blocked EXCEPT ![p] = Signals]
  /\ UNCHANGED <<mode, hasJobs, portVars, outVars>>

\* Before the handlers are installed a signal ends the process at once.
Deliver(p, s) ==
  /\ s \in pending[p] \ blocked[p]
  /\ \/ /\ pc[p] = "config"
        /\ Gone(p)
        /\ UNCHANGED <<why, twice>>
     \/ /\ pc[p] # "config"
        /\ Harakiri(p, s)
        /\ pending' = [pending EXCEPT ![p] = @ \ {s}]
        /\ blocked' = [blocked EXCEPT ![p] = @ \cup {s}]
        /\ UNCHANGED portVars
  /\ UNCHANGED <<mode, hasJobs, outVars>>

\* kill -9, a fault in a plugin, a PIDFILE that cannot be written (fprintf to a
\* NULL stream), a write to a closed connection (SIGPIPE).
Kill(p) ==
  /\ pc[p] # "off"
  /\ kills < MaxKills
  /\ kills' = kills + 1
  /\ Gone(p)
  /\ UNCHANGED <<mode, why, twice, hasJobs, pidfile, script, sent, launches>>

\* The init script: stop signals the process the pid file names, if any, and start
\* follows without waiting for its end.
ScriptStop ==
  /\ "restart" \in Operations
  /\ script = "idle"
  /\ launches < MaxLaunches
  /\ IF pidfile # NoProc /\ pc[pidfile] # "off"
       THEN Send(pidfile, "TERM")
       ELSE UNCHANGED <<pending, sent>>
  /\ script' = "start"
  /\ UNCHANGED <<pc, mode, why, twice, blocked, hasJobs, portVars, pidfile, kills, launches>>

ScriptStart ==
  /\ script = "start"
  /\ \E p \in Procs : Exec(p, "daemon")
  /\ script' = "idle"

-----------------------------------------------------------------------------
StartStep(p) == ConfigFails(p) \/ ConfigRead(p) \/ NoPidFile(p) \/ PidFileExists(p)
                  \/ WritePid(p) \/ SetUp(p)
                  \/ ContextFails(p) \/ Listen(p) \/ BindFails(p)
EndStep(p) == UnlinkPidFile(p) \/ CloseServer(p) \/ Exit(p) \/ Reexec(p)
Step(p) == StartStep(p) \/ EndStep(p) \/ \E s \in Signals : Deliver(p, s)

Next ==
  \/ \E p \in Procs :
       \/ Launch(p) \/ Step(p) \/ Accept(p) \/ CloseClient(p) \/ AcceptFails(p) \/ Kill(p)
       \/ \E s \in Signals : SignalSent(p, s)
  \/ LingerEnds
  \/ ScriptStop \/ ScriptStart

Spec == Init /\ [][Next]_vars

\* The system runs every process and delivers what is not blocked, and the
\* init script comes to its end.
Fairness == (\A p \in Procs : WF_vars(Step(p))) /\ WF_vars(ScriptStart)

FairSpec == Spec /\ Fairness

-----------------------------------------------------------------------------
(* Properties                                                              *)

\* What the init script signals is an agent: as long as nobody is killed, the
\* pid file names a process that has written it and has not yet removed it,
\* whatever the operators do at the same time.
PidFileNamesLive ==
  kills = 0 => \A p \in Procs :
    pidfile = p => pc[p] \in {"setup", "bind", "run", "unlink"} /\ mode[p] = "daemon"

\* A daemon that runs can be found (and stopped) by the pid file.
PidFileNamesAgent ==
  \A p \in Procs : pc[p] = "run" /\ mode[p] = "daemon" => pidfile = p

\* A signal does not wait for ever: it is acted on, or lost with the parent in the
\* fork of daemonize.  The one that may is a second SIGHUP: the mask in which the
\* first is blocked lasts through execv and fork, so that an agent that was restarted
\* by it is never restarted again.  SIGTERM ends that agent, too.
SignalsHandled ==
  \A p \in Procs : \A s \in Signals :
    s \in pending[p] ~> s \notin pending[p] \/ (s = "HUP" /\ "HUP" \in blocked[p])

\* "Restarting" (main.c:246): an agent that has taken a SIGHUP runs again, with
\* its port and its pid file, unless it is told to end or killed meanwhile, or a
\* call of main fails.  One call that fails without a fault of the system is bind,
\* while a connection holds the port: that of a session the signal has interrupted,
\* or one that was closed lately.  Nothing else keeps the agent from running again.
HupRestarts ==
  \A p \in Procs :
    pc[p] \in Dying /\ why[p] = "HUP" /\ ~twice[p]
      ~> \/ pc[p] = "run"
         \/ "TERM" \in pending[p] \/ why[p] = "TERM" \/ kills > 0
         \/ pc[p] = "bind" /\ PortHeld
=============================================================================
