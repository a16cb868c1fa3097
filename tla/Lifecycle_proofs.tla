--------------------------- MODULE Lifecycle_proofs ---------------------------
(***************************************************************************)
(* Proofs about the pid file, for any number of processes, launches and    *)
(* signals.  As long as no process is killed, the file names an agent that *)
(* can be signalled, whatever the operators do at the same time; and as    *)
(* long as the operators start one agent at a time, an agent that runs as  *)
(* a daemon is the one the file names, even after kills.                   *)
(***************************************************************************)
EXTENDS Lifecycle, TLAPS

-----------------------------------------------------------------------------
(* Types                                                                   *)

\* Every step keeps the types; a socket is closed before everything is freed.
LEMMA TypePreserved ==
  TypeOK /\ [Next]_vars => TypeOK'
<1> SUFFICES ASSUME TypeOK, [Next]_vars
             PROVE  TypeOK'
  OBVIOUS
<1> USE LifecycleAssumption DEF TypeOK, outVars, portVars, Signals, Dying
<1>1. ASSUME NEW p \in Procs, Launch(p) PROVE TypeOK'
  BY <1>1 DEF Launch, Exec, GoTo
<1>2. ASSUME NEW p \in Procs, ConfigFails(p) PROVE TypeOK'
  BY <1>2 DEF ConfigFails, Gone, GoTo
<1>3. ASSUME NEW p \in Procs, ConfigRead(p) PROVE TypeOK'
  BY <1>3 DEF ConfigRead, GoTo
<1>4. ASSUME NEW p \in Procs, NoPidFile(p) PROVE TypeOK'
  BY <1>4 DEF NoPidFile, GoTo
<1>5. ASSUME NEW p \in Procs, PidFileExists(p) PROVE TypeOK'
  BY <1>5 DEF PidFileExists, Harakiri, GoTo
<1>6. ASSUME NEW p \in Procs, WritePid(p) PROVE TypeOK'
  BY <1>6 DEF WritePid, GoTo
<1>7. ASSUME NEW p \in Procs, SetUp(p) PROVE TypeOK'
  BY <1>7 DEF SetUp, Harakiri, GoTo
<1>8. ASSUME NEW p \in Procs, ContextFails(p) PROVE TypeOK'
  BY <1>8 DEF ContextFails, Harakiri, GoTo
<1>9. ASSUME NEW p \in Procs, Listen(p) PROVE TypeOK'
  BY <1>9 DEF Listen, GoTo
<1>10. ASSUME NEW p \in Procs, BindFails(p) PROVE TypeOK'
  <2>1. CASE Harakiri(p, "exit") /\ UNCHANGED <<pending, blocked, portVars, kills>>
    BY <1>10, <2>1 DEF BindFails, Harakiri, GoTo
  <2>2. CASE /\ kills < MaxKills
             /\ kills' = kills + 1
             /\ Gone(p)
             /\ UNCHANGED <<why, twice>>
    BY <1>10, <2>2 DEF BindFails, Gone, GoTo
  <2> QED
    BY <1>10, <2>1, <2>2 DEF BindFails
<1>11. ASSUME NEW p \in Procs, AcceptFails(p) PROVE TypeOK'
  BY <1>11 DEF AcceptFails, Harakiri, GoTo
<1>12. ASSUME NEW p \in Procs, UnlinkPidFile(p) PROVE TypeOK'
  BY <1>12 DEF UnlinkPidFile, GoTo
<1>13. ASSUME NEW p \in Procs, CloseServer(p) PROVE TypeOK'
  BY <1>13 DEF CloseServer, GoTo
<1>14. ASSUME NEW p \in Procs, Exit(p) PROVE TypeOK'
  BY <1>14 DEF Exit, Gone, GoTo
<1>15. ASSUME NEW p \in Procs, Reexec(p) PROVE TypeOK'
  BY <1>15 DEF Reexec, GoTo
<1>16. ASSUME NEW p \in Procs, Kill(p) PROVE TypeOK'
  BY <1>16 DEF Kill, Gone, GoTo
<1>17. ASSUME NEW p \in Procs, NEW s \in Signals, SignalSent(p, s) PROVE TypeOK'
  BY <1>17 DEF SignalSent, Send
<1>18. ASSUME NEW p \in Procs, NEW s \in Signals, Deliver(p, s) PROVE TypeOK'
  <2>1. CASE pc[p] = "config" /\ Gone(p) /\ UNCHANGED <<why, twice>>
    BY <1>18, <2>1 DEF Deliver, Gone, GoTo
  <2>2. CASE /\ Harakiri(p, s)
             /\ pending' = [pending EXCEPT ![p] = pending[p] \ {s}]
             /\ blocked' = [blocked EXCEPT ![p] = blocked[p] \cup {s}]
             /\ UNCHANGED portVars
    BY <1>18, <2>2 DEF Deliver, Harakiri, GoTo
  <2> QED
    BY <1>18, <2>1, <2>2 DEF Deliver
<1>19. CASE ScriptStop
  BY <1>19 DEF ScriptStop, Send
<1>20. CASE ScriptStart
  BY <1>20 DEF ScriptStart, Exec, GoTo
<1>21. ASSUME NEW p \in Procs, Accept(p) PROVE TypeOK'
  BY <1>21 DEF Accept
<1>22. ASSUME NEW p \in Procs, CloseClient(p) PROVE TypeOK'
  BY <1>22 DEF CloseClient
<1>23. CASE LingerEnds
  BY <1>23 DEF LingerEnds
<1>24. CASE UNCHANGED vars
  BY <1>24 DEF vars
<1> QED
  BY <1>1, <1>2, <1>3, <1>4, <1>5, <1>6, <1>7, <1>8, <1>9, <1>10, <1>11,
     <1>12, <1>13, <1>14, <1>15, <1>16, <1>17, <1>18, <1>19, <1>20, <1>21,
     <1>22, <1>23, <1>24
     DEF Next, Step, StartStep, EndStep

\* Every variable keeps its type; no process but one that listens, or is on its way
\* to the close in harakiri, has a listening socket, and none that ended has the
\* socket of a client.
THEOREM TypeCorrect == Spec => []TypeOK
<1>1. ASSUME Init PROVE TypeOK
  <2>1. kills \in 0..MaxKills /\ launches \in 0..MaxLaunches /\ sent \in [Signals -> Nat]
    BY <1>1, LifecycleAssumption DEF Init
  <2>2. pidfile \in Procs \cup {NoProc} /\ script \in {"idle", "start"} /\ lingers \in BOOLEAN
    BY <1>1 DEF Init
  <2>3. /\ client \in [Procs -> BOOLEAN]
        /\ \A p \in Procs : ~client[p] /\ port[p] = "none"
    BY <1>1 DEF Init
  <2>4. /\ why \in [Procs -> {"exit"} \cup Signals]
        /\ twice \in [Procs -> BOOLEAN]
        /\ pending \in [Procs -> SUBSET Signals]
        /\ blocked \in [Procs -> SUBSET Signals]
        /\ hasJobs \in [Procs -> BOOLEAN]
    BY <1>1 DEF Init
  <2>5. /\ pc \in [Procs -> {"off", "config", "check", "write", "setup", "bind", "run"}
                              \cup Dying]
        /\ mode \in [Procs -> {"daemon", "foreground"}]
        /\ port \in [Procs -> {"none", "configured", "stray"}]
    BY <1>1 DEF Init
  <2> QED
    BY <2>1, <2>2, <2>3, <2>4, <2>5 DEF TypeOK
<1> QED
  BY <1>1, TypePreserved, PTL DEF Spec

-----------------------------------------------------------------------------
(* The pid file names a live agent                                         *)

\* Only a daemon looks for the pid file and writes it.
OnlyDaemons ==
  /\ \A p \in Procs : pc[p] \in {"check", "write"} => mode[p] = "daemon"
  /\ PidFileNamesLive

\* harakiri removes the file first, and only the process the file names leaves the
\* states in which it may be named.
LEMMA LivePreserved ==
  TypeOK /\ OnlyDaemons /\ [Next]_vars => OnlyDaemons'
<1> SUFFICES ASSUME TypeOK, OnlyDaemons, [Next]_vars
             PROVE  OnlyDaemons'
  OBVIOUS
<1> USE LifecycleAssumption DEF OnlyDaemons, PidFileNamesLive, TypeOK,
    outVars, portVars, Dying
<1>1. ASSUME NEW p \in Procs, Launch(p) PROVE OnlyDaemons'
  BY <1>1 DEF Launch, Exec, GoTo
<1>2. ASSUME NEW p \in Procs, ConfigFails(p) PROVE OnlyDaemons'
  BY <1>2 DEF ConfigFails, Gone, GoTo
<1>3. ASSUME NEW p \in Procs, ConfigRead(p) PROVE OnlyDaemons'
  BY <1>3 DEF ConfigRead, GoTo
<1>4. ASSUME NEW p \in Procs, NoPidFile(p) PROVE OnlyDaemons'
  BY <1>4 DEF NoPidFile, GoTo
<1>5. ASSUME NEW p \in Procs, PidFileExists(p) PROVE OnlyDaemons'
  BY <1>5 DEF PidFileExists, Harakiri, GoTo
<1>6. ASSUME NEW p \in Procs, WritePid(p) PROVE OnlyDaemons'
  BY <1>6 DEF WritePid, GoTo
<1>7. ASSUME NEW p \in Procs, SetUp(p) PROVE OnlyDaemons'
  BY <1>7 DEF SetUp, Harakiri, GoTo
<1>8. ASSUME NEW p \in Procs, ContextFails(p) PROVE OnlyDaemons'
  BY <1>8 DEF ContextFails, Harakiri, GoTo
<1>9. ASSUME NEW p \in Procs, Listen(p) PROVE OnlyDaemons'
  BY <1>9 DEF Listen, GoTo
<1>10. ASSUME NEW p \in Procs, BindFails(p) PROVE OnlyDaemons'
  BY <1>10 DEF BindFails, Harakiri, Gone, GoTo
<1>11. ASSUME NEW p \in Procs, AcceptFails(p) PROVE OnlyDaemons'
  BY <1>11 DEF AcceptFails, Harakiri, GoTo
<1>12. ASSUME NEW p \in Procs, UnlinkPidFile(p) PROVE OnlyDaemons'
  BY <1>12 DEF UnlinkPidFile, GoTo
<1>13. ASSUME NEW p \in Procs, CloseServer(p) PROVE OnlyDaemons'
  BY <1>13 DEF CloseServer, GoTo
<1>14. ASSUME NEW p \in Procs, Exit(p) PROVE OnlyDaemons'
  BY <1>14 DEF Exit, Gone, GoTo
<1>15. ASSUME NEW p \in Procs, Reexec(p) PROVE OnlyDaemons'
  BY <1>15 DEF Reexec, GoTo
<1>16. ASSUME NEW p \in Procs, Kill(p) PROVE OnlyDaemons'
  BY <1>16 DEF Kill, Gone, GoTo
<1>17. ASSUME NEW p \in Procs, NEW s \in Signals, SignalSent(p, s) PROVE OnlyDaemons'
  BY <1>17 DEF SignalSent, Send
<1>18. ASSUME NEW p \in Procs, NEW s \in Signals, Deliver(p, s) PROVE OnlyDaemons'
  BY <1>18 DEF Deliver, Harakiri, Gone, GoTo
<1>19. CASE ScriptStop
  BY <1>19 DEF ScriptStop, Send
<1>20. CASE ScriptStart
  BY <1>20 DEF ScriptStart, Exec, GoTo
<1>21. ASSUME NEW p \in Procs, Accept(p) PROVE OnlyDaemons'
  BY <1>21 DEF Accept
<1>22. ASSUME NEW p \in Procs, CloseClient(p) PROVE OnlyDaemons'
  BY <1>22 DEF CloseClient
<1>23. CASE LingerEnds
  BY <1>23 DEF LingerEnds
<1>24. CASE UNCHANGED vars
  BY <1>24 DEF vars
<1> QED
  BY <1>1, <1>2, <1>3, <1>4, <1>5, <1>6, <1>7, <1>8, <1>9, <1>10, <1>11,
     <1>12, <1>13, <1>14, <1>15, <1>16, <1>17, <1>18, <1>19, <1>20, <1>21,
     <1>22, <1>23, <1>24
     DEF Next, Step, StartStep, EndStep

\* What the init script signals is an agent, as long as nobody was killed.
THEOREM PidFileNamesLiveHolds == Spec => []PidFileNamesLive
<1>1. Init => OnlyDaemons
  BY LifecycleAssumption DEF Init, OnlyDaemons, PidFileNamesLive
<1>2. OnlyDaemons => PidFileNamesLive
  BY DEF OnlyDaemons
<1>3. TypeOK /\ OnlyDaemons /\ [Next]_vars => OnlyDaemons'
  BY LivePreserved
<1> QED
  BY <1>1, <1>2, <1>3, TypeCorrect, PTL DEF Spec

-----------------------------------------------------------------------------
(* A daemon that runs is named by the pid file                             *)

\* An agent is started, by hand, only when there is none.
OneAtATime == Operations \cap {"hasty", "restart"} = {}

\* There is one process at most, signals go to no other, and a daemon that has
\* written the file has not lost it.
Alone ==
  /\ \A p, q \in Procs : pc[p] # "off" /\ pc[q] # "off" => p = q
  /\ \A p \in Procs : pc[p] = "off" => pending[p] = {}
  /\ \A p \in Procs :
       pc[p] \in {"setup", "bind", "run"} /\ mode[p] = "daemon" => pidfile = p
  /\ script = "idle"

\* The only process that could remove or overwrite the file is the one it names.
LEMMA AlonePreserved ==
  OneAtATime /\ TypeOK /\ Alone /\ [Next]_vars => Alone'
<1> SUFFICES ASSUME OneAtATime, TypeOK, Alone, [Next]_vars
             PROVE  Alone'
  OBVIOUS
<1> USE LifecycleAssumption DEF OneAtATime, Alone, TypeOK, outVars, portVars, Dying
<1>1. ASSUME NEW p \in Procs, Launch(p) PROVE Alone'
  BY <1>1 DEF Launch, Exec, GoTo
<1>2. ASSUME NEW p \in Procs, ConfigFails(p) PROVE Alone'
  BY <1>2 DEF ConfigFails, Gone, GoTo
<1>3. ASSUME NEW p \in Procs, ConfigRead(p) PROVE Alone'
  BY <1>3 DEF ConfigRead, GoTo
<1>4. ASSUME NEW p \in Procs, NoPidFile(p) PROVE Alone'
  BY <1>4 DEF NoPidFile, GoTo
<1>5. ASSUME NEW p \in Procs, PidFileExists(p) PROVE Alone'
  BY <1>5 DEF PidFileExists, Harakiri, GoTo
<1>6. ASSUME NEW p \in Procs, WritePid(p) PROVE Alone'
  BY <1>6 DEF WritePid, GoTo
<1>7. ASSUME NEW p \in Procs, SetUp(p) PROVE Alone'
  BY <1>7 DEF SetUp, Harakiri, GoTo
<1>8. ASSUME NEW p \in Procs, ContextFails(p) PROVE Alone'
  BY <1>8 DEF ContextFails, Harakiri, GoTo
<1>9. ASSUME NEW p \in Procs, Listen(p) PROVE Alone'
  BY <1>9 DEF Listen, GoTo
<1>10. ASSUME NEW p \in Procs, BindFails(p) PROVE Alone'
  BY <1>10 DEF BindFails, Harakiri, Gone, GoTo
<1>11. ASSUME NEW p \in Procs, AcceptFails(p) PROVE Alone'
  BY <1>11 DEF AcceptFails, Harakiri, GoTo
<1>12. ASSUME NEW p \in Procs, UnlinkPidFile(p) PROVE Alone'
  BY <1>12 DEF UnlinkPidFile, GoTo
<1>13. ASSUME NEW p \in Procs, CloseServer(p) PROVE Alone'
  BY <1>13 DEF CloseServer, GoTo
<1>14. ASSUME NEW p \in Procs, Exit(p) PROVE Alone'
  BY <1>14 DEF Exit, Gone, GoTo
<1>15. ASSUME NEW p \in Procs, Reexec(p) PROVE Alone'
  BY <1>15 DEF Reexec, GoTo
<1>16. ASSUME NEW p \in Procs, Kill(p) PROVE Alone'
  BY <1>16 DEF Kill, Gone, GoTo
<1>17. ASSUME NEW p \in Procs, NEW s \in Signals, SignalSent(p, s) PROVE Alone'
  BY <1>17 DEF SignalSent, Send
<1>18. ASSUME NEW p \in Procs, NEW s \in Signals, Deliver(p, s) PROVE Alone'
  <2>1. CASE pc[p] = "config" /\ Gone(p) /\ UNCHANGED <<why, twice>>
    BY <1>18, <2>1 DEF Deliver, Gone, GoTo
  <2>2. CASE /\ Harakiri(p, s)
             /\ pending' = [pending EXCEPT ![p] = pending[p] \ {s}]
             /\ blocked' = [blocked EXCEPT ![p] = blocked[p] \cup {s}]
             /\ UNCHANGED portVars
    BY <1>18, <2>2 DEF Deliver, Harakiri, GoTo
  <2> QED
    BY <1>18, <2>1, <2>2 DEF Deliver
<1>19. CASE ScriptStop
  BY <1>19 DEF ScriptStop, Send
<1>20. CASE ScriptStart
  BY <1>20 DEF ScriptStart, Exec, GoTo
<1>21. ASSUME NEW p \in Procs, Accept(p) PROVE Alone'
  BY <1>21 DEF Accept
<1>22. ASSUME NEW p \in Procs, CloseClient(p) PROVE Alone'
  BY <1>22 DEF CloseClient
<1>23. CASE LingerEnds
  BY <1>23 DEF LingerEnds
<1>24. CASE UNCHANGED vars
  BY <1>24 DEF vars
<1> QED
  BY <1>1, <1>2, <1>3, <1>4, <1>5, <1>6, <1>7, <1>8, <1>9, <1>10, <1>11,
     <1>12, <1>13, <1>14, <1>15, <1>16, <1>17, <1>18, <1>19, <1>20, <1>21,
     <1>22, <1>23, <1>24
     DEF Next, Step, StartStep, EndStep

\* A daemon that runs is named by the pid file, if agents are started one at a
\* time.
THEOREM PidFileNamesAgentHolds == ASSUME OneAtATime PROVE Spec => []PidFileNamesAgent
<1>1. Init => Alone
  BY DEF Init, Alone
<1>2. Alone => PidFileNamesAgent
  BY DEF Alone, PidFileNamesAgent
<1>3. TypeOK /\ Alone /\ [Next]_vars => Alone'
  BY OneAtATime, AlonePreserved
<1> QED
  BY <1>1, <1>2, <1>3, TypeCorrect, PTL DEF Spec
=============================================================================
