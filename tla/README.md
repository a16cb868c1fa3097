# Verification of loggeragent

loggeragent is the monitoring agent of Loggerithim: a single-threaded Unix daemon
that serves management scripts to clients over TLS, runs recurring jobs of its
plugins, and, with the metric plugin, sends measurements to a collector and keeps
what it could not send. This directory models it in TLA+, checks the models with
TLC, and proves the main results with TLAPS. Line numbers refer to the source
files next to it (`src/` of the repository, `plugins/`, `res/`).

## 1. Inventory

| Part | Source | State it keeps | Operations | Interacts with |
|---|---|---|---|---|
| Main loop | `src/main.c` 121-168 | timeout of `select`, listening socket | wait, accept, serve, run jobs | clients, `servlet`, `run_jobs` |
| Job scheduler | `src/job.c` | `jobs` (function, interval, `lastrun`) | `add_job`, `run_jobs`, `free_jobs` | plugins, wall clock |
| Client session | `src/network.c` 165-303 | locals of `servlet`, the TLS connection | handshake, read, parse, answer, clear | interpreter, buffers |
| Script interpreter | `src/script.c` | - | `parse_doc`, `parse_commands` | handler table |
| Plugin table | `src/module.c` | `handlers`, `dllist` and their counts | load, look up, call, unload | plugins, jobs |
| Log and output buffers | `src/log.c` | `buffererr`, `errors`, `output` | `llog`, `buffer_errors`, `add_output`, clear | every part |
| Metric store-and-forward | `plugins/metricops.c` | the save directory | gather, send, save, resend | collector, file system |
| Execute handler | `plugins/fileops.c` 191-258 | working directory, child | `popen`/`wait3`/`fgets`, `system` | shell, pipe, SIGCHLD |
| Lifecycle | `src/main.c` 38-119, 174-252, `res/loggeragent.init.in` | pid file, port, signal mask | start, daemonize, `harakiri`, re-exec | other processes, operators |
| TLS context, sockets | `src/network.c` 17-142 | `ctx` | `init_context`, open | lifecycle, metrics |
| Configuration | `src/configfile.c` | parsed document | read, look up, free | every part |
| File handlers | `plugins/fileops.c` 43-189, 260-380 | directory entries, descriptors left open | create, remove, move, link, write, list | interpreter, `execute` |
| Ftp handlers | `plugins/ftpops.c` | the local and the remote file | put, get | libcurl, file handlers |
| Metric gathering | `plugins/linux_metric.c`, `solaris_metric.c`, `metricops.c` 388-536 | `s_stats`, open files | `gather`, `lstat_to_string`, `lstat_free` | `/proc`, kstat, mount table |
| Windows agent | `windows/` | `serviceStatus`, the log file | worker loop, control handler, install | service control manager |
| Other plugins | `plugins/packageops.c`, `solaris_devices.c`, `darwin_plugin.c` | - | stubs and formatting | interpreter |

What is hard here: the agent may die between any two system calls (a signal,
SIGPIPE, undefined behaviour) with work half done on disk; the two buffers are
shared by all clients and jobs; one thread serves clients and jobs, so each can
keep the other out; `harakiri` runs in a signal handler and can be entered again;
several processes share a pid file and a port; children are reaped behind the
agent's back because SIGCHLD is ignored; the Windows service writes its log from two
threads and, for a while, from two processes; and many results of calls are not looked
at. `PROJECT.json` lists each such place under `hazards` with the properties for it.

What makes each part correct:

* metrics: a gathered metric is not lost silently, the directory stays within its
  limit and is drained, nothing is sent twice without a failure;
* sessions: a client sees its own texts only, the status is right, the servlet
  returns;
* loop and jobs: jobs are on time and recur, clients are served;
* lifecycle: the pid file names the running agent, signals are acted on, a reload
  or restart leaves an agent running;
* plugins: no function is called in an unmapped file, the table is complete,
  everything is freed once;
* execute: the agent comes back, in the directory it was in, with the output or an
  error, unless it and the command wait for each other;
* file and ftp handlers: what `+OK+` or `+NOK+` says has happened has happened;
* gathering: what is reported was gathered in the same round and is complete, files
  are closed again, and what can keep the next round from working is known;
* Windows service: a stop is acted on, and little is written after it.

## 2. Modules

| Module | Models | Proofs |
|---|---|---|
| `MetricDelivery` | what the metric plugin promises (abstract) | |
| `MetricStore` | `metric_sender`, `send_metric`, `save_metric`, `send_saved_metrics` | `MetricStore_proofs` |
| `LogBuffers` | the buffers of `log.c`; part of `Servlet` | |
| `ScriptService` | what a client may rely on (abstract) | |
| `Servlet` | `servlet`, `ssl_send`, `script.c`, handler look-up and call | `Servlet_proofs` |
| `MainLoop` | `select` loop of `main`, `add_job`, `run_jobs` | `MainLoop_proofs` |
| `Lifecycle` | `main`, `daemonize`, `harakiri`, sockets and context, init script | `Lifecycle_proofs` |
| `Agent` | the metric job in the main loop: `MetricStore` inside `MainLoop` | `MetricStore_proofs`, second part |
| `Modules` | `load_module` to `unload_modules`, jobs of plugins, teardown | `Modules_proofs` |
| `Execute` | the `execute` handler, its child and the pipe; part of `FileHandlers` | `FileHandlers_proofs` |
| `FileHandlers` | the handlers of `fileops.c` and `ftpops.c` that change files | `FileHandlers_proofs` |
| `Gather` | `gather` of Linux and Solaris, `lstat_to_string`, `lstat_free` | `Gather_proofs` |
| `WindowsService` | the service, its worker, control handler and log | `WindowsService_proofs` |

`MC<module>.tla` with `MC<module>_<run>.cfg` give the constants of each run.
Definitions that start with "Mutant:" in their comment are wrong on purpose: each
is put in the place of a definition, and the property it is listed with must then
fail. They are part of no specification.

### State and actions against the code

**MetricStore.** `pc` is the system call to be made next: `connect`, `write`,
`close` (`send_metric`, for a new metric when `file` is `NoName`, for a saved one
otherwise), `count`, `create`, `fill` (`save_metric`), `list`, `next`, `unlink`
(`send_saved_metrics`). `dir` is the save directory, the only thing that survives
`Crash`. A text is whole, cut short or empty; that is all the code's behaviour
depends on. Failures are constants (`Faults`): those the code reports, and the
silent ones, whose results it does not look at. `lost` is the set of metrics whose
loss an operator can see: logged with LOG_ERR, or in memory when the agent died.
`struck` is the set of metrics that an unchecked failure has hit, which nobody sees: a
read of the save file that fails (`Readings`) is one of them, since `fgets` returns NULL
then as at the end of the file. The collector is up, down (connections are refused) or
silent: it accepts, and `SSL_connect` and `SSL_write` wait for it.

**Agent.** `called` says that `run_jobs` is inside `metric_sender`, which then makes the
steps of `MetricStore`; `delay` is what `sleep(1)` and `connect` still take, and `stalled`
the seconds of this run in which `SSL_connect` or `SSL_write` has waited for a silent
collector (`AwaitsCollector`): neither has a timeout. `MaxSilence` bounds them, which is an
assumption about the collector that the code makes nothing of. Between two
jobs only the steps of `MainLoop` are possible. Its state is that of the main loop by
`INSTANCE`, so that `LoopKept` says that the composition implements `MainLoop` with one
job that runs for `LongestRun` seconds and those of `stalled` at most.

**Servlet over LogBuffers.** `pc` names the statement; an `SSL_read` or `SSL_write`
is a step, and can fail. `session` numbers the clients, 0 stands for the jobs. The
buffers remember who wrote what is in them. A handler prints and logs errors any
number of times. `HasHandler` and `Called` are `strncmp` and `strcmp` over names,
which are short sequences of letters. `Die` stands for every end of the process.

**MainLoop.** Time passes in seconds (`Tick`) while the agent waits, serves or runs
a job; scanning takes none. `age` is what `time(NULL) - lastrun` gives, `since` what
really passed; `SetClock` changes the first only. `Accept` is possible at the moment
the timeout ends as well, as with `select`.

**Lifecycle.** Each process has a `pc` for the system calls others can notice. A process
id is a member of `Procs`, which is reused only when the pid file does not name it.
Signals are pending until delivered, blocked while their handler runs (BSD `signal`),
and the mask survives `execv`. The `fork` of `daemonize` hands mask and sockets on, and
drops what is pending. `client` says that a process has an accepted connection open,
which `harakiri` does not close and `execv` hands on; `lingers`, that one was closed
lately. Either keeps `bind` from succeeding (`PortHeld`), because `open_listener` does
not set SO_REUSEADDR. Reads of uninitialised memory are choices: `stat(PIDFILE, buf)`
may fail for a file that exists (`statfault`), the port may be a stray one.

**Modules.** `load_module` is one step, since signals still have their default
action then and end the process; `init` of the plugin is another. In `harakiri` every
free is a step. A nested `harakiri` does not return to the outer one, so the state of
the loops is simply started anew. What it may then free again is in the model, and
the properties about the teardown speak of one that is not interrupted (`Uninterrupted`);
`TableComplete` needs no such condition.

**Execute.** The agent and the child are two actors. A wait returns when there is no
child, and tells nothing, because SIGCHLD is ignored; `status` is then any member of
`Statuses`. `fgets` returns a line or what fits its buffer (`Lines`), and `add_output`
keeps of a piece no more than what is there already (`Kept`); `steep` remembers that a
piece was longer than all before it, and may have been cut.

**FileHandlers over Execute.** A handler runs to its end before the next node is looked
at, so it is one action, with a disjunct for each way its system calls can turn out. It
works on `files[here]`, the directory `execute` has left the agent in. A text is a
sequence of pieces; a link is followed once, which is right for two names, where a link
to a link leads back to itself. `known` is what a client may conclude from
the answers, computed from its own request, from what it knew before, and from whether the
answer is `+OK+` or `+NOK+`: no text of an error reaches it (run `errors`). Where a handler
logs its success as an error, or `+NOK+` stands for several ends, it concludes less
(`Concludes`, `Lost`). `open` counts the
descriptors nobody will close (`createfile` keeps one per file), which `popen` needs.

**Gather.** `pc` is the file, or the loop, that `gather` is at. A file is the sequence
of its lines, a line the word it begins with. What the code takes for granted of
`/proc/stat` is assumed of it: there is a first line, and if that is the one `fscanf`
expects, the lines of the processors come before all others (`CpusFirst`). `set`,
`interfaces` and `filesystems` are the members of the structure on the caller's stack:
garbage until they are set. Every early return leads to `lstat_free` (`FreeStats`),
which goes over the lists whatever they hold; what happens then is a choice unless a
pointer is NULL. A failed round leaves a file open (`Return`). A read in a loop can fail
(`ReadError`), which looks like the end of the file, and a kstat can lack a member, in
which case -1 is used as a pointer (`Crash`). Each `Restart` is one by init(8), which
finds all files closed.

**WindowsService.** Per process there are a worker (`serviceMain`) and a handler
(`controlHandler`), per machine the manager's view of the service (`scm`, `installed`) and
the log. A line is written in two steps, to look for the end of the file and to write
there, so two writers can find the same end and one line is lost. `asides` counts the
lines that are not part of a report of the service that runs. The manager sends no
control before it was told SERVICE_RUNNING and none after SERVICE_STOPPED; that, and that
a process can be started while the last one still ends, is external.

## 3. Runs

Runs that must pass:

| Run | Question | Bounds |
|---|---|---|
| `delivery` | Can the save directory exceed its limit? Is a metric ever lost without a trace, but to an unchecked failure that hit it? (refines `MetricDelivery`) | 3 metrics, 3 names, limit 2, 2 crashes, all faults |
| `agent` | Does the metric job keep the loop longer than it may? (refines `MainLoop`) Is a metric sent again that the collector has? Is the directory emptied while the collector is up, between clients? | 3 metrics, 2 names, limit 2, silent faults but the unchecked write, full disk, a second of silence, 1 client at a time; liveness |
| `answer` | Own texts only, and the right status? (refines `ScriptService`) Does a session end once its document is read? | 3 sessions, 6 scripts, 1 death; liveness |
| `ontime` | How late can a job be? Do all jobs recur and all clients get served? | 2 jobs, intervals 0 and 3, timeout 3, 2 clients, clock set once; liveness |
| `live` | Does the pid file name a live daemon that wrote it? | 3 processes, hasty operators, init script, one signal of each kind, 1 kill, no `listenport` |
| `reload` | Is a running daemon named by the pid file? Which signals are never acted on? When does SIGHUP not lead to a running agent? | 2 processes one at a time, 2 starts, two SIGHUPs, one SIGTERM, 1 kill, clients; liveness |
| `teardown` | Load, call, unload: order, completeness, single frees | 4 files, 3 plugins, 2 jobs, reload, `harakiri` entered twice |
| `handlers` | Can a client trust its answers? Does a command run where it was asked to, and when does its output reach the client? What can keep the handler for ever? | 4 nodes of any kind, 2 files, texts of 2 pieces, pipe of 3, output of 3 and 4, lines up to 2, 2 descriptors; liveness |
| `gather` | Is a report whole and complete? Are files closed and memory freed? What can end the gathering for good? | Linux 2.4 and 2.6 and Solaris, 3 failed calls or reads, 3 descriptors, a `/proc/meminfo` without its line; liveness |
| `service` | What is written after a stop? Can a stop be lost? | 2 starts, 2 reports of 2 lines each; liveness |

The bounds let the interesting cases meet. Two saved metrics and a third one reach
the limit and have it refused; three names let a file be read while one is taken and
one is free, two crashes let a second one hit the recovery from the first. Three
sessions let a text of the first, or of a job between, show up two sessions later; a
handler name of one letter less, one that begins with "text" and one exported twice
are among the scripts. Two jobs are the smallest number in which one job waits for
another's run; two clients make the lateness add up; the largest lateness the bound
of `JobsOnTime` allows, 19, is below `MaxAge`, so counting up to `MaxAge` hides none.
Three processes are an agent, a second start and a process of the init script.
In `teardown` the second `harakiri` starts at any step of the first.
Deadlock is checked except in `Lifecycle`, `Modules`, `FileHandlers` and
`WindowsService`, where the system really may stop: every process has ended, or the
bound on starts or commands is used up.
In `agent` one second of silence is as long as one of `sleep`, `connect` or a session, so
that it can make a run longer than `LongestRun`; `MaxAge` is the interval of the job. In
`reload` the second SIGHUP meets the mask the first has left, a start follows a kill and
finds its pid file, and a client may be there when the signal comes. In `gather` three
failures can use up the three descriptors, with a round after each that still has some;
and a read that fails, or a file without the line, leads into the endless loop. In
`handlers` a command prints as much as the pipe holds, or more, in lines of one or two,
of which the second may be longer than the first. Four
nodes let a file be made, linked to, written through the link and moved or downloaded
over, and let `createfile` take the descriptor that `popen` needs. In `service` the second
process starts while the worker of the first is anywhere in its last report.

Symmetry is used in `live` (processes) and `delivery` (metrics and names), which have no
liveness property.

Runs that must find a violation; each states what a message, a comment or a document
of the repository says, and `PROJECT.json` quotes it under `findings`:

| Run | The code |
|---|---|
| `errors` | answers `+NOK+` with the output, twice, and never sends the errors |
| `failed` | goes over lists that a failed `gather` never set, and may die of it |

## 4. Fairness

* `Agent`: the thread goes on (its calls return), time passes, and `gather` does not fail
  for ever (strong fairness of `CallGathers`: there are calls again and again, and one of
  them gathers). That `metric_sender` is called again and again is not assumed but
  follows from the loop. Nothing is assumed of the collector and the clients: `Drains`
  speaks of runs in which the collector stays up. A thread that waits for a silent collector
  has no step, so fairness does not make it go on.
* `Servlet`: the thread goes on, handlers return, writes return (at the latest with
  an error; an answer fits into the socket's buffer). Steps that wait for the client
  to send are not fair: a silent client keeps the agent for ever. That handlers return
  is an assumption about plugins, which `execute` does not keep when a command prints
  more than the pipe holds (section 6).
* `MainLoop`: time passes, and sessions end after `MaxSession` seconds. The code
  leaves the latter to the client; it is a parameter of the bound that is proved.
* `Lifecycle`: every process is scheduled and unblocked signals are delivered. A
  signal that interrupts `malloc` or `syslog` could hang `harakiri`; that is left out.
  `AcceptFails`, `Kill`, the clients, the end of TIME_WAIT and the operators are not fair.
* `FileHandlers`: the agent and the command are scheduled, and the command ends if what it
  prints is taken.
* `Gather`: the agent goes on, its calls return, and init(8) restarts it.
* `WindowsService`: the dispatcher's thread is scheduled and a process whose `main`
  returns ends. Nothing is assumed of the worker.

Failures of the environment are never fair on their own account: they are
alternatives of a step, never required to happen.

## 5. Proofs

All theorems hold for every value of the constants that meets the modules' named
assumptions; the extra assumptions are in the statements.

| Theorem | Statement | Extra assumption |
|---|---|---|
| `MetricStore_proofs!TypeCorrect` | `Spec => []TypeOK` | |
| `SaveLimitHolds` | `Spec => []SaveLimitRespected` | |
| `DeliveryHolds` | `Spec => DeliveryKept` | |
| `AtMostOnceHolds` | `Spec => []AtMostOnce` | no crash, no failing close or unlink |
| `Servlet_proofs!TypeCorrect` | `Spec => []TypeOK` | |
| `OwnTextOnlyHolds` | `Spec => []OwnTextOnly` | |
| `ServiceHolds` | `Spec => ServiceKept` | |
| `MainLoop_proofs!TypeCorrect` | `Spec => []TypeOK` | |
| `JobsOnTimeHolds` | `Spec => []JobsOnTime` | clients are counted to the end (`~Endless`) |
| `Lifecycle_proofs!TypeCorrect` | `Spec => []TypeOK` | |
| `PidFileNamesLiveHolds` | `Spec => []PidFileNamesLive` (which speaks of the time until an agent is killed) | |
| `PidFileNamesAgentHolds` | `Spec => []PidFileNamesAgent` | agents are started one at a time |
| `MetricStore_proofs!AgentTypeCorrect` | `AgentSpec => []AgentTypeOK` | |
| `LoopKeptHolds` | `AgentSpec => LoopKept` | |
| `AgentImplementsStore` | `AgentSpec => Spec` of `MetricStore` | |
| `AgentDelivers` | `AgentSpec => DeliveryKept /\ []SaveLimitRespected` | |
| `AgentAtMostOnce` | `AgentSpec => []AtMostOnce` | no crash, no failing close or unlink |
| `MetricOnTime` | `AgentSpec => []Loop!JobsOnTime` | the collector's silences are `MaxSilence` long at most (a constant of `Agent`) |
| `Modules_proofs!TypeCorrect` | `Spec => []TypeOK` | |
| `CallsLoadedHolds` | `Spec => []CallsLoaded` | |
| `TableCompleteHolds` | `Spec => []TableComplete` | |
| `TerminatesGracefullyHolds` | `Spec => []TerminatesGracefully` | |
| `EachUnloadedOnceHolds` | `Spec => []EachUnloadedOnce` | |
| `FileHandlers_proofs!TypeCorrect` | `Spec => []HandlersTypeOK` | |
| `RunWhereAskedHolds` | `Spec => []RunWhereAsked` | |
| `OutputOrErrorHolds` | `Spec => []OutputOrError` | |
| `AnswersTrueHolds` | `Spec => []AnswersTrue` | |
| `Gather_proofs!TypeCorrect` | `Spec => []TypeOK` | |
| `RenderedWholeHolds` | `Spec => []RenderedWhole` | |
| `CountsRightHolds` | `Spec => []CountsRight` | |
| `ResourcesReturnedHolds` | `Spec => []ResourcesReturned` | |
| `WindowsService_proofs!TypeCorrect` | `Spec => []TypeOK` | |
| `AtMostOneReportLateHolds` | `Spec => []AtMostOneReportLate` | |
| `LinesKeptHolds` | `Spec => []LinesKept` | |
| `StoppedForGoodHolds` | `Spec => StoppedForGood` | |

The named assumptions are the types of the constants and no more, but for these: the
values that stand for "none" are no others, a pipe, a buffer and a report hold something
(`Execute`, `WindowsService`), ages are counted beyond the longest interval (`MainLoop`,
`Agent`), there are two names of files at most (`FileHandlers`), and `/proc/stat` has
its format (`Gather`).

The arguments:

* *MetricStore.* The invariant adds the shape of memory and directory to the types:
  which text is in the buffer at each call, which file it came from, and that while a
  new metric is being saved there is room in the directory. The limit follows because
  one agent writes: what was counted cannot grow before the file is created. The
  refinement maps `pending` to what is in memory or on disk; each step of the code is a
  gather, a delivery, a retirement or a loss of one metric, or changes nothing, and a
  metric is retired by `unlink` or `SendSucceeded` only after it was received, which the
  invariant carries from `write` to `close` and on to `unlink`, or after a silent fault
  has struck it, which the abstract specification counts. What was read of a save file is
  its text, or a part of it if a read has failed, and then the metric is struck.
* *Servlet.* The invariant says in which states the buffers are empty and that what
  they hold otherwise is of the current session; the shape of the answer (which lines
  were sent at each `pc` when the link is up) gives the refinement, with the client
  "gone" as soon as a write has failed.
* *MainLoop.* `JobsOnTime` is not inductive. `NotLate` bounds how late each job is by
  the position of the loop: `Round(j)` counts the runs and the wait a round may have
  cost job j so far, and each accepted client is charged its session and one new
  timeout when it returns. `ClockShape` relates the clock's view of a job's age to the
  time that passed, so a job that is found not due cannot be behind.
* *Lifecycle.* Types include that a process which ended has no socket. For
  `PidFileNamesLive` types and the property are strengthened by: a foreground agent is
  never in a state of a daemon. For `PidFileNamesAgent` the invariant says that at most
  one process is alive at a time.
* *LogBuffers* is proved as part of `Servlet`.
* *Agent.* Every step of the composition is a step of `MetricStore` or leaves its
  variables alone, so all that was proved of the store holds in the loop. For `LoopKept`
  what the job has spent is not enough: `TimeShape` bounds it, and what it can still
  spend, by `LongestRun` and the seconds of silence it was kept waiting. What it can
  spend, `Rest`, is a second and a call of `connect` for all that may be saved until the
  directory is listed, and for each entry of the list from then on. The list is a part
  of the directory, whose size the invariant of `MetricStore` bounds. With `LoopKept`
  the bound of `JobsOnTime` carries over: `MetricOnTime` cites the theorem of
  `MainLoop_proofs` for the loop of the composition.
* *Modules.* `TableShape` says that each loaded file has its handlers in one stretch of the
  table. While `harakiri` was entered once, `MappedShape` says for each `pc` which files are
  mapped and destroyed: all, those from `k` on, or none; and `FreedShape` which objects
  may be freed already, so that what is freed next is not among them. An interrupted
  teardown breaks both, and only `TableShape` and the types are kept then.
* *FileHandlers.* `PipeShape` follows the output of a command: what it has printed is in
  the pipe or was read at each `pc`, and what was read is all in the answer unless a
  line was `steep`: `KeptFits` says that `add_output` cuts no other. `PlaceShape` says
  where the agent is unless it has gone astray. `AnswersTrue` is inductive on its own:
  each handler changes the entries and what the client concludes in the same way, or the
  client concludes less. A file written under a name the client knows nothing of may be
  any other through a link, and makes it forget all names (`UnknownKeeps`); a name it
  does know something of is no link (`NoLinkKnown`), because no answer ever told it that
  one was made.
* *Gather.* `SetShape` says which members are set at each `pc`. `ListShape` and
  `CpuShape` say that what is counted and what is still to be read add up to what there
  is; they rest on `CountOfTail`, that a file has the lines of its tail and its first
  one, which is a bijection between the positions; a file that could not be read to its
  end (`source.whole`) is excepted. `StreamShape` bounds the open files by those in use
  and those left by failures.
* *WindowsService.* `ControlShape` bounds the position of worker and handler by what the
  manager knows, so that the two never set `serviceStatus` in turns. For `LinesKept`
  each line written aside is an excuse for one lost line; `Overtaken` says that the
  excuse is spoken for already, by a worker that has looked for the end of the file before
  it moved.

Every invariant, action property and refinement that a run checks is stated by a theorem,
the two expected violations aside. Only model-checked: every liveness property (`Drains`,
`ServletReturns`, `JobsRecur`, `ClientsServed`, `SignalsHandled`, `HupRestarts`,
`ReturnsOutput`, `GathersAgain`, `StopWorks`), which are out of reach of the prover as are
ENABLED and induction over data. No module declares a RECURSIVE operator.

## 6. Where the code differs, and what is not modelled

Behaviour that the models have and that surprised us, beyond the two runs above:

* An empty save file (a crash, or a full disk, between `open` and `write`) is logged as
  "resent successfully" and removed (`metricops.c:157`): `ReadSaved`.
* A refused handshake and a failed `SSL_write` count as a metric that was sent
  (`metricops.c:362-374`): `HandshakeRefused`, `WriteLost`. So does what was read of a save
  file when `fgets` fails (119), nothing included: `Readings`. `MetricDelivery` has `Strike`
  for it: such a metric may be dropped, and no other.
* A collector that accepts and then says nothing holds the only thread, in `SSL_connect` or
  `SSL_write` without a timeout: no job runs and no client is served until it speaks.
  `LoopKept` and `MetricOnTime` count these seconds; nothing in the code bounds them.
* `has_handler` compares the length of the command only and `call_handler` all of the
  name, so an abbreviated command is skipped without an error (`module.c:146`):
  `HasHandler`, `Called`. `ServiceKept` therefore speaks of errors that were logged.
* Output is cut by `add_output` when a piece is longer than what is buffered
  (`log.c:169`), and after one TLS record by the partial write (`network.c:284`). A command
  whose second line is longer than its first loses part of it without an error:
  `OutputOrError` excepts such lines.
* A second start that finds the pid file removes it (`main.c:204`, then 223), so
  `PidFileNamesAgent` holds only if agents are started one at a time; and `restart` of
  the init script can end with no agent, the new one having found the old one's file.
* `execv` from the handler of SIGHUP leaves SIGHUP blocked in the new image
  (`main.c:247`): a second one stays pending for ever, unless the `fork` of `daemonize`
  (179), which drops what is pending, comes later. `SignalsHandled` states both.
* `open_listener` does not set SO_REUSEADDR (`network.c:21-30`), and `harakiri` does not
  close the connection of the session it has interrupted, which `execv` hands on to an image
  that does not know of it. A SIGHUP during or soon after a session leaves no agent: `bind`
  fails and the new image ends. `HupRestarts` excepts this, and nothing else but what an
  operator or a fault of the system does.
* Jobs run only when a wait ends without a client: while clients keep coming no job ever
  runs (`main.c:139`). `JobsRecur` speaks of runs in which they stop coming.
* `execute` waits for the command before it reads its output (`fileops.c:225`): a command
  that prints more than the pipe holds and the agent wait for each other for ever.
  `ReturnsOutput` names this state (`WaitForEachOther`) as the only one that lasts.
* Without `listenport` but with jobs the agent listens on an uninitialised port
  (`main.c:114`).
* A second signal during `harakiri` frees everything again (`module.c:177`, `main.c:222`);
  `TerminatesGracefully` and `EachUnloadedOnce` say nothing of that case (`Uninterrupted`),
  which `teardown` explores.
* `status` in `execute` is never set under an ignored SIGCHLD (`fileops.c:226`), and
  `system` returns -1 for commands that have run (`fileops.c:240`): good commands can be
  reported as failed.
* `writefile` without a mode frees the literal "a+" (`fileops.c:281`), which may end the
  agent once the file is written. `createfile` never closes its descriptor (62), `writefile`
  not after a failed `fputs` (303). `list` calls `readdir` twice a turn (371) and so names
  every second entry. `mksymlink` logs its success as an error (185). `readfile` is
  exported (32) but does not exist.
* `ftp_putfile` has the test of the result the wrong way round (`ftpops.c:128`): an error is
  in the answer if the file has arrived. `ftp_getfile` opens without O_TRUNC (221), so a
  shorter file keeps the end of the older one, and does not look at `fclose` (265).
* `numcpus` is 0 on Linux if the first line of `/proc/stat` has more than the four counters
  of 2.4 (`linux_metric.c:140`): the rest of that line ends the loop that counts.
* The loops of `gather` over `/proc` end only at the line they look for
  (`linux_metric.c:185`, 218): if it is missing, or a read fails before it, the only thread
  is in them for ever (`InEndlessLoop`).
* `gather` leaves a file open on every early return after `fopen`, and the kstat handle
  on Solaris, until there is none left to open (`Exhausted`), after which every round
  fails; a member that a kstat lacks is used as a pointer (`solaris_metric.c:305`);
  there `ifkey` is lost in every round and `stat_line` freed twice
  (`solaris_metric.c:118`, 292). `s_if->address` is never set but freed
  (`metricops.c:523`): even a round that went well may end the agent.
* The Windows service writes "Monitoring Stopped." into the middle of a report, and the
  process may end before the report does; its memory is never freed (`lstat_free` is not
  called).

Not modelled:

* The texts: XML parsing, formatting of messages, rendering of metrics, XPath. The
  second `vsnprintf` over a used-up `va_list` (`log.c:62`) and other undefined
  behaviour in formatting is covered only as the death of the agent.
* Failing `malloc`.
* `SSL_ERROR_WANT_WRITE` loops: the sockets are blocking.
* A negative `metricsavelimit` or `jobinterval`, which `atoi` would accept: the
  constants are natural numbers.
* `statfile` and `list`, which change nothing but the output; attributes and modes of files.
* What a command does to the files; links from one directory to the other.
* The numbers of a report. On Solaris each interface is one entry of the kstat chain: the
  loop that moves its own cursor with `kstat_lookup` (`solaris_metric.c:195`) is followed
  for chains of that kind only.
* The package handler (an empty function), the Solaris device handlers and string helpers
  (formatting without state), Darwin gathering (does not compile with `metricops.h`), the
  reading of performance counters in `windows_plugin.cpp`: see `PROJECT.json` for each. The
  branch of `serviceMain` for an `init` that fails (`main.cpp:145-150`) is not reached: the
  only `return` of `init` is `return 0` (`windows_plugin.cpp:93`).
* Where the buffer of the errors lies: `errors` in `servlet` would be a stale pointer if an
  `llog` after it moved the buffer (`network.c:236`).

## 7. Plan

Done, in this order: `MetricStore` with its abstract specification, `Servlet` with its
own, `MainLoop`, `Lifecycle`, `Modules`, `Execute`; proofs about the first four; then the
composition `Agent`, `Gather`, `FileHandlers` over `Execute`, and `WindowsService`; then
proofs about `WindowsService`, `Modules`, `FileHandlers`, `Gather` and `Agent`.

Next:

1. `FileHandlers` for any number of names: chains of links, followed to their end.
2. Safety facts the liveness properties rest on, as theorems: that no reachable state of
   `MetricStore` or `Gather` is without a step of the thread, and that each loop over a
   list or a file gets shorter.
3. `Modules`: what an interrupted `harakiri` can still be relied on for.
