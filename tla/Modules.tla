------------------------------- MODULE Modules -------------------------------
(***************************************************************************)
(* The plugins of the agent: load_modules, load_module and unload_modules  *)
(* of module.c, the jobs they add (job.c), and harakiri of main.c, which   *)
(* frees what the agent holds while a second signal may call it again.     *)
(*                                                                         *)
(* Everything harakiri frees is an object with a number; freed has those   *)
(* that were freed, and undefined is set when one is freed again.          *)
(***************************************************************************)
EXTENDS Naturals, Sequences, Functions

CONSTANTS
  Files,       \* what may be in PLUGIN_DIR with a name that ends in .so
  NoFile,
  Plugins,     \* files with all that load_module looks up: modname, modver,
               \* init and exports
  Exports,     \* of each file: the names in its exports
  WithJob,     \* files whose init can add a job
  WithDestroy, \* files that have a destroy function
  MaxEntries   \* bound: times harakiri is entered by one process image

Signals == {"INT", "TERM", "HUP"}

ASSUME ModulesAssumption ==
  /\ NoFile \notin Files
  /\ Plugins \subseteq Files
  /\ DOMAIN Exports = Files
  /\ \A f \in Files : Exports[f] \in Seq(STRING)
  /\ WithJob \subseteq Files
  /\ WithDestroy \subseteq Files
  /\ MaxEntries \in Nat

VARIABLES
  pc,         \* what the agent does next
  todo,       \* files readdir has yet to return
  running,    \* the file whose code runs, or NoFile
  handlers,   \* the table: a name and the file its function is in
  dllist,     \* modules, in the order they were loaded
  jobs,       \* for each job the file its function is in; <<>> is NULL
  open,       \* files that are mapped
  ctx,        \* the TLS context has been made
  k,          \* the counter of harakiri's loops
  cause,      \* what harakiri was called with
  blocked,    \* signals whose handler runs
  entries,    \* times harakiri was entered
  freed,      \* objects that were freed
  undefined,  \* an object was used after it was freed
  destroyed   \* ghost: how often destroy was called, for each file

tables == <<handlers, dllist, jobs, open>>
signalVars == <<cause, blocked, entries>>
heap == <<freed, undefined>>
vars == <<pc, todo, running, handlers, dllist, jobs, open, ctx, k, cause,
          blocked, entries, freed, undefined, destroyed>>

Loading == {"load", "init"}
Dying == {"context", "jobs", "handlers", "modules", "closing", "config", "log", "end"}
Entry == [name : STRING, file : Files]
Object == {"ctx", "job", "jobs", "handler", "handlers", "module", "dllist", "config",
           "errors"} \X Nat

TypeOK ==
  /\ pc \in {"start", "loop", "off"} \cup Loading \cup Dying
  /\ todo \subseteq Files
  /\ running \in Files \cup {NoFile}
  /\ handlers \in Seq(Entry)
  /\ dllist \in Seq(Files)
  /\ jobs \in Seq(Files)
  /\ open \subseteq Files
  /\ ctx \in BOOLEAN
  /\ k \in Nat \ {0}
  /\ pc = "closing" => k \in DOMAIN dllist
  /\ cause \in Signals \cup {"none"}
  /\ blocked \subseteq Signals
  /\ entries \in 0..MaxEntries
  /\ freed \subseteq Object
  /\ undefined \in BOOLEAN
  /\ destroyed \in [Files -> Nat]

\* read_config is done; any set of files is in the directory.
Init ==
  /\ pc = "load"
  /\ todo \in SUBSET Files
  /\ running = NoFile
  /\ handlers = <<>> /\ dllist = <<>> /\ jobs = <<>>
  /\ open = {}
  /\ ctx = FALSE
  /\ k = 1
  /\ cause = "none"
  /\ blocked = {}
  /\ entries = 0
  /\ freed = {}
  /\ undefined = FALSE
  /\ destroyed = [f \in Files |-> 0]

-----------------------------------------------------------------------------
(* load_modules and load_module                                            *)

\* A file that is no plugin is closed again and leaves nothing behind.
LoadFails ==
  /\ pc = "load"
  /\ \E f \in todo \ Plugins : todo' = todo \ {f}
  /\ UNCHANGED <<pc, running, tables, ctx, k, signalVars, heap, destroyed>>

Entries(f) == [i \in DOMAIN Exports[f] |-> [name |-> Exports[f][i], file |-> f]]

\* Mutant: the new handlers are written from the start of the table.
HandlersFromStart(f) ==
  Entries(f) \o SubSeq(handlers, Len(Exports[f]) + 1, Len(handlers))

WithHandlers(f) == handlers \o Entries(f)

LoadModule ==
  /\ pc = "load"
  /\ \E f \in todo \cap Plugins :
       /\ todo' = todo \ {f}
       /\ open' = open \cup {f}
       /\ handlers' = WithHandlers(f)
       /\ dllist' = Append(dllist, f)
       /\ running' = f
  /\ pc' = "init"
  /\ UNCHANGED <<jobs, ctx, k, signalVars, heap, destroyed>>

\* Mutant: the job is added when it is no longer known whose it is.
JobOfNobody ==
  /\ pc = "init"
  /\ running' = NoFile
  /\ \/ running \in WithJob /\ jobs' = Append(jobs, running')
     \/ UNCHANGED jobs
  /\ pc' = "load"
  /\ UNCHANGED <<todo, handlers, dllist, open, ctx, k, signalVars, heap, destroyed>>

\* init adds its job if it is configured.
InitReturns ==
  /\ pc = "init"
  /\ \/ running \in WithJob /\ jobs' = Append(jobs, running)
     \/ UNCHANGED jobs
  /\ running' = NoFile
  /\ pc' = "load"
  /\ UNCHANGED <<todo, handlers, dllist, open, ctx, k, signalVars, heap, destroyed>>

LoadDone ==
  /\ pc = "load"
  /\ todo = {}
  /\ pc' = "start"
  /\ UNCHANGED <<todo, running, tables, ctx, k, signalVars, heap, destroyed>>

\* The handlers are not installed yet: a signal that is not blocked ends the
\* process at once.
KilledLoading ==
  /\ pc \in Loading
  /\ blocked # Signals
  /\ pc' = "off"
  /\ UNCHANGED <<todo, running, tables, ctx, k, signalVars, heap, destroyed>>

-----------------------------------------------------------------------------
(* The rest of main, and calls into the plugins                            *)

ContextMade ==
  /\ pc = "start"
  /\ pc' = "loop"
  /\ ctx' = TRUE
  /\ UNCHANGED <<todo, running, tables, k, signalVars, heap, destroyed>>

\* run_jobs, or call_handler for one of the names in the table.
CallPlugin ==
  /\ pc = "loop"
  /\ running = NoFile
  /\ running' \in Range(jobs) \cup {h.file : h \in Range(handlers)}
  /\ UNCHANGED <<pc, todo, tables, ctx, k, signalVars, heap, destroyed>>

PluginReturns ==
  /\ pc = "loop"
  /\ running # NoFile
  /\ running' = NoFile
  /\ UNCHANGED <<pc, todo, tables, ctx, k, signalVars, heap, destroyed>>

-----------------------------------------------------------------------------
(* harakiri                                                                *)

Enter(why) ==
  /\ entries < MaxEntries
  /\ entries' = entries + 1
  /\ cause' = why
  /\ pc' = "context"
  /\ k' = 1
  /\ running' = NoFile
  /\ UNCHANGED <<todo, tables, ctx, heap, destroyed>>

\* main gives up: a pid file that exists, no context, no socket, no client.
GiveUp ==
  /\ pc \in {"start", "loop"}
  /\ running = NoFile
  /\ Enter("none")
  /\ UNCHANGED blocked

\* Whatever the agent is doing, harakiri included, is never returned to.
Signalled ==
  /\ pc \in {"start", "loop"} \cup Dying
  /\ \E s \in Signals \ blocked :
       /\ Enter(s)
       /\ blocked' = blocked \cup {s}

FreeAll(objects) ==
  /\ freed' = freed \cup objects
  /\ undefined' = (undefined \/ objects \cap freed # {})

Keep == UNCHANGED <<todo, ctx, signalVars>>

FreeContext ==
  /\ pc = "context"
  /\ FreeAll(IF ctx THEN {<<"ctx", 0>>} ELSE {})
  /\ pc' = "jobs"
  /\ UNCHANGED <<k, running, tables, destroyed>> /\ Keep

\* Mutant: the loop stays at the first job.
FreeSameJob ==
  /\ pc = "jobs"
  /\ k <= Len(jobs)
  /\ FreeAll({<<"job", k>>})
  /\ UNCHANGED <<pc, k, running, tables, destroyed>> /\ Keep

FreeJob ==
  /\ pc = "jobs"
  /\ k <= Len(jobs)
  /\ FreeAll({<<"job", k>>})
  /\ k' = k + 1
  /\ UNCHANGED <<pc, running, tables, destroyed>> /\ Keep

\* jobs is NULL from here on.
FreeJobs ==
  /\ pc = "jobs"
  /\ k > Len(jobs)
  /\ FreeAll(IF jobs # <<>> THEN {<<"jobs", 0>>} ELSE {})
  /\ jobs' = <<>>
  /\ pc' = "handlers"
  /\ k' = 1
  /\ UNCHANGED <<running, handlers, dllist, open, destroyed>> /\ Keep

FreeHandler ==
  /\ pc = "handlers"
  /\ k <= Len(handlers)
  /\ FreeAll({<<"handler", k>>})
  /\ k' = k + 1
  /\ UNCHANGED <<pc, running, tables, destroyed>> /\ Keep

\* handlers keeps its value, as does dllist below.
FreeHandlers ==
  /\ pc = "handlers"
  /\ k > Len(handlers)
  /\ FreeAll(IF dllist # <<>> THEN {<<"handlers", 0>>} ELSE {})
  /\ pc' = "modules"
  /\ k' = 1
  /\ UNCHANGED <<running, tables, destroyed>> /\ Keep

\* Mutant: the file is unmapped before its destroy function is called.
DestroyUnmapped ==
  /\ pc = "modules"
  /\ k <= Len(dllist)
  /\ running' = dllist[k]
  /\ open' = open \ {dllist[k]}
  /\ destroyed' = [destroyed EXCEPT ![dllist[k]] = @ + 1]
  /\ pc' = "closing"
  /\ UNCHANGED <<k, handlers, dllist, jobs, heap>> /\ Keep

Destroy ==
  /\ pc = "modules"
  /\ k <= Len(dllist)
  /\ IF dllist[k] \in WithDestroy
       THEN /\ running' = dllist[k]
            /\ destroyed' = [destroyed EXCEPT ![dllist[k]] = @ + 1]
       ELSE UNCHANGED <<running, destroyed>>
  /\ pc' = "closing"
  /\ UNCHANGED <<k, tables, heap>> /\ Keep

\* Mutant: the module is freed, the file stays mapped.
FreeModule ==
  /\ pc = "closing"
  /\ running' = NoFile
  /\ FreeAll({<<"module", k>>})
  /\ k' = k + 1
  /\ pc' = "modules"
  /\ UNCHANGED <<tables, destroyed>> /\ Keep

\* dlclose, and the module is freed.
CloseModule ==
  /\ pc = "closing"
  /\ running' = NoFile
  /\ open' = open \ {dllist[k]}
  /\ FreeAll({<<"module", k>>})
  /\ k' = k + 1
  /\ pc' = "modules"
  /\ UNCHANGED <<handlers, dllist, jobs, destroyed>> /\ Keep

FreeModules ==
  /\ pc = "modules"
  /\ k > Len(dllist)
  /\ FreeAll(IF dllist # <<>> THEN {<<"dllist", 0>>} ELSE {})
  /\ pc' = "config"
  /\ UNCHANGED <<k, running, tables, destroyed>> /\ Keep

FreeConfig ==
  /\ pc = "config"
  /\ FreeAll({<<"config", 0>>})
  /\ pc' = "log"
  /\ UNCHANGED <<k, running, tables, destroyed>> /\ Keep

\* There may be an error that was kept for a client.
CloseLog ==
  /\ pc = "log"
  /\ \E objects \in {{}, {<<"errors", 0>>}} : FreeAll(objects)
  /\ pc' = "end"
  /\ UNCHANGED <<k, running, tables, destroyed>> /\ Keep

\* exit, also when execv fails; a use of freed memory can end it earlier.
Exit ==
  /\ pc = "end" \/ (undefined /\ pc \in Dying)
  /\ pc' = "off"
  /\ UNCHANGED <<k, running, tables, heap, destroyed>> /\ Keep

\* execv in the handler: a new image, with the old signal mask.
Reexec ==
  /\ pc = "end"
  /\ cause = "HUP"
  /\ pc' = "load"
  /\ todo' \in SUBSET Files
  /\ handlers' = <<>> /\ dllist' = <<>> /\ jobs' = <<>>
  /\ open' = {}
  /\ ctx' = FALSE
  /\ cause' = "none"
  /\ entries' = 0
  /\ freed' = {}
  /\ undefined' = FALSE
  /\ destroyed' = [f \in Files |-> 0]
  /\ UNCHANGED <<running, k, blocked>>

-----------------------------------------------------------------------------
Load == LoadFails \/ LoadModule \/ InitReturns \/ LoadDone
FreeTables == FreeContext \/ FreeJob \/ FreeJobs \/ FreeHandler \/ FreeHandlers
Unload == Destroy \/ CloseModule \/ FreeModules
Finish == FreeConfig \/ CloseLog \/ Exit \/ Reexec
Die == FreeTables \/ Unload \/ Finish

Next == Load \/ KilledLoading \/ ContextMade \/ CallPlugin \/ PluginReturns
          \/ GiveUp \/ Signalled \/ Die

Spec == Init /\ [][Next]_vars

-----------------------------------------------------------------------------
(* Properties                                                              *)

\* harakiri was not entered again while it frees what there is: a signal of another
\* kind would start it anew.
Uninterrupted == entries <= 1

\* No job, handler, init or destroy function is called in a file that is not
\* mapped, on every way from load_module through the loop to unload_modules.
CallsLoaded == Uninterrupted /\ running # NoFile => running \in open

\* The handlers of f are in the table behind the first ones, in the order of its
\* exports, and nowhere else.
HandlersFollow(f, first) ==
  /\ first + Len(Exports[f]) <= Len(handlers)
  /\ \A n \in DOMAIN handlers : handlers[n].file = f <=> n - first \in DOMAIN Exports[f]
  /\ \A n \in DOMAIN Exports[f] : handlers[first + n].name = Exports[f][n]

\* Once the files are loaded the table has the handlers of every module, in
\* the order of its exports, and of no other; what is not in it is not mapped.
TableComplete ==
  pc \in {"start", "loop"} =>
    /\ open = Range(dllist)
    /\ \A n \in DOMAIN handlers : handlers[n].file \in Range(dllist)
    /\ \A f \in Range(dllist) : \E first \in 0..Len(handlers) : HandlersFollow(f, first)

\* "Terminate gracefully" (main.c:221): nothing is freed twice.
TerminatesGracefully == Uninterrupted => ~undefined

\* At the end every module was destroyed once and is no longer mapped.
EachUnloadedOnce ==
  Uninterrupted /\ pc = "end" =>
    /\ open = {}
    /\ \A f \in Files :
         destroyed[f] = IF f \in Range(dllist) \cap WithDestroy THEN 1 ELSE 0
=============================================================================
