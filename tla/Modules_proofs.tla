---------------------------- MODULE Modules_proofs ----------------------------
(***************************************************************************)
(* Proofs about the plugin table, for any files, exports, jobs and any     *)
(* number of reloads.  What harakiri does is proved for the time until it  *)
(* is entered a second time, which MaxEntries does not exclude: a signal   *)
(* of another kind interrupts it, and everything is freed again.           *)
(***************************************************************************)
EXTENDS Modules, Integers, SequenceTheorems, TLAPS

-----------------------------------------------------------------------------
(* The inductive invariant                                                 *)

Running == {"start", "loop"} \cup Loading
Unloading == {"modules", "closing"}
Unloaded == {"config", "log", "end"}

\* The table grows by the exports of one file at a time, and no file comes twice.
TableShape ==
  /\ todo \cap Range(dllist) = {}
  /\ \A m, n \in DOMAIN dllist : dllist[m] = dllist[n] => m = n
  /\ Range(jobs) \subseteq Range(dllist)
  /\ \A n \in DOMAIN handlers : handlers[n].file \in Range(dllist)
  /\ \A f \in Range(dllist) : \E first \in 0..Len(handlers) : HandlersFollow(f, first)

\* How often harakiri was entered, and whose code runs meanwhile.
RunningShape ==
  /\ pc \in Running => entries = 0
  /\ pc \in Dying => entries > 0
  /\ pc \in {"load", "start"} => running = NoFile
  /\ pc = "init" => running \in Range(dllist)
  /\ pc \in Dying \ {"closing"} => running = NoFile

AllMapped ==
  /\ open = Range(dllist)
  /\ \A f \in Files : destroyed[f] = 0

\* Was destroy called for f when unload_modules has come to k.
DestroyedAt(f) ==
  f \in WithDestroy /\ \E n \in DOMAIN dllist :
    dllist[n] = f /\ (n < k \/ (n = k /\ pc = "closing"))

MappedFromK ==
  /\ \A n \in DOMAIN dllist : dllist[n] \in open <=> n >= k
  /\ open \subseteq Range(dllist)
  /\ \A f \in Files : destroyed[f] = IF DestroyedAt(f) THEN 1 ELSE 0

NoneMapped ==
  /\ open = {}
  /\ \A f \in Files :
       destroyed[f] = IF f \in Range(dllist) \cap WithDestroy THEN 1 ELSE 0

\* What is mapped and what was destroyed: everything behind, or before, k.
MappedShape ==
  /\ pc \in Running \cup {"context", "jobs", "handlers"} => AllMapped
  /\ pc \in Unloading => MappedFromK
  /\ pc = "closing" => running \in {NoFile, dllist[k]}
  /\ pc \in Unloaded => NoneMapped

\* What harakiri has freed when it is at pc, and in a loop at k.
MayBeFreed(object) ==
  LET kind == object[1]
      before(kinds, this) == kind \in kinds \/ (kind = this /\ object[2] < k)
  IN CASE pc = "jobs" -> before({"ctx"}, "job")
       [] pc = "handlers" -> before({"ctx", "job", "jobs"}, "handler")
       [] pc \in Unloading -> before({"ctx", "job", "jobs", "handler", "handlers"}, "module")
       [] pc = "config" -> kind \notin {"config", "errors"}
       [] pc = "log" -> kind # "errors"
       [] pc = "end" -> TRUE
       [] OTHER -> FALSE

FreedShape ==
  /\ pc # "off" => \A object \in freed : MayBeFreed(object)
  /\ ~undefined

\* One harakiri keeps all of this; a nested one keeps the table only.
Inv ==
  /\ TypeOK
  /\ TableShape
  /\ RunningShape
  /\ Uninterrupted => MappedShape /\ FreedShape
  /\ CallsLoaded

-----------------------------------------------------------------------------
(* The handlers of one file                                                *)

\* What load_module adds to the table for a file.
LEMMA EntriesAreHandlers ==
  ASSUME NEW f \in Files
  PROVE  /\ Len(Exports[f]) \in Nat
         /\ DOMAIN Exports[f] = 1..Len(Exports[f])
         /\ Entries(f) \in Seq(Entry)
         /\ Len(Entries(f)) = Len(Exports[f])
         /\ \A n \in 1..Len(Exports[f]) :
              Entries(f)[n].name = Exports[f][n] /\ Entries(f)[n].file = f
<1>1. Exports[f] \in Seq(STRING)
  BY ModulesAssumption
<1>2. Len(Exports[f]) \in Nat /\ DOMAIN Exports[f] = 1..Len(Exports[f])
  BY <1>1, LenProperties
<1>3. \A n \in 1..Len(Exports[f]) : Exports[f][n] \in STRING
  BY <1>1, <1>2, ElementOfSeq
<1>4. Entries(f) \in [1..Len(Exports[f]) -> Entry]
  BY <1>2, <1>3 DEF Entries, Entry
<1>5. Entries(f) \in Seq(Entry)
  <2>1. [1..Len(Exports[f]) -> Entry] \in {[1..n -> Entry] : n \in Nat}
    BY <1>2
  <2> QED
    BY <1>4, <2>1, SeqDef
<1>6. Len(Entries(f)) = Len(Exports[f])
  BY <1>2, <1>4, <1>5, LenProperties
<1> QED
  BY <1>2, <1>5, <1>6 DEF Entries

\* What Append does to the range of a sequence.
LEMMA RangeOfAppend ==
  ASSUME NEW S, NEW s \in Seq(S), NEW e \in S
  PROVE  Range(Append(s, e)) = Range(s) \cup {e}
<1>1. DOMAIN Append(s, e) = 1..(Len(s) + 1) /\ DOMAIN s = 1..Len(s) /\ Len(s) \in Nat
  BY AppendProperties, LenProperties
<1>2. \A n \in 1..Len(s) : Append(s, e)[n] = s[n]
  BY AppendProperties
<1>3. Append(s, e)[Len(s) + 1] = e
  BY AppendProperties
<1> QED
  BY <1>1, <1>2, <1>3 DEF Range

\* A file that was not in the list leaves it without duplicates.
LEMMA DistinctAppend ==
  ASSUME NEW S, NEW s \in Seq(S), NEW e \in S, e \notin Range(s),
         \A m, n \in DOMAIN s : s[m] = s[n] => m = n
  PROVE  \A m, n \in DOMAIN Append(s, e) : Append(s, e)[m] = Append(s, e)[n] => m = n
<1> DEFINE t == Append(s, e)
<1>1. DOMAIN t = 1..(Len(s) + 1) /\ DOMAIN s = 1..Len(s) /\ Len(s) \in Nat
  BY AppendProperties, LenProperties
<1>2. \A n \in 1..Len(s) : t[n] = s[n]
  BY AppendProperties
<1>3. t[Len(s) + 1] = e
  BY AppendProperties
<1>4. \A n \in 1..Len(s) : t[n] # e
  BY <1>1, <1>2 DEF Range
<1> HIDE DEF t
<1>5. ASSUME NEW m \in DOMAIN t, NEW n \in DOMAIN t, t[m] = t[n]
      PROVE  m = n
  <2>1. CASE m \in 1..Len(s) /\ n \in 1..Len(s)
    BY <1>1, <1>2, <1>5, <2>1
  <2>2. CASE m \notin 1..Len(s)
    BY <1>1, <1>3, <1>4, <1>5, <2>2
  <2>3. CASE n \notin 1..Len(s)
    BY <1>1, <1>3, <1>4, <1>5, <2>3
  <2> QED
    BY <2>1, <2>2, <2>3
<1> QED
  BY <1>5 DEF t

-----------------------------------------------------------------------------
(* Every step preserves the inductive invariant                            *)

\* Every step keeps the types; k stays inside dllist while a module is closed.
LEMMA TypePreserved ==
  Inv /\ [Next]_vars => TypeOK'
<1> SUFFICES ASSUME Inv, [Next]_vars PROVE TypeOK'
  OBVIOUS
<1> USE ModulesAssumption DEF Inv, TypeOK, tables, signalVars, heap, Loading, Dying, Signals, Object
<1>1. CASE LoadFails
  BY <1>1 DEF LoadFails
<1>2. CASE LoadModule
  <2>1. PICK f \in todo \cap Plugins :
          handlers' = WithHandlers(f) /\ dllist' = Append(dllist, f) /\ running' = f
            /\ todo' = todo \ {f} /\ open' = open \cup {f}
    BY <1>2 DEF LoadModule
  <2>2. handlers' \in Seq(Entry)
    BY <2>1, EntriesAreHandlers, ConcatProperties DEF WithHandlers
  <2> QED
    BY <1>2, <2>1, <2>2 DEF LoadModule
<1>3. CASE InitReturns
  <2>1. CASE running \in WithJob /\ jobs' = Append(jobs, running)
    <3>1. running \in Files
      BY <2>1
    <3>2. jobs' \in Seq(Files)
      BY <2>1, <3>1, AppendProperties
    <3> QED
      BY <1>3, <3>2 DEF InitReturns
  <2>2. CASE UNCHANGED jobs
    BY <1>3, <2>2 DEF InitReturns
  <2> QED
    BY <1>3, <2>1, <2>2 DEF InitReturns
<1>4. CASE LoadDone
  BY <1>4 DEF LoadDone
<1>5. CASE KilledLoading
  BY <1>5 DEF KilledLoading
<1>6. CASE ContextMade
  BY <1>6 DEF ContextMade
<1>7. CASE CallPlugin
  <2>1. Range(jobs) \subseteq Files
    BY ElementOfSeq, LenProperties DEF Range
  <2>2. \A h \in Range(handlers) : h.file \in Files
    <3>1. \A n \in DOMAIN handlers : handlers[n] \in Entry
      BY ElementOfSeq, LenProperties
    <3> QED
      BY <3>1 DEF Range, Entry
  <2> QED
    BY <1>7, <2>1, <2>2 DEF CallPlugin
<1>8. CASE PluginReturns
  BY <1>8 DEF PluginReturns
<1>9. CASE GiveUp
  BY <1>9 DEF GiveUp, Enter
<1>10. CASE Signalled
  BY <1>10 DEF Signalled, Enter
<1>11. CASE FreeContext
  BY <1>11 DEF FreeContext, FreeAll, Keep
<1>12. CASE FreeJob
  BY <1>12 DEF FreeJob, FreeAll, Keep
<1>13. CASE FreeJobs
  BY <1>13 DEF FreeJobs, FreeAll, Keep
<1>14. CASE FreeHandler
  BY <1>14 DEF FreeHandler, FreeAll, Keep
<1>15. CASE FreeHandlers
  BY <1>15 DEF FreeHandlers, FreeAll, Keep
<1>16. CASE Destroy
  <2>1. dllist[k] \in Files /\ k \in DOMAIN dllist
    BY <1>16 DEF Destroy
  <2>2. CASE dllist[k] \in WithDestroy
    <3>1. running' = dllist[k] /\ destroyed' = [destroyed EXCEPT ![dllist[k]] = destroyed[dllist[k]] + 1]
      BY <1>16, <2>2 DEF Destroy
    <3> QED
      BY <1>16, <2>1, <3>1 DEF Destroy, Keep
  <2>3. CASE dllist[k] \notin WithDestroy
    BY <1>16, <2>1, <2>3 DEF Destroy, Keep
  <2> QED
    BY <2>2, <2>3
<1>17. CASE CloseModule
  BY <1>17 DEF CloseModule, FreeAll, Keep
<1>18. CASE FreeModules
  BY <1>18 DEF FreeModules, FreeAll, Keep
<1>19. CASE FreeConfig
  BY <1>19 DEF FreeConfig, FreeAll, Keep
<1>20. CASE CloseLog
  BY <1>20 DEF CloseLog, FreeAll, Keep
<1>21. CASE Exit
  BY <1>21 DEF Exit, Keep
<1>22. CASE Reexec
  <2>1. handlers' \in Seq(Entry) /\ dllist' \in Seq(Files) /\ jobs' \in Seq(Files)
    BY <1>22 DEF Reexec
  <2>2. destroyed' \in [Files -> Nat] /\ entries' \in 0..MaxEntries
    BY <1>22 DEF Reexec
  <2> QED
    BY <1>22, <2>1, <2>2 DEF Reexec
<1>23. CASE UNCHANGED vars
  BY <1>23 DEF vars
<1> QED
  BY <1>1, <1>2, <1>3, <1>4, <1>5, <1>6, <1>7, <1>8, <1>9, <1>10,
     <1>11, <1>12, <1>13, <1>14, <1>15, <1>16, <1>17, <1>18, <1>19, <1>20,
     <1>21, <1>22, <1>23
     DEF Next, Load, FreeTables, Unload, Finish, Die

\* harakiri is left for a new image only, and only a module that is unloaded runs in it.
LEMMA RunningPreserved ==
  Inv /\ [Next]_vars => RunningShape'
<1> SUFFICES ASSUME Inv, [Next]_vars PROVE RunningShape'
  OBVIOUS
<1> USE ModulesAssumption DEF Inv, TypeOK, RunningShape, Running, tables, signalVars, Loading, Dying, Signals
<1>1. CASE LoadFails
  BY <1>1 DEF LoadFails
<1>2. CASE LoadModule
  BY <1>2, RangeOfAppend DEF LoadModule
<1>3. CASE InitReturns
  BY <1>3 DEF InitReturns
<1>4. CASE LoadDone
  BY <1>4 DEF LoadDone
<1>5. CASE KilledLoading
  BY <1>5 DEF KilledLoading
<1>6. CASE ContextMade
  BY <1>6 DEF ContextMade
<1>7. CASE CallPlugin
  BY <1>7 DEF CallPlugin
<1>8. CASE PluginReturns
  BY <1>8 DEF PluginReturns
<1>9. CASE GiveUp
  BY <1>9 DEF GiveUp, Enter
<1>10. CASE Signalled
  BY <1>10 DEF Signalled, Enter
<1>11. CASE FreeContext
  BY <1>11 DEF FreeContext, FreeAll, Keep
<1>12. CASE FreeJob
  BY <1>12 DEF FreeJob, FreeAll, Keep
<1>13. CASE FreeJobs
  BY <1>13 DEF FreeJobs, FreeAll, Keep
<1>14. CASE FreeHandler
  BY <1>14 DEF FreeHandler, FreeAll, Keep
<1>15. CASE FreeHandlers
  BY <1>15 DEF FreeHandlers, FreeAll, Keep
<1>16. CASE Destroy
  BY <1>16 DEF Destroy, Keep
<1>17. CASE CloseModule
  BY <1>17 DEF CloseModule, FreeAll, Keep
<1>18. CASE FreeModules
  BY <1>18 DEF FreeModules, FreeAll, Keep
<1>19. CASE FreeConfig
  BY <1>19 DEF FreeConfig, FreeAll, Keep
<1>20. CASE CloseLog
  BY <1>20 DEF CloseLog, FreeAll, Keep
<1>21. CASE Exit
  BY <1>21 DEF Exit, Keep
<1>22. CASE Reexec
  BY <1>22 DEF Reexec
<1>23. CASE UNCHANGED vars
  BY <1>23 DEF vars
<1> QED
  BY <1>1, <1>2, <1>3, <1>4, <1>5, <1>6, <1>7, <1>8, <1>9, <1>10,
     <1>11, <1>12, <1>13, <1>14, <1>15, <1>16, <1>17, <1>18, <1>19, <1>20,
     <1>21, <1>22, <1>23
     DEF Next, Load, FreeTables, Unload, Finish, Die

\* The table is written to by load_module only.
LEMMA TablesUnchanged ==
  Inv /\ [Next]_vars /\ ~LoadFails /\ ~LoadModule /\ ~InitReturns /\ ~FreeJobs /\ ~Reexec
    => UNCHANGED <<todo, handlers, dllist, jobs>>
  BY DEF Next, Load, FreeTables, Unload, Finish, Die, vars, tables, Keep, LoadDone,
     KilledLoading, ContextMade, CallPlugin, PluginReturns, GiveUp, Signalled, Enter,
     FreeContext, FreeJob, FreeHandler, FreeHandlers, Destroy, CloseModule, FreeModules,
     FreeConfig, CloseLog, Exit

\* A loaded file has its handlers behind those that were in the table.
LEMMA TablePreserved == Inv /\ [Next]_vars => TableShape'
<1> SUFFICES ASSUME Inv, [Next]_vars PROVE TableShape'
  OBVIOUS
<1>0. TypeOK /\ TableShape /\ RunningShape
  BY DEF Inv
<1> USE <1>0, ModulesAssumption DEF TypeOK, TableShape, RunningShape
<1>1. CASE LoadFails
  BY <1>1 DEF LoadFails, tables, HandlersFollow
<1>2. CASE LoadModule
  <2>1. PICK f \in todo \cap Plugins :
          /\ todo' = todo \ {f}
          /\ handlers' = handlers \o Entries(f)
          /\ dllist' = Append(dllist, f)
          /\ UNCHANGED jobs
    BY <1>2 DEF LoadModule, WithHandlers
  <2>2. Range(dllist') = Range(dllist) \cup {f} /\ f \notin Range(dllist)
    BY <2>1, RangeOfAppend
  <2>3. \A m, n \in DOMAIN dllist' : dllist'[m] = dllist'[n] => m = n
    <3>1. \A m, n \in DOMAIN Append(dllist, f) :
            Append(dllist, f)[m] = Append(dllist, f)[n] => m = n
      BY <2>2, DistinctAppend
    <3> QED
      BY <2>1, <3>1
  <2>4. /\ Len(handlers) \in Nat
        /\ DOMAIN handlers = 1..Len(handlers)
        /\ Len(handlers') = Len(handlers) + Len(Exports[f])
        /\ DOMAIN handlers' = 1..(Len(handlers) + Len(Exports[f]))
        /\ \A n \in DOMAIN handlers : handlers'[n] = handlers[n]
        /\ \A n \in 1..Len(Exports[f]) : handlers'[Len(handlers) + n] = Entries(f)[n]
    <3>1. /\ Len(handlers) \in Nat /\ DOMAIN handlers = 1..Len(handlers)
          /\ Entries(f) \in Seq(Entry) /\ Len(Entries(f)) = Len(Exports[f])
          /\ Len(Exports[f]) \in Nat
      BY <2>1, EntriesAreHandlers, LenProperties
    <3>2. /\ handlers' \in Seq(Entry)
          /\ Len(handlers') = Len(handlers) + Len(Exports[f])
          /\ \A n \in 1..(Len(handlers) + Len(Exports[f])) :
               handlers'[n] = IF n <= Len(handlers) THEN handlers[n]
                                                    ELSE Entries(f)[n - Len(handlers)]
      BY <2>1, <3>1, ConcatProperties
    <3>3. DOMAIN handlers' = 1..Len(handlers')
      BY <3>2, LenProperties
    <3> QED
      BY <3>1, <3>2, <3>3
  <2>5. \E first \in 0..Len(handlers') : HandlersFollow(f, first)'
    <3>1. /\ Len(Exports[f]) \in Nat /\ DOMAIN Exports[f] = 1..Len(Exports[f])
          /\ \A n \in 1..Len(Exports[f]) :
               Entries(f)[n].name = Exports[f][n] /\ Entries(f)[n].file = f
      BY EntriesAreHandlers
    <3>2. \A n \in DOMAIN handlers : handlers[n].file # f
      BY <2>2
    <3>3. PICK first \in 0..Len(handlers') : first = Len(handlers)
      <4>1. Len(handlers) \in 0..Len(handlers')
        BY <2>4, <3>1
      <4> QED
        BY <4>1
    <3>4. ASSUME NEW n \in DOMAIN handlers'
          PROVE  handlers'[n].file = f <=> n - first \in DOMAIN Exports[f]
      <4>1. CASE n \in DOMAIN handlers
        <5>1. n - first \notin 1..Len(Exports[f])
          BY <2>4, <3>3, <4>1
        <5>2. handlers'[n].file # f
          BY <2>4, <3>2, <4>1
        <5> QED
          BY <3>1, <5>1, <5>2
      <4>2. CASE n \notin DOMAIN handlers
        <5>1. n - first \in 1..Len(Exports[f]) /\ first + (n - first) = n
          BY <2>4, <3>1, <3>3, <4>2
        <5>2. handlers'[first + (n - first)] = Entries(f)[n - first]
          BY <2>4, <3>3, <5>1
        <5> QED
          BY <3>1, <5>1, <5>2
      <4> QED
        BY <4>1, <4>2
    <3>5. HandlersFollow(f, first)'
      <4>1. first + Len(Exports[f]) <= Len(handlers')
        BY <2>4, <3>1, <3>3
      <4>2. \A n \in DOMAIN Exports[f] : handlers'[first + n].name = Exports[f][n]
        BY <2>4, <3>1, <3>3
      <4> QED
        BY <3>4, <4>1, <4>2 DEF HandlersFollow
    <3> QED
      BY <3>5
  <2>6. ASSUME NEW g \in Range(dllist), NEW first \in 0..Len(handlers),
               HandlersFollow(g, first)
        PROVE  HandlersFollow(g, first)'
    <3>1. /\ g \in Files /\ g # f
          /\ Len(Exports[g]) \in Nat /\ DOMAIN Exports[g] = 1..Len(Exports[g])
          /\ Len(Exports[f]) \in Nat
      BY <2>2, EntriesAreHandlers, ElementOfSeq, LenProperties DEF Range
    <3>2. \A n \in DOMAIN handlers' \ DOMAIN handlers : handlers'[n].file = f
      <4> SUFFICES ASSUME NEW n \in DOMAIN handlers' \ DOMAIN handlers
                   PROVE  handlers'[n].file = f
        OBVIOUS
      <4>1. n - Len(handlers) \in 1..Len(Exports[f])
        BY <2>4, <3>1
      <4>2. handlers'[Len(handlers) + (n - Len(handlers))] = Entries(f)[n - Len(handlers)]
        BY <2>4, <4>1
      <4> QED
        BY <2>1, <2>4, <4>1, <4>2, EntriesAreHandlers
    <3>3. first + Len(Exports[g]) <= Len(handlers)
      BY <2>6 DEF HandlersFollow
    <3>4. ASSUME NEW n \in DOMAIN handlers'
          PROVE  handlers'[n].file = g <=> n - first \in DOMAIN Exports[g]
      <4>1. CASE n \in DOMAIN handlers
        BY <2>4, <2>6, <4>1 DEF HandlersFollow
      <4>2. CASE n \notin DOMAIN handlers
        <5>1. n - first \notin 1..Len(Exports[g])
          BY <2>4, <3>1, <3>3, <4>2
        <5> QED
          BY <3>1, <3>2, <4>2, <5>1
      <4> QED
        BY <4>1, <4>2
    <3>5. \A n \in DOMAIN Exports[g] : handlers'[first + n].name = Exports[g][n]
      <4>1. \A n \in DOMAIN Exports[g] : first + n \in DOMAIN handlers
        BY <2>4, <3>1, <3>3
      <4> QED
        BY <2>4, <2>6, <4>1 DEF HandlersFollow
    <3> QED
      BY <2>4, <3>1, <3>3, <3>4, <3>5 DEF HandlersFollow
  <2>7. \A n \in DOMAIN handlers' : handlers'[n].file \in Range(dllist')
    BY <2>1, <2>2, <2>4, EntriesAreHandlers
  <2>8. \A g \in Range(dllist') : \E first \in 0..Len(handlers') : HandlersFollow(g, first)'
    BY <2>1, <2>2, <2>4, <2>5, <2>6, EntriesAreHandlers
  <2> QED
    BY <2>1, <2>2, <2>3, <2>7, <2>8
<1>3. CASE InitReturns
  <2>1. CASE running \in WithJob /\ jobs' = Append(jobs, running)
    <3>1. Range(jobs') = Range(jobs) \cup {running} /\ running \in Range(dllist)
      BY <1>3, <2>1, RangeOfAppend DEF InitReturns
    <3> QED
      BY <1>3, <3>1 DEF InitReturns, HandlersFollow
  <2>2. CASE UNCHANGED jobs
    BY <1>3, <2>2 DEF InitReturns, HandlersFollow
  <2> QED
    BY <1>3, <2>1, <2>2 DEF InitReturns
<1>4. CASE FreeJobs
  BY <1>4 DEF FreeJobs, Keep, HandlersFollow, Range
<1>5. CASE Reexec
  BY <1>5 DEF Reexec, HandlersFollow, Range
<1>6. CASE ~LoadFails /\ ~LoadModule /\ ~InitReturns /\ ~FreeJobs /\ ~Reexec
  <2>1. UNCHANGED <<todo, handlers, dllist, jobs>>
    BY <1>6, TablesUnchanged
  <2> QED
    BY <2>1 DEF HandlersFollow
<1> QED
  BY <1>1, <1>2, <1>3, <1>4, <1>5, <1>6

\* unload_modules starts with every module mapped and none destroyed.
LEMMA UnloadStarts ==
  ASSUME TypeOK, AllMapped, FreeHandlers
  PROVE  MappedFromK'
<1>1. \A n \in DOMAIN dllist : dllist[n] \in Range(dllist) /\ n \in Nat /\ n >= 1
  BY LenProperties DEF Range, TypeOK
<1>2. pc' = "modules" /\ k' = 1 /\ UNCHANGED <<dllist, open, destroyed>>
  BY DEF FreeHandlers, tables
<1>3. \A n \in DOMAIN dllist : ~(n < 1)
  BY <1>1
<1>4. ASSUME NEW f \in Files PROVE ~DestroyedAt(f)'
  BY <1>2, <1>3 DEF DestroyedAt
<1> QED
  BY <1>1, <1>2, <1>4 DEF MappedFromK, AllMapped

\* destroy is called for the module at k, which comes once.
LEMMA DestroyKeeps ==
  ASSUME TypeOK, TableShape, MappedFromK, Destroy
  PROVE  MappedFromK' /\ running' \in {running, dllist[k]}
<1>1. /\ pc = "modules" /\ pc' = "closing" /\ k \in DOMAIN dllist
      /\ UNCHANGED <<k, dllist, open>>
  BY LenProperties DEF Destroy, TypeOK, tables
<1>2. ASSUME NEW f \in Files
      PROVE  destroyed'[f] = IF DestroyedAt(f)' THEN 1 ELSE 0
  <2>1. DestroyedAt(f)' <=>
          f \in WithDestroy /\ ((\E n \in DOMAIN dllist : dllist[n] = f /\ n < k) \/ dllist[k] = f)
    BY <1>1 DEF DestroyedAt
  <2>2. DestroyedAt(f) <=>
          f \in WithDestroy /\ \E n \in DOMAIN dllist : dllist[n] = f /\ n < k
    BY <1>1 DEF DestroyedAt
  <2>3. destroyed[f] = IF DestroyedAt(f) THEN 1 ELSE 0
    BY DEF MappedFromK
  <2>4. CASE f = dllist[k] /\ f \in WithDestroy
    <3>1. \A n \in DOMAIN dllist : dllist[n] = f => n = k
      BY <1>1, <2>4 DEF TableShape
    <3>2. ~(k < k)
      BY DEF TypeOK
    <3>3. ~DestroyedAt(f)
      BY <2>2, <3>1, <3>2
    <3>4. destroyed'[f] = destroyed[f] + 1
      BY <2>4 DEF Destroy, TypeOK
    <3> QED
      BY <2>1, <2>3, <2>4, <3>3, <3>4
  <2>5. CASE f # dllist[k] \/ f \notin WithDestroy
    <3>1. destroyed'[f] = destroyed[f]
      BY <2>5 DEF Destroy, TypeOK
    <3> QED
      BY <2>1, <2>2, <2>3, <2>5, <3>1
  <2> QED
    BY <2>4, <2>5
<1>3. running' \in {running, dllist[k]}
  BY DEF Destroy
<1> QED
  BY <1>1, <1>2, <1>3 DEF MappedFromK

\* dlclose takes the module at k from those that are mapped.
LEMMA CloseKeeps ==
  ASSUME TypeOK, TableShape, MappedFromK, CloseModule
  PROVE  MappedFromK'
<1>1. /\ pc = "closing" /\ pc' = "modules" /\ k' = k + 1 /\ k \in DOMAIN dllist
      /\ open' = open \ {dllist[k]}
      /\ UNCHANGED <<dllist, destroyed>>
  BY DEF CloseModule, TypeOK
<1>2. \A n \in DOMAIN dllist : n \in Nat /\ k \in Nat
  BY LenProperties DEF TypeOK
<1>3. ASSUME NEW n \in DOMAIN dllist PROVE dllist[n] \in open' <=> n >= k + 1
  <2>1. dllist[n] = dllist[k] <=> n = k
    BY <1>1 DEF TableShape
  <2>2. dllist[n] \in open <=> n >= k
    BY DEF MappedFromK
  <2> QED
    BY <1>1, <1>2, <2>1, <2>2
<1>4. ASSUME NEW f \in Files PROVE DestroyedAt(f)' <=> DestroyedAt(f)
  <2>1. \A n \in DOMAIN dllist : n < k + 1 <=> n < k \/ n = k
    BY <1>2
  <2> QED
    BY <1>1, <2>1 DEF DestroyedAt
<1> QED
  BY <1>1, <1>3, <1>4 DEF MappedFromK

\* Behind the last module nothing is left.
LEMMA UnloadEnds ==
  ASSUME TypeOK, MappedFromK, FreeModules
  PROVE  NoneMapped'
<1>1. /\ pc = "modules"
      /\ UNCHANGED <<dllist, open, destroyed>>
      /\ \A n \in DOMAIN dllist : n < k /\ ~(n >= k)
  BY LenProperties DEF FreeModules, TypeOK, tables
<1>2. \A n \in DOMAIN dllist : dllist[n] \notin open
  BY <1>1 DEF MappedFromK
<1>3. open = {}
  BY <1>2 DEF MappedFromK, Range
<1>4. ASSUME NEW f \in Files
      PROVE  DestroyedAt(f) <=> f \in Range(dllist) \cap WithDestroy
  BY <1>1 DEF DestroyedAt, Range
<1> QED
  BY <1>1, <1>3, <1>4 DEF MappedFromK, NoneMapped

\* Only load_module maps a file, and unload_modules takes one after the other.
LEMMA MappedPreserved ==
  Inv /\ [Next]_vars /\ Uninterrupted' => MappedShape'
<1> SUFFICES ASSUME Inv, [Next]_vars, Uninterrupted' PROVE MappedShape'
  OBVIOUS
<1>0. TypeOK /\ TableShape /\ RunningShape /\ (Uninterrupted => MappedShape)
  BY DEF Inv
<1>e. entries \in Nat
  BY <1>0, ModulesAssumption DEF TypeOK
<1> USE <1>0, <1>e DEF RunningShape, MappedShape, Uninterrupted,
        Running, Unloading, Unloaded, tables, signalVars, Loading, Dying
<1>1. CASE LoadFails
  BY <1>1 DEF LoadFails, AllMapped, NoneMapped
<1>2. CASE LoadModule
  <2>1. PICK f \in todo \cap Plugins : open' = open \cup {f} /\ dllist' = Append(dllist, f)
    BY <1>2 DEF LoadModule
  <2>2. Range(dllist') = Range(dllist) \cup {f}
    BY <2>1, RangeOfAppend DEF TypeOK
  <2> QED
    BY <1>2, <2>1, <2>2 DEF LoadModule, AllMapped
<1>3. CASE InitReturns
  BY <1>3 DEF InitReturns, AllMapped, NoneMapped
<1>4. CASE LoadDone
  BY <1>4 DEF LoadDone, AllMapped, NoneMapped
<1>5. CASE KilledLoading
  BY <1>5 DEF KilledLoading, AllMapped, NoneMapped
<1>6. CASE ContextMade
  BY <1>6 DEF ContextMade, AllMapped, NoneMapped
<1>7. CASE CallPlugin
  BY <1>7 DEF CallPlugin, AllMapped, NoneMapped
<1>8. CASE PluginReturns
  BY <1>8 DEF PluginReturns, AllMapped, NoneMapped
<1>9. CASE GiveUp
  BY <1>9 DEF GiveUp, Enter, AllMapped, NoneMapped
<1>10. CASE Signalled
  BY <1>10 DEF Signalled, Enter, AllMapped, NoneMapped
<1>11. CASE FreeContext
  BY <1>11 DEF FreeContext, Keep, AllMapped, NoneMapped
<1>12. CASE FreeJob
  BY <1>12 DEF FreeJob, Keep, AllMapped, NoneMapped
<1>13. CASE FreeJobs
  BY <1>13 DEF FreeJobs, Keep, AllMapped, NoneMapped
<1>14. CASE FreeHandler
  BY <1>14 DEF FreeHandler, Keep, AllMapped, NoneMapped
<1>15. CASE FreeHandlers
  BY <1>15, UnloadStarts DEF FreeHandlers, Keep
<1>16. CASE Destroy
  BY <1>16, DestroyKeeps DEF Destroy, Keep, MappedFromK
<1>17. CASE CloseModule
  BY <1>17, CloseKeeps DEF CloseModule, Keep
<1>18. CASE FreeModules
  BY <1>18, UnloadEnds DEF FreeModules, Keep
<1>19. CASE FreeConfig
  BY <1>19 DEF FreeConfig, Keep, AllMapped, NoneMapped
<1>20. CASE CloseLog
  BY <1>20 DEF CloseLog, Keep, AllMapped, NoneMapped
<1>21. CASE Exit
  BY <1>21 DEF Exit, Keep, AllMapped, NoneMapped
<1>22. CASE Reexec
  BY <1>22 DEF Reexec, AllMapped, Range
<1>23. CASE UNCHANGED vars
  BY <1>23 DEF vars, AllMapped, NoneMapped, MappedFromK, DestroyedAt
<1> QED
  BY <1>1, <1>2, <1>3, <1>4, <1>5, <1>6, <1>7, <1>8, <1>9, <1>10,
     <1>11, <1>12, <1>13, <1>14, <1>15, <1>16, <1>17, <1>18, <1>19, <1>20,
     <1>21, <1>22, <1>23
     DEF Next, Load, FreeTables, Unload, Finish, Die

\* harakiri frees one kind after the other, each in the order of its numbers.
LEMMA FreedPreserved ==
  Inv /\ [Next]_vars /\ Uninterrupted' => FreedShape'
<1> SUFFICES ASSUME Inv, [Next]_vars, Uninterrupted' PROVE FreedShape'
  OBVIOUS
<1>0. /\ RunningShape /\ (Uninterrupted => FreedShape)
      /\ entries \in Nat /\ k \in Nat /\ freed \subseteq Object
  BY ModulesAssumption DEF Inv, TypeOK
<1> USE <1>0 DEF RunningShape, FreedShape, Uninterrupted,
        Running, Unloading, tables, signalVars, heap, Loading, Dying
<1>1. CASE LoadFails
  BY <1>1 DEF LoadFails, MayBeFreed
<1>2. CASE LoadModule
  BY <1>2 DEF LoadModule, MayBeFreed
<1>3. CASE InitReturns
  BY <1>3 DEF InitReturns, MayBeFreed
<1>4. CASE LoadDone
  BY <1>4 DEF LoadDone, MayBeFreed
<1>5. CASE KilledLoading
  BY <1>5 DEF KilledLoading, MayBeFreed
<1>6. CASE ContextMade
  BY <1>6 DEF ContextMade, MayBeFreed
<1>7. CASE CallPlugin
  BY <1>7 DEF CallPlugin, MayBeFreed
<1>8. CASE PluginReturns
  BY <1>8 DEF PluginReturns, MayBeFreed
<1>9. CASE GiveUp
  BY <1>9 DEF GiveUp, Enter, MayBeFreed
<1>10. CASE Signalled
  BY <1>10 DEF Signalled, Enter, MayBeFreed
<1>11. CASE FreeContext
  <2>1. freed' = freed \cup (IF ctx THEN {<<"ctx", 0>>} ELSE {}) /\ undefined' = (undefined \/ (IF ctx THEN {<<"ctx", 0>>} ELSE {}) \cap freed # {})
    BY <1>11 DEF FreeContext, FreeAll
  <2>2. ~undefined /\ \A object \in freed : MayBeFreed(object)
    BY <1>11 DEF FreeContext, Keep
  <2>3. (IF ctx THEN {<<"ctx", 0>>} ELSE {}) \cap freed = {}
    BY <1>11, <2>2 DEF FreeContext, MayBeFreed
  <2>4. \A object \in freed : MayBeFreed(object)'
    BY <1>11, <2>2 DEF FreeContext, MayBeFreed, Object
  <2>5. \A object \in (IF ctx THEN {<<"ctx", 0>>} ELSE {}) : MayBeFreed(object)'
    BY <1>11 DEF FreeContext, MayBeFreed
  <2> QED
    BY <2>1, <2>2, <2>3, <2>4, <2>5
<1>12. CASE FreeJob
  <2>1. freed' = freed \cup {<<"job", k>>} /\ undefined' = (undefined \/ {<<"job", k>>} \cap freed # {})
    BY <1>12 DEF FreeJob, FreeAll
  <2>2. ~undefined /\ \A object \in freed : MayBeFreed(object)
    BY <1>12 DEF FreeJob, Keep
  <2>3. {<<"job", k>>} \cap freed = {}
    BY <1>12, <2>2 DEF FreeJob, MayBeFreed
  <2>4. \A object \in freed : MayBeFreed(object)'
    BY <1>12, <2>2 DEF FreeJob, MayBeFreed, Object
  <2>5. \A object \in {<<"job", k>>} : MayBeFreed(object)'
    BY <1>12 DEF FreeJob, MayBeFreed
  <2> QED
    BY <2>1, <2>2, <2>3, <2>4, <2>5
<1>13. CASE FreeJobs
  <2>1. freed' = freed \cup (IF jobs # <<>> THEN {<<"jobs", 0>>} ELSE {}) /\ undefined' = (undefined \/ (IF jobs # <<>> THEN {<<"jobs", 0>>} ELSE {}) \cap freed # {})
    BY <1>13 DEF FreeJobs, FreeAll
  <2>2. ~undefined /\ \A object \in freed : MayBeFreed(object)
    BY <1>13 DEF FreeJobs, Keep
  <2>3. (IF jobs # <<>> THEN {<<"jobs", 0>>} ELSE {}) \cap freed = {}
    BY <1>13, <2>2 DEF FreeJobs, MayBeFreed
  <2>4. \A object \in freed : MayBeFreed(object)'
    BY <1>13, <2>2 DEF FreeJobs, MayBeFreed, Object
  <2>5. \A object \in (IF jobs # <<>> THEN {<<"jobs", 0>>} ELSE {}) : MayBeFreed(object)'
    BY <1>13 DEF FreeJobs, MayBeFreed
  <2> QED
    BY <2>1, <2>2, <2>3, <2>4, <2>5
<1>14. CASE FreeHandler
  <2>1. freed' = freed \cup {<<"handler", k>>} /\ undefined' = (undefined \/ {<<"handler", k>>} \cap freed # {})
    BY <1>14 DEF FreeHandler, FreeAll
  <2>2. ~undefined /\ \A object \in freed : MayBeFreed(object)
    BY <1>14 DEF FreeHandler, Keep
  <2>3. {<<"handler", k>>} \cap freed = {}
    BY <1>14, <2>2 DEF FreeHandler, MayBeFreed
  <2>4. \A object \in freed : MayBeFreed(object)'
    BY <1>14, <2>2 DEF FreeHandler, MayBeFreed, Object
  <2>5. \A object \in {<<"handler", k>>} : MayBeFreed(object)'
    BY <1>14 DEF FreeHandler, MayBeFreed
  <2> QED
    BY <2>1, <2>2, <2>3, <2>4, <2>5
<1>15. CASE FreeHandlers
  <2>1. freed' = freed \cup (IF dllist # <<>> THEN {<<"handlers", 0>>} ELSE {}) /\ undefined' = (undefined \/ (IF dllist # <<>> THEN {<<"handlers", 0>>} ELSE {}) \cap freed # {})
    BY <1>15 DEF FreeHandlers, FreeAll
  <2>2. ~undefined /\ \A object \in freed : MayBeFreed(object)
    BY <1>15 DEF FreeHandlers, Keep
  <2>3. (IF dllist # <<>> THEN {<<"handlers", 0>>} ELSE {}) \cap freed = {}
    BY <1>15, <2>2 DEF FreeHandlers, MayBeFreed
  <2>4. \A object \in freed : MayBeFreed(object)'
    BY <1>15, <2>2 DEF FreeHandlers, MayBeFreed, Object
  <2>5. \A object \in (IF dllist # <<>> THEN {<<"handlers", 0>>} ELSE {}) : MayBeFreed(object)'
    BY <1>15 DEF FreeHandlers, MayBeFreed
  <2> QED
    BY <2>1, <2>2, <2>3, <2>4, <2>5
<1>16. CASE Destroy
  BY <1>16 DEF Destroy, Keep, MayBeFreed
<1>17. CASE CloseModule
  <2>1. freed' = freed \cup {<<"module", k>>} /\ undefined' = (undefined \/ {<<"module", k>>} \cap freed # {})
    BY <1>17 DEF CloseModule, FreeAll
  <2>2. ~undefined /\ \A object \in freed : MayBeFreed(object)
    BY <1>17 DEF CloseModule, Keep
  <2>3. {<<"module", k>>} \cap freed = {}
    BY <1>17, <2>2 DEF CloseModule, MayBeFreed
  <2>4. \A object \in freed : MayBeFreed(object)'
    BY <1>17, <2>2 DEF CloseModule, MayBeFreed, Object
  <2>5. \A object \in {<<"module", k>>} : MayBeFreed(object)'
    BY <1>17 DEF CloseModule, MayBeFreed
  <2> QED
    BY <2>1, <2>2, <2>3, <2>4, <2>5
<1>18. CASE FreeModules
  <2>1. freed' = freed \cup (IF dllist # <<>> THEN {<<"dllist", 0>>} ELSE {}) /\ undefined' = (undefined \/ (IF dllist # <<>> THEN {<<"dllist", 0>>} ELSE {}) \cap freed # {})
    BY <1>18 DEF FreeModules, FreeAll
  <2>2. ~undefined /\ \A object \in freed : MayBeFreed(object)
    BY <1>18 DEF FreeModules, Keep
  <2>3. (IF dllist # <<>> THEN {<<"dllist", 0>>} ELSE {}) \cap freed = {}
    BY <1>18, <2>2 DEF FreeModules, MayBeFreed
  <2>4. \A object \in freed : MayBeFreed(object)'
    BY <1>18, <2>2 DEF FreeModules, MayBeFreed, Object
  <2>5. \A object \in (IF dllist # <<>> THEN {<<"dllist", 0>>} ELSE {}) : MayBeFreed(object)'
    BY <1>18 DEF FreeModules, MayBeFreed
  <2> QED
    BY <2>1, <2>2, <2>3, <2>4, <2>5
<1>19. CASE FreeConfig
  <2>1. freed' = freed \cup {<<"config", 0>>} /\ undefined' = (undefined \/ {<<"config", 0>>} \cap freed # {})
    BY <1>19 DEF FreeConfig, FreeAll
  <2>2. ~undefined /\ \A object \in freed : MayBeFreed(object)
    BY <1>19 DEF FreeConfig, Keep
  <2>3. {<<"config", 0>>} \cap freed = {}
    BY <1>19, <2>2 DEF FreeConfig, MayBeFreed
  <2>4. \A object \in freed : MayBeFreed(object)'
    BY <1>19, <2>2 DEF FreeConfig, MayBeFreed, Object
  <2>5. \A object \in {<<"config", 0>>} : MayBeFreed(object)'
    BY <1>19 DEF FreeConfig, MayBeFreed
  <2> QED
    BY <2>1, <2>2, <2>3, <2>4, <2>5
<1>20. CASE CloseLog
  <2>0. PICK objects \in {{}, {<<"errors", 0>>}} : FreeAll(objects)
    BY <1>20 DEF CloseLog
  <2>1. freed' = freed \cup objects /\ undefined' = (undefined \/ objects \cap freed # {})
    BY <2>0 DEF FreeAll
  <2>2. ~undefined /\ \A object \in freed : MayBeFreed(object)
    BY <1>20 DEF CloseLog, Keep
  <2>3. objects \cap freed = {}
    BY <1>20, <2>0, <2>2 DEF CloseLog, MayBeFreed
  <2>4. \A object \in freed : MayBeFreed(object)'
    BY <1>20, <2>0, <2>2 DEF CloseLog, MayBeFreed, Object
  <2>5. \A object \in objects : MayBeFreed(object)'
    BY <1>20, <2>0 DEF CloseLog, MayBeFreed
  <2> QED
    BY <2>1, <2>2, <2>3, <2>4, <2>5
<1>21. CASE Exit
  BY <1>21 DEF Exit, Keep, MayBeFreed
<1>22. CASE Reexec
  BY <1>22 DEF Reexec, MayBeFreed
<1>23. CASE UNCHANGED vars
  BY <1>23 DEF vars, MayBeFreed
<1> QED
  BY <1>1, <1>2, <1>3, <1>4, <1>5, <1>6, <1>7, <1>8, <1>9, <1>10,
     <1>11, <1>12, <1>13, <1>14, <1>15, <1>16, <1>17, <1>18, <1>19, <1>20,
     <1>21, <1>22, <1>23
     DEF Next, Load, FreeTables, Unload, Finish, Die

\* The invariant holds at the start, with nothing loaded.
LEMMA InitInv == Init => Inv
<1> SUFFICES ASSUME Init PROVE Inv
  OBVIOUS
<1> USE ModulesAssumption DEF Init, Running, Loading, Dying
<1>1. TypeOK
  <2>1. handlers \in Seq(Entry) /\ dllist \in Seq(Files) /\ jobs \in Seq(Files)
    OBVIOUS
  <2>2. destroyed \in [Files -> Nat]
    OBVIOUS
  <2>3. entries \in 0..MaxEntries
    OBVIOUS
  <2>4. /\ todo \subseteq Files /\ open \subseteq Files
        /\ blocked \subseteq Signals /\ freed \subseteq Object
    OBVIOUS
  <2>5. pc \in Loading /\ pc # "closing" /\ k \in Nat \ {0}
    OBVIOUS
  <2>6. running \in Files \cup {NoFile} /\ cause \in Signals \cup {"none"}
    OBVIOUS
  <2>7. ctx \in BOOLEAN /\ undefined \in BOOLEAN
    OBVIOUS
  <2> HIDE DEF Init
  <2> QED
    BY <2>1, <2>2, <2>3, <2>4, <2>5, <2>6, <2>7 DEF TypeOK
<1>2. TableShape
  BY DEF TableShape, Range
<1>3. RunningShape
  BY DEF RunningShape
<1>4. MappedShape
  BY DEF MappedShape, AllMapped, Unloading, Unloaded, Range
<1>5. FreedShape
  BY DEF FreedShape
<1>6. CallsLoaded
  BY DEF CallsLoaded
<1> QED
  BY <1>1, <1>2, <1>3, <1>4, <1>5, <1>6 DEF Inv

\* A plugin that is called in the loop has its file in the table.
LEMMA CallsPreserved ==
  Inv /\ [Next]_vars => CallsLoaded'
<1> SUFFICES ASSUME Inv, [Next]_vars, Uninterrupted', running' # NoFile PROVE running' \in open'
  BY DEF CallsLoaded
<1>0. /\ TypeOK /\ TableShape /\ RunningShape /\ CallsLoaded /\ (Uninterrupted => MappedShape)
      /\ RunningShape' /\ MappedShape'
  BY RunningPreserved, MappedPreserved DEF Inv
<1>e. entries \in Nat
  BY <1>0, ModulesAssumption DEF TypeOK
<1>i. running # NoFile /\ entries <= 1 => running \in open
  BY <1>0 DEF CallsLoaded, Uninterrupted
<1> USE <1>0, <1>e, <1>i DEF Uninterrupted, tables, signalVars, RunningShape, Running, Loading, Dying
<1>1. CASE LoadFails
  BY <1>1 DEF LoadFails
<1>2. CASE LoadModule
  BY <1>2 DEF LoadModule
<1>3. CASE InitReturns
  BY <1>3 DEF InitReturns
<1>4. CASE LoadDone
  BY <1>4 DEF LoadDone
<1>5. CASE KilledLoading
  BY <1>5 DEF KilledLoading
<1>6. CASE ContextMade
  BY <1>6 DEF ContextMade
<1>7. CASE CallPlugin
  <2>1. running' \in Range(dllist)
    BY <1>7 DEF CallPlugin, TableShape, Range
  <2>2. open' = Range(dllist) /\ pc = "loop"
    BY <1>7 DEF CallPlugin, MappedShape, AllMapped
  <2> QED
    BY <2>1, <2>2
<1>8. CASE PluginReturns
  BY <1>8 DEF PluginReturns
<1>9. CASE GiveUp
  BY <1>9 DEF GiveUp, Enter
<1>10. CASE Signalled
  BY <1>10 DEF Signalled, Enter
<1>11. CASE FreeContext
  BY <1>11 DEF FreeContext, Keep
<1>12. CASE FreeJob
  BY <1>12 DEF FreeJob, Keep
<1>13. CASE FreeJobs
  BY <1>13 DEF FreeJobs, Keep
<1>14. CASE FreeHandler
  BY <1>14 DEF FreeHandler, Keep
<1>15. CASE FreeHandlers
  BY <1>15 DEF FreeHandlers, Keep
<1>16. CASE Destroy
  <2>1. k \in DOMAIN dllist /\ dllist[k] \in open /\ running = NoFile /\ open' = open
    BY <1>16, LenProperties DEF Destroy, Keep, TypeOK, MappedShape, MappedFromK, Unloading
  <2> QED
    BY <1>16, <2>1 DEF Destroy
<1>17. CASE CloseModule
  BY <1>17 DEF CloseModule, Keep
<1>18. CASE FreeModules
  BY <1>18 DEF FreeModules, Keep
<1>19. CASE FreeConfig
  BY <1>19 DEF FreeConfig, Keep
<1>20. CASE CloseLog
  BY <1>20 DEF CloseLog, Keep
<1>21. CASE Exit
  BY <1>21 DEF Exit, Keep
<1>22. CASE Reexec
  BY <1>22 DEF Reexec
<1>23. CASE UNCHANGED vars
  BY <1>23 DEF vars
<1> QED
  BY <1>1, <1>2, <1>3, <1>4, <1>5, <1>6, <1>7, <1>8, <1>9, <1>10,
     <1>11, <1>12, <1>13, <1>14, <1>15, <1>16, <1>17, <1>18, <1>19, <1>20,
     <1>21, <1>22, <1>23
     DEF Next, Load, FreeTables, Unload, Finish, Die

\* The four parts of the invariant, and CallsLoaded, are kept by every step.
LEMMA InvHolds == Spec => []Inv
<1>1. Inv /\ [Next]_vars => Inv'
  BY TypePreserved, TablePreserved, RunningPreserved, MappedPreserved, FreedPreserved,
     CallsPreserved DEF Inv
<1> QED
  BY InitInv, <1>1, PTL DEF Spec

-----------------------------------------------------------------------------
(* The properties                                                          *)

\* The variables keep their types, and no loop of harakiri leaves its table.
THEOREM TypeCorrect == Spec => []TypeOK
<1>1. Inv => TypeOK
  BY DEF Inv
<1> QED
  BY <1>1, InvHolds, PTL

\* No job, handler, init or destroy function is called in a file that is not
\* mapped, whatever the plugins export and whenever the first signal comes.
THEOREM CallsLoadedHolds == Spec => []CallsLoaded
<1>1. Inv => CallsLoaded
  BY DEF Inv
<1> QED
  BY <1>1, InvHolds, PTL

\* From load_modules on the table has the handlers of every module that is mapped, in
\* the order of its exports, and nothing else.
THEOREM TableCompleteHolds == Spec => []TableComplete
<1>1. Inv => TableComplete
  <2> SUFFICES ASSUME Inv, pc \in {"start", "loop"} PROVE open = Range(dllist)
    BY DEF TableComplete, TableShape, Inv
  <2>1. Uninterrupted
    BY DEF Inv, RunningShape, Running, Uninterrupted
  <2> QED
    BY <2>1 DEF Inv, MappedShape, AllMapped, Running
<1> QED
  BY <1>1, InvHolds, PTL

\* Until harakiri is entered again nothing is freed twice.
THEOREM TerminatesGracefullyHolds == Spec => []TerminatesGracefully
<1>1. Inv => TerminatesGracefully
  BY DEF Inv, FreedShape, TerminatesGracefully
<1> QED
  BY <1>1, InvHolds, PTL

\* A harakiri that is not entered again destroys and unmaps every module, once.
THEOREM EachUnloadedOnceHolds == Spec => []EachUnloadedOnce
<1>1. Inv => EachUnloadedOnce
  BY DEF Inv, MappedShape, NoneMapped, Unloaded, EachUnloadedOnce
<1> QED
  BY <1>1, InvHolds, PTL
=============================================================================
