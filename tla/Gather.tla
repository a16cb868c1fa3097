-------------------------------- MODULE Gather --------------------------------
(***************************************************************************)
(* The gathering of metrics: gather of plugins/linux_metric.c and of       *)
(* plugins/solaris_metric.c, around which metric_sender and getmetrics of  *)
(* plugins/metricops.c call lstat_to_string and lstat_free.  The structure *)
(* they share lives on the stack of the caller, which does not set it.     *)
(*                                                                         *)
(* One action per file that is opened, per line or entry that is read in a *)
(* loop, and per file that is closed; pc names what gather is at.  A file  *)
(* is the sequence of its lines, a line only the word gather looks for.    *)
(***************************************************************************)
EXTENDS Integers, Sequences, FiniteSets

CONSTANTS
  Platforms,    \* the systems: "linux", "solaris"
  StatFiles,    \* /proc/stat after the four counters that fscanf reads
  MemFiles,     \* /proc/meminfo
  Devices,      \* /proc/net/dev after its header, or the kstat chain
  MountTables,  \* the mounted file systems: "disk" for one that is reported
  Faults,       \* "call", "open", "read", "line", "member", "close", "alloc", "statfs"
  MaxFailures,  \* bound: calls that fail
  Descriptors   \* files the process may have open

Words == {"", "cpu", "page", "swap", "ctxt", "Cached", "if", "disk", "other"}

\* The lines of the processors come before all others.
CpusFirst(file) ==
  \A i \in DOMAIN file : \A j \in 1..i : file[i] = "cpu" => file[j] = "cpu"

ASSUME GatherAssumption ==
  /\ Platforms \subseteq {"linux", "solaris"}
  /\ Faults \subseteq {"call", "open", "read", "line", "member", "close", "alloc",
                    "statfs"}
  /\ StatFiles \cup MemFiles \cup Devices \cup MountTables \subseteq Seq(Words)
  /\ <<>> \notin StatFiles
  /\ \A f \in StatFiles : Head(f) # "other" => CpusFirst(f)
  /\ \A f \in StatFiles : \E i \in 1..(Len(f) - 1) : f[i] # "cpu"
  /\ MaxFailures \in Nat
  /\ Descriptors \in Nat

VARIABLES
  platform,
  pc,
  rest,         \* lines or entries not read yet
  line,         \* the last line in stat_line
  source,       \* ghost: what this round reads, by the name of the file, and
                \* whether all of it can be read
  numcpus,
  set,          \* groups of members of s_stats set in this round
  interfaces,   \* the lists of s_stats
  filesystems,
  scratch,      \* memory only gather points to
  streams,      \* open streams; a kstat handle is an open file, too
  leaked,       \* kinds of memory that nothing points to any more
  failed,       \* gather has returned -1 in this round
  failures      \* failed calls so far

listVars == <<interfaces, filesystems>>
fileVars == <<rest, line, source, numcpus>>
failVars == <<scratch, leaked, failed, failures>>
vars == <<platform, pc, rest, line, source, numcpus, set, interfaces, filesystems,
          scratch, streams, leaked, failed, failures>>

\* A list: what its array is, how many entries it has, and whether NULL follows.
Garbage == [array |-> "garbage", items |-> 0, ended |-> FALSE]
NoArray == [array |-> "null", items |-> 0, ended |-> FALSE]
NewList == [array |-> "block", items |-> 0, ended |-> FALSE]
With(list) == [list EXCEPT !.items = @ + 1]
Ended(list) == [list EXCEPT !.ended = TRUE]

Count(file, word) == Cardinality({k \in DOMAIN file : file[k] = word})

Members == {"names", "memory", "load", "cpu", "cached"}

TypeOK ==
  /\ platform \in Platforms
  /\ pc \in {"idle", "system", "loadavg", "stat", "cpus", "ctxt", "meminfo", "Cached",
             "netdev", "kstat", "swap", "nics", "if", "mounts", "fs",
             "render", "free", "dead"}
  /\ rest \in Seq(Words)
  /\ line \in Words
  /\ numcpus \in Nat
  /\ set \subseteq Members
  /\ \A list \in {interfaces, filesystems} :
       list \in [array : {"garbage", "null", "block"}, items : Nat, ended : BOOLEAN]
  /\ scratch \subseteq {"line", "ifkey"}
  /\ streams \in 0..Descriptors
  /\ leaked \subseteq {"line", "ifkey", "item", "array"}
  /\ failed \in BOOLEAN
  /\ failures \in 0..MaxFailures

NoSource == [stat |-> <<>>, devices |-> <<>>, mounts |-> <<>>, whole |-> TRUE]

\* The structure is what the stack happens to hold.
Init ==
  /\ platform \in Platforms
  /\ pc = "idle"
  /\ rest = <<>>
  /\ line = ""
  /\ source = NoSource
  /\ numcpus = 0
  /\ set = {}
  /\ interfaces = Garbage
  /\ filesystems = Garbage
  /\ scratch = {}
  /\ streams = 0
  /\ leaked = {}
  /\ failed = FALSE
  /\ failures = 0

-----------------------------------------------------------------------------
(* What the actions are made of                                            *)

MayFail(fault) == fault \in Faults /\ failures < MaxFailures
CanOpen == streams < Descriptors

\* gather returns -1.  lost is memory it had put nowhere yet; stat_line is freed
\* before every early return, and the stream that is open stays open.
Return(lost) ==
  /\ pc' = "free"
  /\ failed' = TRUE
  /\ scratch' = {}
  /\ leaked' = leaked \cup lost \cup (scratch \ {"line"})

Fail(fault, lost) ==
  /\ MayFail(fault)
  /\ failures' = failures + 1
  /\ Return(lost)

\* Without a free descriptor it fails for certain.
OpenFails == Fail("open", {}) \/ (~CanOpen /\ UNCHANGED failures /\ Return({}))

\* A null or invalid pointer is used.
Crash ==
  /\ pc' = "dead"
  /\ UNCHANGED <<scratch, leaked, failed>>

GoOn(where) == pc' = where /\ UNCHANGED failVars

\* fgets: at the end of the file the line stays as it is.
NextLine ==
  IF rest = <<>> THEN UNCHANGED <<rest, line>>
                 ELSE rest' = Tail(rest) /\ line' = Head(rest)

\* The caller returns, and with it the structure is gone.
Refresh ==
  /\ pc' = "idle"
  /\ rest' = <<>>
  /\ line' = ""
  /\ source' = NoSource
  /\ numcpus' = 0
  /\ set' = {}
  /\ interfaces' = Garbage
  /\ filesystems' = Garbage
  /\ scratch' = {}
  /\ failed' = FALSE

\* Mutant: a file is left to be closed when the next one is opened.
CloseForgotten(where, done) ==
  /\ UNCHANGED streams
  /\ GoOn(where)
  /\ set' = set \cup done

\* Mutant: it is closed again by what cleans up.
CloseTwice(where, done) ==
  /\ streams' = streams - 2
  /\ GoOn(where)
  /\ set' = set \cup done

\* fclose closes even if it fails.
Close(where, done) ==
  /\ streams' = streams - 1
  /\ \/ GoOn(where) /\ set' = set \cup done
     \/ Fail("close", {}) /\ UNCHANGED set

-----------------------------------------------------------------------------
(* Linux: the files under /proc                                            *)

\* metric_sender or getmetrics calls gather.
Call ==
  /\ pc = "idle"
  /\ pc' = IF platform = "linux" THEN "system" ELSE "kstat"
  /\ UNCHANGED <<platform, fileVars, set, listVars, failVars, streams>>

\* uname; then time, sysinfo and the malloc of stat_line.
GatherSystem ==
  /\ pc = "system"
  /\ \/ Fail("call", {}) /\ set' \in {{}, {"names"}, {"names", "memory"}}
     \/ /\ set' = {"names", "memory"}
        /\ scratch' = {"line"}
        /\ pc' = "loadavg"
        /\ UNCHANGED <<leaked, failed, failures>>
  /\ UNCHANGED <<platform, fileVars, listVars, streams>>

GatherLoad ==
  /\ pc = "loadavg"
  /\ \/ OpenFails /\ UNCHANGED <<streams, set>>
     \/ /\ CanOpen
        /\ \/ GoOn("stat") /\ set' = set \cup {"load"} /\ UNCHANGED streams
           \/ Fail("read", {}) /\ streams' = streams + 1 /\ UNCHANGED set
           \/ Fail("close", {}) /\ UNCHANGED <<streams, set>>
  /\ UNCHANGED <<platform, fileVars, listVars>>

OpenStat ==
  /\ pc = "stat"
  /\ \/ OpenFails /\ UNCHANGED <<streams, fileVars>>
     \/ /\ CanOpen
        /\ streams' = streams + 1
        /\ \/ \E f \in StatFiles :
               /\ source' = [source EXCEPT !.stat = f]
               /\ line' = Head(f)
               /\ rest' = Tail(f)
               /\ GoOn("cpus")
               /\ UNCHANGED numcpus
           \/ Fail("read", {}) /\ UNCHANGED fileVars
  /\ UNCHANGED <<platform, set, listVars>>

\* Mutant: the line is counted before it is looked at.
CountLines ==
  /\ pc = "cpus"
  /\ numcpus' = IF rest = <<>> THEN numcpus ELSE numcpus + 1
  /\ IF line = "cpu" THEN NextLine /\ GoOn("cpus")
                     ELSE UNCHANGED <<rest, line>> /\ GoOn("ctxt")
  /\ UNCHANGED <<platform, source, set, listVars, streams>>

\* A file that ends here is counted on for ever: bound, the number is left alone.
CountCpu ==
  /\ pc = "cpus"
  /\ line = "cpu"
  /\ numcpus' = IF rest = <<>> THEN numcpus ELSE numcpus + 1
  /\ NextLine
  /\ GoOn("cpus")
  /\ UNCHANGED <<platform, source, set, listVars, streams>>

\* The page counters are in the line the loop ended with; fscanf takes the swap
\* counters if they come next, and fails where the file ends.
GatherPaging ==
  /\ pc = "cpus"
  /\ line # "cpu"
  /\ \/ /\ rest # <<>>
        /\ rest' = IF Head(rest) = "swap" THEN Tail(rest) ELSE rest
        /\ GoOn("ctxt")
     \/ rest = <<>> /\ Return({}) /\ UNCHANGED <<rest, failures>>
     \/ Fail("read", {}) /\ UNCHANGED rest
  /\ UNCHANGED <<platform, line, source, numcpus, set, listVars, streams>>

\* while(strncmp(stat_line, ...) != 0): the line gather is at is not pc's.
NotThere == line # pc

SkipLine ==
  /\ pc \in {"ctxt", "Cached"}
  /\ NotThere
  /\ NextLine
  /\ GoOn(pc)
  /\ UNCHANGED <<platform, source, numcpus, set, listVars, streams>>

\* A read fails: fgets and getmntent return no more lines, which no loop tells from
\* the end of the file, and the line stays what it is.
ReadError ==
  /\ pc \in {"cpus", "ctxt", "Cached", "fs"} \/ (pc = "if" /\ platform = "linux")
  /\ rest # <<>>
  /\ MayFail("line")
  /\ failures' = failures + 1
  /\ rest' = <<>>
  /\ source' = [source EXCEPT !.whole = FALSE]
  /\ UNCHANGED <<platform, pc, line, numcpus, set, listVars, scratch, streams, leaked, failed>>

CloseStat ==
  /\ pc = "ctxt"
  /\ ~NotThere
  /\ Close("meminfo", {"cpu"})
  /\ UNCHANGED <<platform, fileVars, listVars>>

OpenMeminfo ==
  /\ pc = "meminfo"
  /\ \/ OpenFails /\ UNCHANGED <<streams, rest>>
     \/ CanOpen /\ streams' = streams + 1 /\ rest' \in MemFiles /\ GoOn("Cached")
  /\ UNCHANGED <<platform, line, source, numcpus, set, listVars>>

CloseMeminfo ==
  /\ pc = "Cached"
  /\ ~NotThere
  /\ Close("netdev", {"cached"})
  /\ UNCHANGED <<platform, fileVars, listVars>>

Read(file, f) ==
  /\ source' = [source EXCEPT ![file] = f]
  /\ rest' = f
  /\ UNCHANGED <<line, numcpus>>

\* Every line of /proc/net/dev is an interface.
OpenNetDev ==
  /\ pc = "netdev"
  /\ \/ OpenFails /\ UNCHANGED <<streams, fileVars, interfaces>>
     \/ /\ CanOpen
        /\ streams' = streams + 1
        /\ \/ /\ interfaces' = NewList
              /\ \E f \in {d \in Devices : Count(d, "other") = 0} : Read("devices", f)
              /\ GoOn("if")
           \/ Fail("alloc", {}) /\ interfaces' = NoArray /\ UNCHANGED fileVars
  /\ UNCHANGED <<platform, set, filesystems>>

-----------------------------------------------------------------------------
(* Solaris: kstat and swap -s                                              *)

\* Most system calls are not checked here; the handle is closed only at the end.
\* A kstat that lacks a member ends the process, as does a swap -s that says nothing.
OpenKstat ==
  /\ pc = "kstat"
  /\ \/ OpenFails /\ set' = {"names"} /\ UNCHANGED streams
     \/ /\ CanOpen
        /\ streams' = streams + 1
        /\ \/ GoOn("swap") /\ set' = {"names", "memory", "load", "cached"}
           \/ Fail("read", {}) /\ set' = {"names"}
           \/ MayFail("member") /\ Crash /\ failures' = failures + 1 /\ set' = {"names"}
  /\ UNCHANGED <<platform, fileVars, listVars>>

\* Without a pipe fgets is called with NULL; strstr, too, finds nothing without it.
ReadSwap ==
  /\ pc = "swap"
  /\ \/ CanOpen /\ GoOn("nics")
     \/ Fail("alloc", {})
     \/ ~CanOpen /\ Crash /\ UNCHANGED failures
     \/ (MayFail("open") \/ MayFail("member")) /\ Crash /\ failures' = failures + 1
  /\ UNCHANGED <<platform, fileVars, set, listVars, streams>>

\* The processors are summed up, the array and ifkey are allocated.
SumCpus ==
  /\ pc = "nics"
  /\ \/ /\ set' = set \cup {"cpu"}
        /\ interfaces' = NewList
        /\ \E f \in Devices : Read("devices", f)
        /\ scratch' = {"ifkey"}
        /\ pc' = "if"
        /\ UNCHANGED <<leaked, failed, failures>>
     \/ /\ Fail("alloc", {})
        /\ interfaces' \in {NoArray, NewList}
        /\ UNCHANGED <<set, fileVars>>
  /\ UNCHANGED <<platform, filesystems, streams>>

-----------------------------------------------------------------------------
(* The two lists                                                           *)

\* realloc or malloc fails: the first loses the whole list, the second nothing.
AllocFails(list, reallocated) ==
  \/ Fail("alloc", {}) /\ UNCHANGED list
  \/ reallocated /\ Fail("alloc", {"array", "item"}) /\ list' = NoArray

\* One turn of the loop, for an entry that is reported.
AddEntry(list, fault) ==
  \/ /\ list' = With(list)
     /\ rest' = Tail(rest)
     /\ GoOn(pc)
  \/ AllocFails(list, list.items > 0) /\ UNCHANGED rest
  \/ Fail(fault, {"item"}) /\ UNCHANGED <<list, rest>>

\* A kstat of something else, a file system that is not reported.
SkipEntry ==
  /\ pc \in {"if", "fs"}
  /\ rest # <<>>
  /\ Head(rest) = "other"
  /\ rest' = Tail(rest)
  /\ GoOn(pc)
  /\ UNCHANGED <<platform, line, source, numcpus, set, listVars, streams>>

\* sscanf finds nothing behind the name; kstat_lookup fails.  get_named_member
\* returns -1 for a counter the kstat lacks, which is used as a pointer.
AddInterface ==
  /\ pc = "if"
  /\ rest # <<>>
  /\ Head(rest) = "if"
  /\ \/ AddEntry(interfaces, "read")
     \/ /\ platform = "solaris"
        /\ MayFail("member")
        /\ Crash
        /\ failures' = failures + 1
        /\ UNCHANGED <<rest, interfaces>>
  /\ UNCHANGED <<platform, line, source, numcpus, set, filesystems, streams>>

\* Mutant: the NULL is left out.
InterfacesUnended ==
  /\ pc = "if"
  /\ rest = <<>>
  /\ IF platform = "linux" THEN Close("mounts", {})
                           ELSE GoOn("mounts") /\ UNCHANGED <<streams, set>>
  /\ UNCHANGED <<platform, fileVars, listVars>>

EndInterfaces ==
  /\ pc = "if"
  /\ rest = <<>>
  /\ \/ /\ interfaces' = Ended(interfaces)
        /\ IF platform = "linux" THEN Close("mounts", {})
                                 ELSE GoOn("mounts") /\ UNCHANGED <<streams, set>>
     \/ /\ Fail("alloc", {"array", "item"})
        /\ interfaces' = NoArray
        /\ UNCHANGED <<streams, set>>
  /\ UNCHANGED <<platform, fileVars, filesystems>>

OpenMounts ==
  /\ pc = "mounts"
  /\ \/ /\ CanOpen
        /\ streams' = streams + 1
        /\ filesystems' = NewList
        /\ \E f \in MountTables : Read("mounts", f)
        /\ GoOn("fs")
     \/ /\ OpenFails
        /\ filesystems' = NewList
        /\ UNCHANGED <<streams, fileVars>>
     \/ /\ Fail("alloc", {})
        /\ filesystems' = NoArray
        /\ UNCHANGED <<streams, fileVars>>
  /\ UNCHANGED <<platform, set, interfaces>>

\* The result of statvfs is not looked at on Solaris.
AddFilesystem ==
  /\ pc = "fs"
  /\ rest # <<>>
  /\ Head(rest) = "disk"
  /\ AddEntry(filesystems, IF platform = "linux" THEN "statfs" ELSE "none")
  /\ UNCHANGED <<platform, line, source, numcpus, set, interfaces, streams>>

EndFilesystems ==
  /\ pc = "fs"
  /\ rest = <<>>
  /\ platform = "linux"
  /\ \/ /\ filesystems' = Ended(filesystems)
        /\ streams' = streams - 1
        /\ scratch' = {}
        /\ pc' = "render"
        /\ UNCHANGED <<leaked, failed, failures>>
     \/ Fail("alloc", {"array", "item"}) /\ filesystems' = NoArray
                          /\ UNCHANGED streams
  /\ UNCHANGED <<platform, fileVars, set, interfaces>>

\* stat_line, freed in ReadSwap, is freed a second time, which may end the
\* process; ifkey is not freed at all.
EndFilesystemsSolaris ==
  /\ pc = "fs"
  /\ rest = <<>>
  /\ platform = "solaris"
  /\ \/ /\ filesystems' = Ended(filesystems)
        /\ streams' = streams - 2
        /\ leaked' = leaked \cup scratch
        /\ scratch' = {}
        /\ pc' \in {"render", "dead"}
        /\ UNCHANGED <<failed, failures>>
     \/ /\ Fail("alloc", {"array", "item"})
        /\ filesystems' = NoArray
        /\ streams' = streams - 1
  /\ UNCHANGED <<platform, fileVars, set, interfaces>>

-----------------------------------------------------------------------------
(* metric_sender and getmetrics                                            *)

\* lstat_to_string goes over both lists up to the NULL; the text is sent, saved
\* or added to the output, and freed.
Render ==
  /\ pc = "render"
  /\ GoOn("free")
  /\ UNCHANGED <<platform, fileVars, set, listVars, streams>>

Sound == "names" \in set /\ interfaces.ended /\ filesystems.ended

\* lstat_free frees pointers that gather has not set: all that come after the
\* call that failed, and the address of every interface.  When these are not
\* fatal by chance the round is over.
FreeStats ==
  /\ pc = "free"
  /\ \/ /\ "null" \notin {interfaces.array, filesystems.array}
        /\ Refresh
     \/ /\ Sound => interfaces.items > 0
        /\ pc' = "dead"
        /\ UNCHANGED <<fileVars, set, listVars, scratch, failed>>
  /\ UNCHANGED <<platform, streams, leaked, failures>>

\* init(8) starts the agent again: its memory and its open files are gone.
Restart ==
  /\ pc = "dead"
  /\ Refresh
  /\ streams' = 0
  /\ leaked' = {}
  /\ UNCHANGED <<platform, failures>>

Linux == GatherSystem \/ GatherLoad \/ OpenStat \/ CountCpu \/ GatherPaging \/ SkipLine
           \/ ReadError \/ CloseStat \/ OpenMeminfo \/ CloseMeminfo \/ OpenNetDev \/ EndFilesystems
Solaris == OpenKstat \/ ReadSwap \/ SumCpus \/ EndFilesystemsSolaris
Lists == SkipEntry \/ AddInterface \/ EndInterfaces \/ OpenMounts \/ AddFilesystem

Next == Call \/ Linux \/ Solaris \/ Lists \/ Render \/ FreeStats \/ Restart

Spec == Init /\ [][Next]_vars

\* A single thread whose system calls return; init(8) restarts what has died.
FairSpec == Spec /\ WF_vars(Next)

-----------------------------------------------------------------------------
(* Properties                                                              *)

\* lstat_to_string meets nothing but what gather has set in the same round: every
\* member, and two lists that end.
RenderedWhole ==
  pc = "render" => set = Members /\ interfaces.ended /\ filesystems.ended

\* It reports every interface and every file system that is not filtered out, but
\* for those behind a read that fails, which passes for the end of the file; and
\* every processor if the line of all processors has the four counters fscanf
\* reads and no more (a longer one, of kernel 2.6, is taken for the end of them).
CountsRight ==
  pc = "render" /\ source.whole =>
    /\ interfaces.items = Count(source.devices, "if")
    /\ filesystems.items = Count(source.mounts, "disk")
    /\ platform = "linux" /\ Head(source.stat) # "other"
         => numcpus = Count(source.stat, "cpu")

\* Descriptors that a failed call leaves open: the file that is read, and on
\* Solaris the kstat handle with it.
LeftOpen == IF platform = "linux" THEN 1 ELSE 2

\* Nothing is left open but by failed calls, a round that ends early leaving one
\* file open and on Solaris the kstat handle, too; no memory is lost without a
\* failed call but ifkey.
ResourcesReturned ==
  pc = "idle" =>
    /\ streams <= LeftOpen * failures
    /\ failures = 0 => leaked \subseteq (IF platform = "linux" THEN {} ELSE {"ifkey"})

\* The loops up to a line of a file (linux_metric.c:153, 185, 218) do not look at
\* what fgets returns: at the end of a file that lacks it they go on for ever.
InEndlessLoop ==
  /\ pc \in {"cpus", "ctxt", "Cached"}
  /\ rest = <<>>
  /\ IF pc = "cpus" THEN line = "cpu" ELSE NotThere

\* Enough failed calls, each of which has left its files open, to take up every
\* descriptor.
Exhausted == streams = Descriptors /\ LeftOpen * failures >= Descriptors

\* Once no more calls fail metrics are gathered again and again, unless one of
\* these is so from then on: gather is in a loop over a file that lacks its line,
\* or failed calls have used up the descriptors, which every further round needs
\* and none gives back.  On Solaris it may be the second free of stat_line, or
\* the pipe there is no descriptor for, that ends each round.
GathersAgain ==
  \/ []<>(pc = "render")
  \/ <>[]InEndlessLoop
  \/ <>[]Exhausted
  \/ platform = "solaris" /\ []<>(pc = "dead")

\* "Metric gathering returned with errors." (metricops.c:279): metric_sender logs
\* it, frees the structure and returns, and the agent goes on.
FailureSurvived == ~(pc = "dead" /\ failed)
=============================================================================
