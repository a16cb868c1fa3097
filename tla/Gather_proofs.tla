----------------------------- MODULE Gather_proofs -----------------------------
(***************************************************************************)
(* Proofs about gather on both systems, for files of any length, any       *)
(* number of failures and any number of open files.                        *)
(***************************************************************************)
EXTENDS Gather, FunctionTheorems, FiniteSetTheorems, SequenceTheorems, TLAPS

-----------------------------------------------------------------------------
(* The inductive invariant                                                 *)

Adding == {"if", "mounts", "fs", "render"}

\* What of the structure gather has set when it is at pc.
SetShape ==
  /\ pc = "loadavg" => {"names", "memory"} \subseteq set
  /\ pc \in {"stat", "cpus", "ctxt"} => {"names", "memory", "load"} \subseteq set
  /\ pc \in {"meminfo", "Cached"} => {"names", "memory", "load", "cpu"} \subseteq set
  /\ pc \in {"swap", "nics"} => {"names", "memory", "load", "cached"} \subseteq set
  /\ pc \in {"netdev"} \cup Adding => set = Members

\* Both lists end, and while no read has failed a list and what is still to be read
\* are what there is.
ListShape ==
  /\ pc \in {"mounts", "fs", "render"} => interfaces.ended
  /\ pc = "render" => filesystems.ended
  /\ source.whole =>
       /\ pc = "if" =>
            interfaces.items + Count(rest, "if") = Count(source.devices, "if")
       /\ pc \in {"mounts", "fs", "render"} =>
            interfaces.items = Count(source.devices, "if")
       /\ pc = "fs" =>
            filesystems.items + Count(rest, "disk") = Count(source.mounts, "disk")
       /\ pc = "render" => filesystems.items = Count(source.mounts, "disk")

\* So are the processors, unless the file ends with them: then the loop does not.
CpuShape ==
  /\ pc \in {"idle", "system", "loadavg", "stat"} => numcpus = 0
  /\ platform = "linux" /\ pc \in {"cpus", "ctxt", "meminfo", "Cached", "netdev"} \cup Adding =>
       /\ source.stat # <<>>
       /\ Head(source.stat) # "other" /\ source.whole =>
            IF pc = "cpus"
              THEN /\ CpusFirst(rest)
                   /\ line # "cpu" => Count(rest, "cpu") = 0
                   /\ \/ line = "cpu" /\ rest = <<>>
                      \/ numcpus + (IF line = "cpu" THEN 1 ELSE 0) + Count(rest, "cpu")
                           = Count(source.stat, "cpu")
              ELSE numcpus = Count(source.stat, "cpu")

\* There is a line behind the one the processors end with, unless a read fails.
EndsBehind(file) == \E i \in 1..(Len(file) - 1) : file[i] # "cpu"

PagingShape ==
  /\ pc \in {"idle", "system", "loadavg", "stat"} => source.whole
  /\ pc = "cpus" /\ source.whole => (line # "cpu" /\ rest # <<>>) \/ EndsBehind(rest)

\* The files a round without failures has open at pc.
InUse ==
  IF platform = "linux"
    THEN IF pc \in {"cpus", "ctxt", "Cached", "if", "fs"} THEN 1 ELSE 0
    ELSE IF pc \in {"swap", "nics", "if", "mounts"} THEN 1 ELSE IF pc = "fs" THEN 2 ELSE 0

\* A failed call leaves at most the files open that are in use; where the loop over
\* the processors is cut short the failure that follows is counted already.
StreamShape ==
  /\ pc # "dead" =>
       /\ InUse <= streams
       /\ streams <= InUse + (IF platform = "linux" THEN failures ELSE 2 * failures)
  /\ platform = "solaris" /\ pc \in {"nics", "if", "mounts"} => CanOpen
  /\ pc = "cpus" /\ ~source.whole => streams <= failures

MemoryShape ==
  IF platform = "linux"
    THEN scratch \subseteq {"line"} /\ (failures = 0 => leaked = {})
    ELSE scratch \subseteq {"ifkey"} /\ (failures = 0 => leaked \subseteq {"ifkey"})

\* Which system calls the other has not.
PlatformShape ==
  /\ platform = "linux" => pc \notin {"kstat", "swap", "nics"}
  /\ platform = "solaris" =>
       pc \notin {"system", "loadavg", "stat", "cpus", "ctxt", "meminfo", "Cached", "netdev"}

SourceType == source \in [stat : Seq(Words), devices : Seq(Words), mounts : Seq(Words),
                         whole : BOOLEAN]

Inv ==
  /\ TypeOK
  /\ SourceType
  /\ PlatformShape
  /\ SetShape
  /\ ListShape
  /\ CpuShape
  /\ PagingShape
  /\ StreamShape
  /\ MemoryShape

-----------------------------------------------------------------------------
(* Counting the lines of a file                                            *)

\* A file without lines has none with a word.
LEMMA CountEmpty == \A word : Count(<<>>, word) = 0
<1>1. \A word : {k \in DOMAIN <<>> : <<>>[k] = word} = {}
  OBVIOUS
<1> QED
  BY <1>1, FS_EmptySet DEF Count

\* A file has as many lines with a word as what is behind its first line, and one
\* more if the first line is one.
LEMMA CountOfTail ==
  ASSUME NEW S, NEW s \in Seq(S), NEW word
  PROVE  /\ Count(s, word) \in Nat
         /\ s # <<>> =>
              Count(s, word) = (IF Head(s) = word THEN 1 ELSE 0) + Count(Tail(s), word)
<1> DEFINE At(t) == {k \in DOMAIN t : t[k] = word}
<1>1. ASSUME NEW t \in Seq(S)
      PROVE  IsFiniteSet(At(t)) /\ Cardinality(At(t)) \in Nat
  <2>1. DOMAIN t = 1..Len(t) /\ Len(t) \in Nat
    BY LenProperties
  <2>2. IsFiniteSet(1..Len(t)) /\ At(t) \in SUBSET (1..Len(t))
    BY <2>1, FS_Interval
  <2>3. IsFiniteSet(At(t))
    BY <2>2, FS_Subset
  <2> QED
    BY <2>3, FS_CardinalityType
<1>2. ASSUME s # <<>>
      PROVE  Cardinality(At(s)) = (IF Head(s) = word THEN 1 ELSE 0) + Cardinality(At(Tail(s)))
  <2>1. /\ Tail(s) \in Seq(S) /\ Len(s) \in Nat /\ Len(Tail(s)) = Len(s) - 1
        /\ Len(s) >= 1
        /\ DOMAIN s = 1..Len(s) /\ DOMAIN Tail(s) = 1..(Len(s) - 1)
        /\ \A i \in 1..(Len(s) - 1) : Tail(s)[i] = s[i + 1]
        /\ Head(s) = s[1]
    <3>1. Tail(s) \in Seq(S) /\ Len(Tail(s)) = Len(s) - 1
      BY <1>2, HeadTailProperties
    <3>2. \A i \in 1..Len(Tail(s)) : Tail(s)[i] = s[i + 1]
      BY <1>2, HeadTailProperties
    <3>3. Len(s) \in Nat /\ DOMAIN s = 1..Len(s) /\ DOMAIN Tail(s) = 1..Len(Tail(s))
      BY <3>1, LenProperties
    <3>4. Len(s) >= 1
      BY <1>2, <3>3, EmptySeq
    <3>5. Head(s) = s[1]
      BY <1>2
    <3> QED
      BY <3>1, <3>2, <3>3, <3>4, <3>5
  <2> DEFINE Behind == At(s) \ {1}
             shift == [k \in At(Tail(s)) |-> k + 1]
  <2>2. shift \in Bijection(At(Tail(s)), Behind)
    <3>1. \A k \in At(Tail(s)) : k + 1 \in Behind
      BY <2>1
    <3>2. \A i \in Behind : i - 1 \in At(Tail(s)) /\ (i - 1) + 1 = i
      BY <2>1
    <3>3. \A i, k \in At(Tail(s)) : i + 1 = k + 1 => i = k
      BY <2>1
    <3>4. shift \in [At(Tail(s)) -> Behind]
      BY <3>1
    <3>5. \A i, k \in At(Tail(s)) : shift[i] = shift[k] => i = k
      BY <3>3
    <3>6. \A i \in Behind : \E k \in At(Tail(s)) : shift[k] = i
      BY <3>2
    <3> HIDE DEF shift, Behind, At
    <3> QED
      BY <3>4, <3>5, <3>6, Fun_IsBij
  <2>3. IsFiniteSet(At(s)) /\ IsFiniteSet(At(Tail(s))) /\ Cardinality(At(Tail(s))) \in Nat
    BY <1>1, <2>1
  <2>4. Cardinality(Behind) = Cardinality(At(Tail(s)))
    <3>1. ExistsBijection(At(Tail(s)), Behind)
      BY <2>2 DEF ExistsBijection
    <3> HIDE DEF Behind, At
    <3> QED
      BY <2>3, <3>1, FS_Bijection
  <2>5. 1 \in At(s) <=> Head(s) = word
    BY <2>1
  <2>6. Cardinality(Behind) = IF 1 \in At(s) THEN Cardinality(At(s)) - 1 ELSE Cardinality(At(s))
    <3> HIDE DEF At
    <3> QED
      BY <2>3, FS_RemoveElement
  <2>7. Cardinality(At(s)) \in Nat
    BY <1>1
  <2> HIDE DEF At, Behind
  <2> QED
    BY <2>3, <2>4, <2>5, <2>6, <2>7
<1> QED
  BY <1>1, <1>2 DEF Count

\* The processors of a file that has them first are those in front.
LEMMA CpusFirstOfTail ==
  ASSUME NEW S, NEW s \in Seq(S), s # <<>>, CpusFirst(s)
  PROVE  /\ CpusFirst(Tail(s))
         /\ Head(s) # "cpu" => Count(Tail(s), "cpu") = 0
<1>1. /\ Len(s) \in Nat
      /\ DOMAIN s = 1..Len(s) /\ DOMAIN Tail(s) = 1..(Len(s) - 1)
      /\ \A i \in 1..(Len(s) - 1) : Tail(s)[i] = s[i + 1]
      /\ Head(s) = s[1]
  <2>1. Tail(s) \in Seq(S) /\ Len(Tail(s)) = Len(s) - 1
    BY HeadTailProperties
  <2>2. \A i \in 1..Len(Tail(s)) : Tail(s)[i] = s[i + 1]
    BY HeadTailProperties
  <2>3. Len(s) \in Nat /\ DOMAIN s = 1..Len(s) /\ DOMAIN Tail(s) = 1..Len(Tail(s))
    BY <2>1, LenProperties
  <2> QED
    BY <2>1, <2>2, <2>3
<1>2. CpusFirst(Tail(s))
  <2> SUFFICES ASSUME NEW i \in DOMAIN Tail(s), NEW j \in 1..i, Tail(s)[i] = "cpu"
               PROVE  Tail(s)[j] = "cpu"
    BY DEF CpusFirst
  <2>1. i + 1 \in DOMAIN s /\ j + 1 \in 1..(i + 1) /\ s[i + 1] = "cpu"
    BY <1>1
  <2>2. s[j + 1] = "cpu"
    BY <2>1 DEF CpusFirst
  <2> QED
    BY <1>1, <2>2
<1>3. ASSUME Head(s) # "cpu" PROVE Count(Tail(s), "cpu") = 0
  <2>1. \A i \in DOMAIN Tail(s) : Tail(s)[i] # "cpu"
    <3> SUFFICES ASSUME NEW i \in DOMAIN Tail(s), Tail(s)[i] = "cpu" PROVE FALSE
      OBVIOUS
    <3>1. i + 1 \in DOMAIN s /\ 1 \in 1..(i + 1) /\ s[i + 1] = "cpu"
      BY <1>1
    <3>2. s[1] = "cpu"
      BY <3>1 DEF CpusFirst
    <3> QED
      BY <1>1, <1>3, <3>2
  <2>2. {i \in DOMAIN Tail(s) : Tail(s)[i] = "cpu"} = {}
    BY <2>1
  <2> QED
    BY <2>2, FS_EmptySet DEF Count
<1> QED
  BY <1>2, <1>3

-----------------------------------------------------------------------------
(* Every step preserves the inductive invariant                            *)

\* A list is a record, and the entry that is added to it is counted.
LEMMA ListFacts ==
  LET List == [array : {"garbage", "null", "block"}, items : Nat, ended : BOOLEAN]
  IN /\ {Garbage, NoArray, NewList} \subseteq List
     /\ NewList.items = 0
     /\ \A list \in List : /\ With(list) \in List
                            /\ With(list).items = list.items + 1
                            /\ Ended(list) \in List
                            /\ Ended(list).items = list.items
                            /\ Ended(list).ended
<1> DEFINE List == [array : {"garbage", "null", "block"}, items : Nat, ended : BOOLEAN]
<1>1. {Garbage, NoArray, NewList} \subseteq List /\ NewList.items = 0
  BY DEF Garbage, NoArray, NewList
<1>2. ASSUME NEW list \in List
      PROVE  With(list) \in List /\ With(list).items = list.items + 1
  BY DEF With
<1>3. ASSUME NEW list \in List
      PROVE  Ended(list) \in List /\ Ended(list).items = list.items /\ Ended(list).ended
  BY DEF Ended
<1> QED
  BY <1>1, <1>2, <1>3

\* Before the first file is opened nothing was read.
LEMMA NothingRead ==
  /\ <<>> \in Seq(Words) /\ "" \in Words
  /\ NoSource \in [stat : Seq(Words), devices : Seq(Words), mounts : Seq(Words), whole : BOOLEAN]
<1>1. <<>> \in Seq(Words)
  OBVIOUS
<1>2. "" \in Words
  BY DEF Words
<1> QED
  BY <1>1, <1>2 DEF NoSource

\* A file is read line by line.
LEMMA RestFacts ==
  ASSUME Inv
  PROVE  /\ rest # <<>> => Head(rest) \in Words /\ Tail(rest) \in Seq(Words)
         /\ \A f \in StatFiles : f \in Seq(Words) /\ Head(f) \in Words /\ Tail(f) \in Seq(Words)
         /\ MemFiles \subseteq Seq(Words) /\ Devices \subseteq Seq(Words)
         /\ MountTables \subseteq Seq(Words)
<1>1. rest \in Seq(Words) /\ StatFiles \subseteq Seq(Words) /\ <<>> \notin StatFiles
  BY GatherAssumption DEF Inv, TypeOK
<1>2. \A s \in Seq(Words) : s # <<>> => Head(s) \in Words /\ Tail(s) \in Seq(Words)
  BY HeadTailProperties
<1> QED
  BY <1>1, <1>2, GatherAssumption

\* Each system has its own way to the lists.
LEMMA PlatformPreserved ==
  Inv /\ [Next]_vars => PlatformShape'
<1> SUFFICES ASSUME Inv, [Next]_vars PROVE PlatformShape'
  OBVIOUS
<1>0. platform \in {"linux", "solaris"} /\ PlatformShape
  BY GatherAssumption DEF Inv, TypeOK
<1> USE <1>0
<1> USE DEF PlatformShape, Adding
<1>1. CASE Call
  BY <1>1 DEF Call
<1>2. CASE GatherSystem
  BY <1>2 DEF GatherSystem, Fail, Return, MayFail
<1>3. CASE GatherLoad
  BY <1>3 DEF GatherLoad, OpenFails, Fail, Return, MayFail, CanOpen, GoOn
<1>4. CASE OpenStat
  BY <1>4 DEF OpenStat, OpenFails, Fail, Return, MayFail, CanOpen, GoOn
<1>5. CASE CountCpu
  BY <1>5 DEF CountCpu, NextLine, GoOn
<1>6. CASE GatherPaging
  BY <1>6 DEF GatherPaging, Fail, Return, MayFail, GoOn
<1>7. CASE SkipLine
  BY <1>7 DEF SkipLine, NextLine, GoOn
<1>8. CASE CloseStat
  BY <1>8 DEF CloseStat, Close, Fail, Return, MayFail, GoOn
<1>9. CASE OpenMeminfo
  BY <1>9 DEF OpenMeminfo, OpenFails, Fail, Return, MayFail, CanOpen, GoOn
<1>10. CASE CloseMeminfo
  BY <1>10 DEF CloseMeminfo, Close, Fail, Return, MayFail, GoOn
<1>11. CASE OpenNetDev
  BY <1>11 DEF OpenNetDev, OpenFails, Fail, Return, MayFail, CanOpen, GoOn, Read
<1>12. CASE EndFilesystems
  BY <1>12 DEF EndFilesystems, Fail, Return, MayFail
<1>13. CASE OpenKstat
  BY <1>13 DEF OpenKstat, Crash, OpenFails, Fail, Return, MayFail, CanOpen, GoOn
<1>14. CASE ReadSwap
  BY <1>14 DEF ReadSwap, Crash, OpenFails, Fail, Return, MayFail, CanOpen, GoOn
<1>15. CASE SumCpus
  BY <1>15 DEF SumCpus, Fail, Return, MayFail, Read
<1>16. CASE EndFilesystemsSolaris
  BY <1>16 DEF EndFilesystemsSolaris, Fail, Return, MayFail
<1>17. CASE SkipEntry
  BY <1>17 DEF SkipEntry, GoOn
<1>18. CASE AddInterface
  BY <1>18 DEF AddInterface, Crash, AddEntry, AllocFails, Fail, Return, MayFail, GoOn
<1>19. CASE EndInterfaces
  BY <1>19 DEF EndInterfaces, Close, Fail, Return, MayFail, GoOn
<1>20. CASE OpenMounts
  BY <1>20 DEF OpenMounts, OpenFails, Fail, Return, MayFail, CanOpen, GoOn, Read
<1>21. CASE AddFilesystem
  BY <1>21 DEF AddFilesystem, AddEntry, AllocFails, Fail, Return, MayFail, GoOn
<1>22. CASE Render
  BY <1>22 DEF Render, GoOn
<1>23. CASE FreeStats
  BY <1>23 DEF FreeStats, Refresh, Sound
<1>24. CASE Restart
  BY <1>24 DEF Restart, Refresh
<1>25. CASE UNCHANGED vars
  BY <1>25 DEF vars, listVars, fileVars, failVars
<1>26. CASE ReadError
  BY <1>26 DEF ReadError, MayFail, listVars
<1> QED
  BY <1>1, <1>2, <1>3, <1>4, <1>5, <1>6, <1>7, <1>8, <1>9, <1>10,
     <1>11, <1>12, <1>13, <1>14, <1>15, <1>16, <1>17, <1>18, <1>19, <1>20,
     <1>21, <1>22, <1>23, <1>24, <1>25, <1>26
     DEF Next, Linux, Solaris, Lists

\* Once the first line is read there is still a line behind the processors.
LEMMA EndsBehindTail ==
  ASSUME NEW s \in Seq(Words), EndsBehind(s)
  PROVE  (Head(s) # "cpu" /\ Tail(s) # <<>>) \/ EndsBehind(Tail(s))
<1>1. PICK i \in 1..(Len(s) - 1) : s[i] # "cpu"
  BY DEF EndsBehind
<1>2. Len(s) \in Nat /\ s # <<>>
  <2>1. Len(s) \in Nat
    BY LenProperties
  <2>2. Len(s) # 0
    BY <1>1, <2>1
  <2> QED
    BY <2>1, <2>2, EmptySeq
<1>3. Tail(s) \in Seq(Words) /\ Len(Tail(s)) = Len(s) - 1 /\ Head(s) = s[1]
  BY <1>2, HeadTailProperties
<1>4. CASE i = 1
  <2>1. Len(Tail(s)) # 0
    BY <1>1, <1>2, <1>3
  <2>2. Tail(s) # <<>>
    BY <2>1, EmptySeq
  <2> QED
    BY <1>1, <1>3, <1>4, <2>2
<1>5. CASE i # 1
  <2>1. i - 1 \in 1..(Len(Tail(s)) - 1)
    BY <1>1, <1>2, <1>3, <1>5
  <2>2. Tail(s)[i - 1] = s[i]
    <3>1. \A k \in 1..Len(Tail(s)) : Tail(s)[k] = s[k + 1]
      BY <1>2, HeadTailProperties
    <3>2. i - 1 \in 1..Len(Tail(s)) /\ (i - 1) + 1 = i
      BY <1>2, <1>3, <2>1
    <3> QED
      BY <3>1, <3>2
  <2> QED
    BY <1>1, <2>1, <2>2 DEF EndsBehind
<1> QED
  BY <1>4, <1>5

\* The lines behind the processors are not read in the loop over them.
LEMMA PagingPreserved ==
  Inv /\ [Next]_vars => PagingShape'
<1> SUFFICES ASSUME Inv, [Next]_vars PROVE PagingShape'
  OBVIOUS
<1>0. SourceType /\ PagingShape /\ rest \in Seq(Words)
  BY DEF Inv, TypeOK
<1> USE <1>0
<1> USE DEF PagingShape, listVars, fileVars, failVars
<1>1. CASE Call
  BY <1>1 DEF Call
<1>2. CASE GatherSystem
  BY <1>2 DEF GatherSystem, Fail, Return, MayFail
<1>3. CASE GatherLoad
  BY <1>3 DEF GatherLoad, OpenFails, Fail, Return, MayFail, CanOpen, GoOn
<1>4. CASE OpenStat
  <2>1. CASE pc' = "free"
    BY <2>1
  <2>2. CASE pc' # "free"
    <3>1. PICK f \in StatFiles : line' = Head(f) /\ rest' = Tail(f)
      BY <1>4, <2>2 DEF OpenStat, OpenFails, Fail, Return, CanOpen, GoOn
    <3>2. pc' = "cpus"
      BY <1>4, <2>2 DEF OpenStat, OpenFails, Fail, Return, CanOpen, GoOn
    <3>3. f \in Seq(Words) /\ EndsBehind(f)
      BY GatherAssumption DEF EndsBehind
    <3>4. (Head(f) # "cpu" /\ Tail(f) # <<>>) \/ EndsBehind(Tail(f))
      BY <3>3, EndsBehindTail
    <3> QED
      BY <3>1, <3>2, <3>4
  <2> QED
    BY <2>1, <2>2
<1>5. CASE CountCpu
  <2>1. pc' = "cpus" /\ line = "cpu" /\ source' = source
    BY <1>5 DEF CountCpu, GoOn
  <2>2. CASE rest = <<>>
    BY <1>5, <2>1, <2>2 DEF CountCpu, NextLine
  <2>3. CASE rest # <<>>
    <3>1. rest' = Tail(rest) /\ line' = Head(rest)
      BY <1>5, <2>3 DEF CountCpu, NextLine
    <3>2. EndsBehind(rest) => (Head(rest) # "cpu" /\ Tail(rest) # <<>>) \/ EndsBehind(Tail(rest))
      BY EndsBehindTail
    <3> QED
      BY <1>5, <2>1, <3>1, <3>2 DEF CountCpu
  <2> QED
    BY <2>2, <2>3
<1>6. CASE GatherPaging
  BY <1>6 DEF GatherPaging, Fail, Return, MayFail, GoOn
<1>7. CASE SkipLine
  BY <1>7 DEF SkipLine, NextLine, GoOn
<1>8. CASE CloseStat
  BY <1>8 DEF CloseStat, Close, Fail, Return, MayFail, GoOn
<1>9. CASE OpenMeminfo
  BY <1>9 DEF OpenMeminfo, OpenFails, Fail, Return, MayFail, CanOpen, GoOn
<1>10. CASE CloseMeminfo
  BY <1>10 DEF CloseMeminfo, Close, Fail, Return, MayFail, GoOn
<1>11. CASE OpenNetDev
  BY <1>11 DEF OpenNetDev, OpenFails, Fail, Return, MayFail, CanOpen, GoOn, Read
<1>12. CASE EndFilesystems
  BY <1>12 DEF EndFilesystems, Fail, Return, MayFail
<1>13. CASE OpenKstat
  BY <1>13 DEF OpenKstat, Crash, OpenFails, Fail, Return, MayFail, CanOpen, GoOn
<1>14. CASE ReadSwap
  BY <1>14 DEF ReadSwap, Crash, OpenFails, Fail, Return, MayFail, CanOpen, GoOn
<1>15. CASE SumCpus
  BY <1>15 DEF SumCpus, Fail, Return, MayFail, Read
<1>16. CASE EndFilesystemsSolaris
  BY <1>16 DEF EndFilesystemsSolaris, Fail, Return, MayFail
<1>17. CASE SkipEntry
  BY <1>17 DEF SkipEntry, GoOn
<1>18. CASE AddInterface
  BY <1>18 DEF AddInterface, Crash, AddEntry, AllocFails, Fail, Return, MayFail, GoOn
<1>19. CASE EndInterfaces
  BY <1>19 DEF EndInterfaces, Close, Fail, Return, MayFail, GoOn
<1>20. CASE OpenMounts
  BY <1>20 DEF OpenMounts, OpenFails, Fail, Return, MayFail, CanOpen, GoOn, Read
<1>21. CASE AddFilesystem
  BY <1>21 DEF AddFilesystem, AddEntry, AllocFails, Fail, Return, MayFail, GoOn
<1>22. CASE Render
  BY <1>22 DEF Render, GoOn
<1>23. CASE FreeStats
  <2>1. CASE pc' = "dead"
    BY <2>1
  <2>2. CASE pc' # "dead"
    <3>1. pc' = "idle" /\ source' = NoSource
      BY <1>23, <2>2 DEF FreeStats, Refresh
    <3> QED
      BY <3>1 DEF NoSource
  <2> QED
    BY <2>1, <2>2
<1>24. CASE Restart
  BY <1>24 DEF Restart, Refresh, NoSource
<1>25. CASE UNCHANGED vars
  BY <1>25 DEF vars, listVars, fileVars, failVars
<1>26. CASE ReadError
  BY <1>26 DEF ReadError, MayFail, listVars
<1> QED
  BY <1>1, <1>2, <1>3, <1>4, <1>5, <1>6, <1>7, <1>8, <1>9, <1>10,
     <1>11, <1>12, <1>13, <1>14, <1>15, <1>16, <1>17, <1>18, <1>19, <1>20,
     <1>21, <1>22, <1>23, <1>24, <1>25, <1>26
     DEF Next, Linux, Solaris, Lists

\* Every group of members has its place in gather.
LEMMA SetPreserved ==
  Inv /\ [Next]_vars => SetShape'
<1> SUFFICES ASSUME Inv, [Next]_vars PROVE SetShape'
  OBVIOUS
<1>0. set \subseteq Members /\ platform \in {"linux", "solaris"} /\ PlatformShape /\ SetShape
  BY GatherAssumption DEF Inv, TypeOK
<1> USE <1>0 DEF PlatformShape
<1> USE DEF SetShape, Adding, Members
<1>1. CASE Call
  BY <1>1 DEF Call
<1>2. CASE GatherSystem
  BY <1>2 DEF GatherSystem, Fail, Return, MayFail
<1>3. CASE GatherLoad
  BY <1>3 DEF GatherLoad, OpenFails, Fail, Return, MayFail, CanOpen, GoOn
<1>4. CASE OpenStat
  BY <1>4 DEF OpenStat, OpenFails, Fail, Return, MayFail, CanOpen, GoOn
<1>5. CASE CountCpu
  BY <1>5 DEF CountCpu, NextLine, GoOn
<1>6. CASE GatherPaging
  BY <1>6 DEF GatherPaging, Fail, Return, MayFail, GoOn
<1>7. CASE SkipLine
  BY <1>7 DEF SkipLine, NextLine, GoOn
<1>8. CASE CloseStat
  BY <1>8 DEF CloseStat, Close, Fail, Return, MayFail, GoOn
<1>9. CASE OpenMeminfo
  BY <1>9 DEF OpenMeminfo, OpenFails, Fail, Return, MayFail, CanOpen, GoOn
<1>10. CASE CloseMeminfo
  BY <1>10 DEF CloseMeminfo, Close, Fail, Return, MayFail, GoOn
<1>11. CASE OpenNetDev
  BY <1>11 DEF OpenNetDev, OpenFails, Fail, Return, MayFail, CanOpen, GoOn, Read
<1>12. CASE EndFilesystems
  BY <1>12 DEF EndFilesystems, Fail, Return, MayFail
<1>13. CASE OpenKstat
  BY <1>13 DEF OpenKstat, Crash, OpenFails, Fail, Return, MayFail, CanOpen, GoOn
<1>14. CASE ReadSwap
  BY <1>14 DEF ReadSwap, Crash, OpenFails, Fail, Return, MayFail, CanOpen, GoOn
<1>15. CASE SumCpus
  BY <1>15 DEF SumCpus, Fail, Return, MayFail, Read
<1>16. CASE EndFilesystemsSolaris
  BY <1>16 DEF EndFilesystemsSolaris, Fail, Return, MayFail
<1>17. CASE SkipEntry
  BY <1>17 DEF SkipEntry, GoOn
<1>18. CASE AddInterface
  BY <1>18 DEF AddInterface, Crash, AddEntry, AllocFails, Fail, Return, MayFail, GoOn
<1>19. CASE EndInterfaces
  BY <1>19 DEF EndInterfaces, Close, Fail, Return, MayFail, GoOn
<1>20. CASE OpenMounts
  BY <1>20 DEF OpenMounts, OpenFails, Fail, Return, MayFail, CanOpen, GoOn, Read
<1>21. CASE AddFilesystem
  BY <1>21 DEF AddFilesystem, AddEntry, AllocFails, Fail, Return, MayFail, GoOn
<1>22. CASE Render
  BY <1>22 DEF Render, GoOn
<1>23. CASE FreeStats
  BY <1>23 DEF FreeStats, Refresh, Sound
<1>24. CASE Restart
  BY <1>24 DEF Restart, Refresh
<1>25. CASE UNCHANGED vars
  BY <1>25 DEF vars, listVars, fileVars, failVars
<1>26. CASE ReadError
  BY <1>26 DEF ReadError, MayFail, listVars
<1> QED
  BY <1>1, <1>2, <1>3, <1>4, <1>5, <1>6, <1>7, <1>8, <1>9, <1>10,
     <1>11, <1>12, <1>13, <1>14, <1>15, <1>16, <1>17, <1>18, <1>19, <1>20,
     <1>21, <1>22, <1>23, <1>24, <1>25, <1>26
     DEF Next, Linux, Solaris, Lists

\* No memory is lost but by a call that fails.
LEMMA MemoryPreserved ==
  Inv /\ [Next]_vars => MemoryShape'
<1> SUFFICES ASSUME Inv, [Next]_vars PROVE MemoryShape'
  OBVIOUS
<1>0. /\ platform \in {"linux", "solaris"} /\ failures \in 0..MaxFailures /\ MaxFailures \in Nat
      /\ PlatformShape /\ MemoryShape
  BY GatherAssumption DEF Inv, TypeOK
<1> USE <1>0 DEF PlatformShape
<1> USE DEF MemoryShape, failVars
<1>1. CASE Call
  BY <1>1 DEF Call
<1>2. CASE GatherSystem
  BY <1>2 DEF GatherSystem, Fail, Return, MayFail
<1>3. CASE GatherLoad
  BY <1>3 DEF GatherLoad, OpenFails, Fail, Return, MayFail, CanOpen, GoOn
<1>4. CASE OpenStat
  BY <1>4 DEF OpenStat, OpenFails, Fail, Return, MayFail, CanOpen, GoOn
<1>5. CASE CountCpu
  BY <1>5 DEF CountCpu, NextLine, GoOn
<1>6. CASE GatherPaging
  BY <1>6 DEF GatherPaging, Fail, Return, MayFail, GoOn
<1>7. CASE SkipLine
  BY <1>7 DEF SkipLine, NextLine, GoOn
<1>8. CASE CloseStat
  BY <1>8 DEF CloseStat, Close, Fail, Return, MayFail, GoOn
<1>9. CASE OpenMeminfo
  BY <1>9 DEF OpenMeminfo, OpenFails, Fail, Return, MayFail, CanOpen, GoOn
<1>10. CASE CloseMeminfo
  BY <1>10 DEF CloseMeminfo, Close, Fail, Return, MayFail, GoOn
<1>11. CASE OpenNetDev
  BY <1>11 DEF OpenNetDev, OpenFails, Fail, Return, MayFail, CanOpen, GoOn, Read
<1>12. CASE EndFilesystems
  BY <1>12 DEF EndFilesystems, Fail, Return, MayFail
<1>13. CASE OpenKstat
  BY <1>13 DEF OpenKstat, Crash, OpenFails, Fail, Return, MayFail, CanOpen, GoOn
<1>14. CASE ReadSwap
  BY <1>14 DEF ReadSwap, Crash, OpenFails, Fail, Return, MayFail, CanOpen, GoOn
<1>15. CASE SumCpus
  BY <1>15 DEF SumCpus, Fail, Return, MayFail, Read
<1>16. CASE EndFilesystemsSolaris
  BY <1>16 DEF EndFilesystemsSolaris, Fail, Return, MayFail
<1>17. CASE SkipEntry
  BY <1>17 DEF SkipEntry, GoOn
<1>18. CASE AddInterface
  BY <1>18 DEF AddInterface, Crash, AddEntry, AllocFails, Fail, Return, MayFail, GoOn
<1>19. CASE EndInterfaces
  BY <1>19 DEF EndInterfaces, Close, Fail, Return, MayFail, GoOn
<1>20. CASE OpenMounts
  BY <1>20 DEF OpenMounts, OpenFails, Fail, Return, MayFail, CanOpen, GoOn, Read
<1>21. CASE AddFilesystem
  BY <1>21 DEF AddFilesystem, AddEntry, AllocFails, Fail, Return, MayFail, GoOn
<1>22. CASE Render
  BY <1>22 DEF Render, GoOn
<1>23. CASE FreeStats
  BY <1>23 DEF FreeStats, Refresh, Sound
<1>24. CASE Restart
  BY <1>24 DEF Restart, Refresh
<1>25. CASE UNCHANGED vars
  BY <1>25 DEF vars, listVars, fileVars, failVars
<1>26. CASE ReadError
  BY <1>26 DEF ReadError, MayFail, listVars
<1> QED
  BY <1>1, <1>2, <1>3, <1>4, <1>5, <1>6, <1>7, <1>8, <1>9, <1>10,
     <1>11, <1>12, <1>13, <1>14, <1>15, <1>16, <1>17, <1>18, <1>19, <1>20,
     <1>21, <1>22, <1>23, <1>24, <1>25, <1>26
     DEF Next, Linux, Solaris, Lists

\* A failed call leaves open what gather had open.
LEMMA StreamPreserved ==
  Inv /\ [Next]_vars => StreamShape'
<1> SUFFICES ASSUME Inv, [Next]_vars PROVE StreamShape'
  OBVIOUS
<1>0. /\ platform \in {"linux", "solaris"} /\ failures \in 0..MaxFailures /\ MaxFailures \in Nat
      /\ streams \in 0..Descriptors /\ Descriptors \in Nat /\ PlatformShape /\ StreamShape
      /\ PagingShape
  BY GatherAssumption DEF Inv, TypeOK
<1> USE <1>0 DEF PlatformShape
<1> USE DEF StreamShape, InUse, CanOpen, failVars
<1>1. CASE Call
  BY <1>1 DEF Call
<1>2. CASE GatherSystem
  BY <1>2 DEF GatherSystem, Fail, Return, MayFail
<1>3. CASE GatherLoad
  BY <1>3 DEF GatherLoad, OpenFails, Fail, Return, MayFail, CanOpen, GoOn
<1>4. CASE OpenStat
  <2>1. source'.whole
    <3>1. source.whole /\ SourceType /\ (source' = source \/ \E f : source' = [source EXCEPT !.stat = f])
      BY <1>4 DEF OpenStat, fileVars, PagingShape, Inv
    <3> QED
      BY <3>1 DEF SourceType
  <2> QED
    BY <1>4, <2>1 DEF OpenStat, OpenFails, Fail, Return, MayFail, CanOpen, GoOn
<1>5. CASE CountCpu
  BY <1>5 DEF CountCpu, NextLine, GoOn
<1>6. CASE GatherPaging
  <2>1. rest = <<>> => streams <= failures
    <3>1. rest = <<>> => ~EndsBehind(rest)
      BY DEF EndsBehind
    <3> QED
      BY <1>6, <3>1 DEF GatherPaging, PagingShape
  <2> QED
    BY <1>6, <2>1 DEF GatherPaging, Fail, Return, MayFail, GoOn
<1>7. CASE SkipLine
  BY <1>7 DEF SkipLine, NextLine, GoOn
<1>8. CASE CloseStat
  BY <1>8 DEF CloseStat, Close, Fail, Return, MayFail, GoOn
<1>9. CASE OpenMeminfo
  BY <1>9 DEF OpenMeminfo, OpenFails, Fail, Return, MayFail, CanOpen, GoOn
<1>10. CASE CloseMeminfo
  BY <1>10 DEF CloseMeminfo, Close, Fail, Return, MayFail, GoOn
<1>11. CASE OpenNetDev
  BY <1>11 DEF OpenNetDev, OpenFails, Fail, Return, MayFail, CanOpen, GoOn, Read
<1>12. CASE EndFilesystems
  BY <1>12 DEF EndFilesystems, Fail, Return, MayFail
<1>13. CASE OpenKstat
  BY <1>13 DEF OpenKstat, Crash, OpenFails, Fail, Return, MayFail, CanOpen, GoOn
<1>14. CASE ReadSwap
  BY <1>14 DEF ReadSwap, Crash, OpenFails, Fail, Return, MayFail, CanOpen, GoOn
<1>15. CASE SumCpus
  BY <1>15 DEF SumCpus, Fail, Return, MayFail, Read
<1>16. CASE EndFilesystemsSolaris
  BY <1>16 DEF EndFilesystemsSolaris, Fail, Return, MayFail
<1>17. CASE SkipEntry
  BY <1>17 DEF SkipEntry, GoOn
<1>18. CASE AddInterface
  BY <1>18 DEF AddInterface, Crash, AddEntry, AllocFails, Fail, Return, MayFail, GoOn
<1>19. CASE EndInterfaces
  BY <1>19 DEF EndInterfaces, Close, Fail, Return, MayFail, GoOn
<1>20. CASE OpenMounts
  BY <1>20 DEF OpenMounts, OpenFails, Fail, Return, MayFail, CanOpen, GoOn, Read
<1>21. CASE AddFilesystem
  BY <1>21 DEF AddFilesystem, AddEntry, AllocFails, Fail, Return, MayFail, GoOn
<1>22. CASE Render
  BY <1>22 DEF Render, GoOn
<1>23. CASE FreeStats
  BY <1>23 DEF FreeStats, Refresh, Sound
<1>24. CASE Restart
  <2>1. pc' = "idle" /\ streams' = 0 /\ UNCHANGED <<platform, failures>>
    BY <1>24 DEF Restart, Refresh
  <2>2. InUse' = 0
    BY <2>1
  <2>3. failures >= 0 /\ 2 * failures >= 0
    OBVIOUS
  <2> QED
    BY <2>1, <2>2, <2>3
<1>25. CASE UNCHANGED vars
  BY <1>25 DEF vars, listVars, fileVars, failVars
<1>26. CASE ReadError
  BY <1>26 DEF ReadError, MayFail, listVars
<1> QED
  BY <1>1, <1>2, <1>3, <1>4, <1>5, <1>6, <1>7, <1>8, <1>9, <1>10,
     <1>11, <1>12, <1>13, <1>14, <1>15, <1>16, <1>17, <1>18, <1>19, <1>20,
     <1>21, <1>22, <1>23, <1>24, <1>25, <1>26
     DEF Next, Linux, Solaris, Lists

\* An entry that is read is added to its list, or passed over if it is not reported.
LEMMA ListPreserved ==
  Inv /\ [Next]_vars => ListShape'
<1> SUFFICES ASSUME Inv, [Next]_vars PROVE ListShape'
  OBVIOUS
<1>0. SourceType /\ ListShape
  BY DEF Inv
<1>l. \A list \in {interfaces, filesystems} :
        /\ list \in [array : {"garbage", "null", "block"}, items : Nat, ended : BOOLEAN]
        /\ list.items \in Nat
  BY DEF Inv, TypeOK
<1>c. \A word : /\ Count(rest, word) \in Nat
                /\ rest # <<>> => Count(rest, word) = (IF Head(rest) = word THEN 1 ELSE 0)
                                                       + Count(Tail(rest), word)
                /\ rest # <<>> => Count(Tail(rest), word) \in Nat
  <2>1. rest \in Seq(Words) /\ (rest # <<>> => Tail(rest) \in Seq(Words))
    BY RestFacts DEF Inv, TypeOK
  <2> QED
    BY <2>1, CountOfTail
<1> USE <1>0
<1> USE DEF ListShape, Adding, listVars, fileVars
<1>1. CASE Call
  BY <1>1 DEF Call
<1>2. CASE GatherSystem
  BY <1>2 DEF GatherSystem, Fail, Return, MayFail
<1>3. CASE GatherLoad
  BY <1>3 DEF GatherLoad, OpenFails, Fail, Return, MayFail, CanOpen, GoOn
<1>4. CASE OpenStat
  BY <1>4 DEF OpenStat, OpenFails, Fail, Return, MayFail, CanOpen, GoOn
<1>5. CASE CountCpu
  BY <1>5 DEF CountCpu, NextLine, GoOn
<1>6. CASE GatherPaging
  BY <1>6 DEF GatherPaging, Fail, Return, MayFail, GoOn
<1>7. CASE SkipLine
  BY <1>7 DEF SkipLine, NextLine, GoOn
<1>8. CASE CloseStat
  BY <1>8 DEF CloseStat, Close, Fail, Return, MayFail, GoOn
<1>9. CASE OpenMeminfo
  BY <1>9 DEF OpenMeminfo, OpenFails, Fail, Return, MayFail, CanOpen, GoOn
<1>10. CASE CloseMeminfo
  BY <1>10 DEF CloseMeminfo, Close, Fail, Return, MayFail, GoOn
<1>11. CASE OpenNetDev
  <2>1. CASE pc' = "free"
    BY <2>1
  <2>2. CASE pc' # "free"
    <3>1. PICK f \in Devices : source' = [source EXCEPT !.devices = f] /\ rest' = f
      BY <1>11, <2>2 DEF OpenNetDev, OpenFails, Fail, Return, MayFail, CanOpen, GoOn, Read
    <3>2. pc' = "if" /\ interfaces' = NewList
      BY <1>11, <2>2 DEF OpenNetDev, OpenFails, Fail, Return, MayFail, CanOpen, GoOn
    <3>3. source'.devices = f /\ f \in Seq(Words) /\ interfaces'.items = 0
      BY <3>1, <3>2, ListFacts, RestFacts DEF SourceType
    <3>4. Count(f, "if") \in Nat
      BY <3>3, CountOfTail
    <3> QED
      BY <3>1, <3>2, <3>3, <3>4
  <2> QED
    BY <2>1, <2>2
<1>12. CASE EndFilesystems
  <2>1. CASE pc' \in {"free", "dead"}
    BY <2>1
  <2>2. CASE pc' = "render"
    <3>1. /\ pc = "fs" /\ rest = <<>> /\ filesystems' = Ended(filesystems)
          /\ UNCHANGED <<source, interfaces>>
      BY <1>12, <2>2 DEF EndFilesystems, Fail, Return, MayFail
    <3>2. filesystems'.items = filesystems.items /\ filesystems'.ended
      BY <1>l, <3>1, ListFacts
    <3>3. Count(rest, "disk") = 0
      BY <3>1, CountEmpty
    <3> QED
      BY <1>l, <2>2, <3>1, <3>2, <3>3
  <2> QED
    BY <1>12, <2>1, <2>2 DEF EndFilesystems, Fail, Return
<1>13. CASE OpenKstat
  BY <1>13 DEF OpenKstat, Crash, OpenFails, Fail, Return, MayFail, CanOpen, GoOn
<1>14. CASE ReadSwap
  BY <1>14 DEF ReadSwap, Crash, OpenFails, Fail, Return, MayFail, CanOpen, GoOn
<1>15. CASE SumCpus
  <2>1. CASE pc' = "free"
    BY <2>1
  <2>2. CASE pc' # "free"
    <3>1. PICK f \in Devices : source' = [source EXCEPT !.devices = f] /\ rest' = f
      BY <1>15, <2>2 DEF SumCpus, Fail, Return, MayFail, Read
    <3>2. pc' = "if" /\ interfaces' = NewList
      BY <1>15, <2>2 DEF SumCpus, Fail, Return, MayFail
    <3>3. source'.devices = f /\ f \in Seq(Words) /\ interfaces'.items = 0
      BY <3>1, <3>2, ListFacts, RestFacts DEF SourceType
    <3>4. Count(f, "if") \in Nat
      BY <3>3, CountOfTail
    <3> QED
      BY <3>1, <3>2, <3>3, <3>4
  <2> QED
    BY <2>1, <2>2
<1>16. CASE EndFilesystemsSolaris
  <2>1. CASE pc' \in {"free", "dead"}
    BY <2>1
  <2>2. CASE pc' = "render"
    <3>1. /\ pc = "fs" /\ rest = <<>> /\ filesystems' = Ended(filesystems)
          /\ UNCHANGED <<source, interfaces>>
      BY <1>16, <2>2 DEF EndFilesystemsSolaris, Fail, Return, MayFail
    <3>2. filesystems'.items = filesystems.items /\ filesystems'.ended
      BY <1>l, <3>1, ListFacts
    <3>3. Count(rest, "disk") = 0
      BY <3>1, CountEmpty
    <3> QED
      BY <1>l, <2>2, <3>1, <3>2, <3>3
  <2> QED
    BY <1>16, <2>1, <2>2 DEF EndFilesystemsSolaris, Fail, Return
<1>17. CASE SkipEntry
  <2>1. /\ pc' = pc /\ rest # <<>> /\ Head(rest) = "other" /\ rest' = Tail(rest)
        /\ UNCHANGED <<source, interfaces, filesystems>>
    BY <1>17 DEF SkipEntry, GoOn
  <2>2. Count(rest, "if") = Count(Tail(rest), "if") /\ Count(rest, "disk") = Count(Tail(rest), "disk")
    BY <1>c, <2>1
  <2> QED
    BY <1>17, <2>1, <2>2 DEF SkipEntry
<1>18. CASE AddInterface
  <2>1. CASE interfaces' = With(interfaces) /\ rest' = Tail(rest) /\ pc' = pc
    <3>1. pc = "if" /\ rest # <<>> /\ Head(rest) = "if" /\ UNCHANGED <<source, filesystems>>
      BY <1>18 DEF AddInterface, Crash
    <3>2. interfaces'.items = interfaces.items + 1
      BY <1>l, <2>1, ListFacts
    <3>3. Count(rest, "if") = 1 + Count(Tail(rest), "if")
      BY <1>c, <3>1
    <3> QED
      BY <1>l, <1>c, <2>1, <3>1, <3>2, <3>3
  <2>2. CASE pc' = "free"
    BY <2>2
  <2> QED
    BY <1>18, <2>1, <2>2 DEF AddInterface, Crash, AddEntry, AllocFails, Fail, Return, GoOn
<1>19. CASE EndInterfaces
  <2>1. CASE pc' = "free"
    BY <2>1
  <2>2. CASE pc' # "free"
    <3>1. pc = "if" /\ rest = <<>> /\ pc' = "mounts" /\ interfaces' = Ended(interfaces) /\ UNCHANGED source
      BY <1>19, <2>2 DEF EndInterfaces, Close, Fail, Return, MayFail, GoOn
    <3>2. interfaces'.items = interfaces.items /\ interfaces'.ended
      BY <1>l, <3>1, ListFacts
    <3>3. Count(rest, "if") = 0
      BY <3>1, CountEmpty
    <3> QED
      BY <1>l, <3>1, <3>2, <3>3
  <2> QED
    BY <2>1, <2>2
<1>20. CASE OpenMounts
  <2>1. CASE pc' = "free"
    BY <2>1
  <2>2. CASE pc' # "free"
    <3>1. PICK f \in MountTables : source' = [source EXCEPT !.mounts = f] /\ rest' = f
      BY <1>20, <2>2 DEF OpenMounts, OpenFails, Fail, Return, MayFail, CanOpen, GoOn, Read
    <3>2. pc = "mounts" /\ pc' = "fs" /\ filesystems' = NewList /\ UNCHANGED interfaces
      BY <1>20, <2>2 DEF OpenMounts, OpenFails, Fail, Return, MayFail, CanOpen, GoOn
    <3>3. /\ source'.mounts = f /\ source'.devices = source.devices
          /\ f \in Seq(Words) /\ filesystems'.items = 0
      BY <3>1, <3>2, ListFacts, RestFacts DEF SourceType
    <3>4. Count(f, "disk") \in Nat
      BY <3>3, CountOfTail
    <3> QED
      BY <3>1, <3>2, <3>3, <3>4
  <2> QED
    BY <2>1, <2>2
<1>21. CASE AddFilesystem
  <2>1. CASE filesystems' = With(filesystems) /\ rest' = Tail(rest) /\ pc' = pc
    <3>1. pc = "fs" /\ rest # <<>> /\ Head(rest) = "disk" /\ UNCHANGED <<source, interfaces>>
      BY <1>21 DEF AddFilesystem
    <3>2. filesystems'.items = filesystems.items + 1
      BY <1>l, <2>1, ListFacts
    <3>3. Count(rest, "disk") = 1 + Count(Tail(rest), "disk")
      BY <1>c, <3>1
    <3> QED
      BY <1>l, <1>c, <2>1, <3>1, <3>2, <3>3
  <2>2. CASE pc' = "free"
    BY <2>2
  <2> QED
    BY <1>21, <2>1, <2>2 DEF AddFilesystem, AddEntry, AllocFails, Fail, Return, GoOn
<1>22. CASE Render
  BY <1>22 DEF Render, GoOn
<1>23. CASE FreeStats
  BY <1>23 DEF FreeStats, Refresh, Sound
<1>24. CASE Restart
  BY <1>24 DEF Restart, Refresh
<1>25. CASE UNCHANGED vars
  BY <1>25 DEF vars, listVars, fileVars, failVars
<1>26. CASE ReadError
  BY <1>26 DEF ReadError, MayFail, listVars
<1> QED
  BY <1>1, <1>2, <1>3, <1>4, <1>5, <1>6, <1>7, <1>8, <1>9, <1>10,
     <1>11, <1>12, <1>13, <1>14, <1>15, <1>16, <1>17, <1>18, <1>19, <1>20,
     <1>21, <1>22, <1>23, <1>24, <1>25, <1>26
     DEF Next, Linux, Solaris, Lists

\* The processors are counted until a line of something else comes.
LEMMA CpuPreserved ==
  Inv /\ [Next]_vars => CpuShape'
<1> SUFFICES ASSUME Inv, [Next]_vars PROVE CpuShape'
  OBVIOUS
<1>0. /\ SourceType /\ CpuShape /\ PlatformShape /\ platform \in {"linux", "solaris"}
  BY GatherAssumption DEF Inv, TypeOK
<1>c. /\ numcpus \in Nat /\ rest \in Seq(Words)
      /\ Count(rest, "cpu") \in Nat
      /\ rest # <<>> => /\ Count(rest, "cpu") = (IF Head(rest) = "cpu" THEN 1 ELSE 0)
                                                  + Count(Tail(rest), "cpu")
                        /\ Count(Tail(rest), "cpu") \in Nat
  <2>1. /\ numcpus \in Nat /\ rest \in Seq(Words)
        /\ rest # <<>> => Tail(rest) \in Seq(Words)
    BY RestFacts DEF Inv, TypeOK
  <2> QED
    BY <2>1, CountOfTail
<1> USE <1>0
<1> USE DEF CpuShape, PlatformShape, Adding, listVars, fileVars, failVars
<1>1. CASE Call
  BY <1>1 DEF Call
<1>2. CASE GatherSystem
  BY <1>2 DEF GatherSystem, Fail, Return, MayFail
<1>3. CASE GatherLoad
  BY <1>3 DEF GatherLoad, OpenFails, Fail, Return, MayFail, CanOpen, GoOn
<1>4. CASE OpenStat
  <2>1. CASE pc' = "free"
    BY <2>1
  <2>2. CASE pc' # "free"
    <3>1. PICK f \in StatFiles :
            source' = [source EXCEPT !.stat = f] /\ line' = Head(f) /\ rest' = Tail(f)
      BY <1>4, <2>2 DEF OpenStat, OpenFails, Fail, Return, MayFail, CanOpen, GoOn
    <3>2. pc = "stat" /\ pc' = "cpus" /\ numcpus' = 0
      BY <1>4, <2>2 DEF OpenStat, OpenFails, Fail, Return, MayFail, CanOpen, GoOn
    <3>3. source'.stat = f /\ f \in Seq(Words) /\ f # <<>> /\ (Head(f) # "other" => CpusFirst(f))
      BY <3>1, GatherAssumption DEF SourceType
    <3>4. /\ Count(f, "cpu") = (IF Head(f) = "cpu" THEN 1 ELSE 0) + Count(Tail(f), "cpu")
          /\ Tail(f) \in Seq(Words)
      BY <3>3, CountOfTail, HeadTailProperties
    <3>5. Count(Tail(f), "cpu") \in Nat
      BY <3>4, CountOfTail
    <3>6. Head(f) # "other" =>
            CpusFirst(Tail(f)) /\ (Head(f) # "cpu" => Count(Tail(f), "cpu") = 0)
      BY <3>3, CpusFirstOfTail
    <3>7. Head(f) # "other" => CpusFirst(rest')
      BY <3>1, <3>6
    <3> QED
      BY <3>1, <3>2, <3>3, <3>4, <3>5, <3>6, <3>7 DEF CpusFirst
  <2> QED
    BY <2>1, <2>2
<1>5. CASE CountCpu
  <2>1. /\ pc = "cpus" /\ pc' = "cpus" /\ line = "cpu" /\ numcpus \in Nat
        /\ numcpus' = (IF rest = <<>> THEN numcpus ELSE numcpus + 1)
        /\ UNCHANGED <<platform, source>>
    BY <1>5, <1>c DEF CountCpu, GoOn
  <2>2. CASE rest = <<>>
    <3>1. UNCHANGED <<rest, line>>
      BY <1>5, <2>2 DEF CountCpu, NextLine
    <3>2. CpusFirst(rest) => CpusFirst(rest')
      BY <3>1 DEF CpusFirst
    <3> QED
      BY <2>1, <2>2, <3>1, <3>2
  <2>3. CASE rest # <<>>
    <3>1. rest' = Tail(rest) /\ line' = Head(rest)
      BY <1>5, <2>3 DEF CountCpu, NextLine
    <3>2. CpusFirst(rest) => CpusFirst(rest') /\ (line' # "cpu" => Count(rest', "cpu") = 0)
      <4>1. CpusFirst(rest) => /\ CpusFirst(Tail(rest))
                               /\ (Head(rest) # "cpu" => Count(Tail(rest), "cpu") = 0)
        BY <1>c, <2>3, CpusFirstOfTail
      <4> QED
        BY <3>1, <4>1 DEF CpusFirst
    <3>3. /\ Count(rest, "cpu") = (IF Head(rest) = "cpu" THEN 1 ELSE 0) + Count(rest', "cpu")
          /\ Count(rest', "cpu") \in Nat /\ Count(rest, "cpu") \in Nat
      BY <1>c, <2>3, <3>1
    <3>4. source.stat # <<>> /\ source' = source
      BY <2>1
    <3>5. CASE Head(source.stat) # "other" /\ source.whole
      <4>1. numcpus + 1 + Count(rest, "cpu") = Count(source.stat, "cpu") /\ CpusFirst(rest)
        BY <2>1, <2>3, <3>5
      <4>2. numcpus' + (IF line' = "cpu" THEN 1 ELSE 0) + Count(rest', "cpu")
              = Count(source.stat, "cpu")
        <5>1. CASE Head(rest) = "cpu"
          BY <1>c, <2>1, <2>3, <3>1, <3>3, <4>1, <5>1
        <5>2. CASE Head(rest) # "cpu"
          BY <1>c, <2>1, <2>3, <3>1, <3>3, <4>1, <5>2
        <5> QED
          BY <5>1, <5>2
      <4> QED
        BY <2>1, <3>2, <3>4, <4>1, <4>2
    <3>6. CASE ~(Head(source.stat) # "other" /\ source.whole)
      BY <2>1, <3>4, <3>6
    <3> QED
      BY <3>5, <3>6
  <2> QED
    BY <2>2, <2>3
<1>6. CASE GatherPaging
  <2>1. CASE pc' = "free"
    BY <2>1
  <2>2. CASE pc' # "free"
    <3>1. pc = "cpus" /\ pc' = "ctxt" /\ line # "cpu" /\ UNCHANGED <<platform, source, numcpus>>
      BY <1>6, <2>2 DEF GatherPaging, Fail, Return, MayFail, GoOn
    <3> QED
      BY <1>c, <3>1
  <2> QED
    BY <2>1, <2>2
<1>7. CASE SkipLine
  BY <1>7 DEF SkipLine, NextLine, GoOn
<1>8. CASE CloseStat
  BY <1>8 DEF CloseStat, Close, Fail, Return, MayFail, GoOn
<1>9. CASE OpenMeminfo
  BY <1>9 DEF OpenMeminfo, OpenFails, Fail, Return, MayFail, CanOpen, GoOn
<1>10. CASE CloseMeminfo
  BY <1>10 DEF CloseMeminfo, Close, Fail, Return, MayFail, GoOn
<1>11. CASE OpenNetDev
  <2>1. CASE pc' = "free"
    BY <2>1
  <2>2. CASE pc' # "free"
    <3>1. PICK f : source' = [source EXCEPT !.devices = f]
      BY <1>11, <2>2 DEF OpenNetDev, OpenFails, Fail, Return, MayFail, CanOpen, GoOn, Read
    <3>2. source'.stat = source.stat /\ source'.whole = source.whole
      BY <3>1 DEF SourceType
    <3>3. pc \in {"netdev", "mounts"} /\ pc' \in {"if", "fs"} /\ UNCHANGED <<platform, numcpus>>
      BY <1>11, <2>2 DEF OpenNetDev, OpenFails, Fail, Return, MayFail, CanOpen, GoOn, Read
    <3> QED
      BY <3>2, <3>3
  <2> QED
    BY <2>1, <2>2
<1>12. CASE EndFilesystems
  BY <1>12 DEF EndFilesystems, Fail, Return, MayFail
<1>13. CASE OpenKstat
  BY <1>13 DEF OpenKstat, Crash, OpenFails, Fail, Return, MayFail, CanOpen, GoOn
<1>14. CASE ReadSwap
  BY <1>14 DEF ReadSwap, Crash, OpenFails, Fail, Return, MayFail, CanOpen, GoOn
<1>15. CASE SumCpus
  BY <1>15 DEF SumCpus, Fail, Return, MayFail, Read
<1>16. CASE EndFilesystemsSolaris
  BY <1>16 DEF EndFilesystemsSolaris, Fail, Return, MayFail
<1>17. CASE SkipEntry
  BY <1>17 DEF SkipEntry, GoOn
<1>18. CASE AddInterface
  BY <1>18 DEF AddInterface, Crash, AddEntry, AllocFails, Fail, Return, MayFail, GoOn
<1>19. CASE EndInterfaces
  BY <1>19 DEF EndInterfaces, Close, Fail, Return, MayFail, GoOn
<1>20. CASE OpenMounts
  <2>1. CASE pc' = "free"
    BY <2>1
  <2>2. CASE pc' # "free"
    <3>1. PICK f : source' = [source EXCEPT !.mounts = f]
      BY <1>20, <2>2 DEF OpenMounts, OpenFails, Fail, Return, MayFail, CanOpen, GoOn, Read
    <3>2. source'.stat = source.stat /\ source'.whole = source.whole
      BY <3>1 DEF SourceType
    <3>3. pc \in {"netdev", "mounts"} /\ pc' \in {"if", "fs"} /\ UNCHANGED <<platform, numcpus>>
      BY <1>20, <2>2 DEF OpenMounts, OpenFails, Fail, Return, MayFail, CanOpen, GoOn, Read
    <3> QED
      BY <3>2, <3>3
  <2> QED
    BY <2>1, <2>2
<1>21. CASE AddFilesystem
  BY <1>21 DEF AddFilesystem, AddEntry, AllocFails, Fail, Return, MayFail, GoOn
<1>22. CASE Render
  BY <1>22 DEF Render, GoOn
<1>23. CASE FreeStats
  BY <1>23 DEF FreeStats, Refresh, Sound
<1>24. CASE Restart
  BY <1>24 DEF Restart, Refresh
<1>25. CASE UNCHANGED vars
  BY <1>25 DEF vars, listVars, fileVars, failVars
<1>26. CASE ReadError
  BY <1>26 DEF ReadError, MayFail, listVars
<1> QED
  BY <1>1, <1>2, <1>3, <1>4, <1>5, <1>6, <1>7, <1>8, <1>9, <1>10,
     <1>11, <1>12, <1>13, <1>14, <1>15, <1>16, <1>17, <1>18, <1>19, <1>20,
     <1>21, <1>22, <1>23, <1>24, <1>25, <1>26
     DEF Next, Linux, Solaris, Lists

PlaceType ==
  /\ platform \in Platforms
  /\ pc \in {"idle", "system", "loadavg", "stat", "cpus", "ctxt", "meminfo", "Cached",
             "netdev", "kstat", "swap", "nics", "if", "mounts", "fs",
             "render", "free", "dead"}
  /\ set \subseteq Members

LossType ==
  /\ scratch \subseteq {"line", "ifkey"}
  /\ leaked \subseteq {"line", "ifkey", "item", "array"}
  /\ failed \in BOOLEAN

FileType ==
  /\ rest \in Seq(Words)
  /\ line \in Words
  /\ numcpus \in Nat
  /\ SourceType

ListType ==
  \A list \in {interfaces, filesystems} :
    list \in [array : {"garbage", "null", "block"}, items : Nat, ended : BOOLEAN]

\* The types in parts, of variables that are set together.
LEMMA TypeParts ==
  TypeOK /\ SourceType <=>
    /\ PlaceType /\ LossType /\ FileType /\ ListType
    /\ streams \in 0..Descriptors /\ failures \in 0..MaxFailures
  BY DEF TypeOK, PlaceType, LossType, FileType, ListType

\* gather goes from one place to another, and sets members.
LEMMA PlaceTypePreserved ==
  Inv /\ [Next]_vars => PlaceType'
<1> SUFFICES ASSUME Inv, [Next]_vars PROVE PlaceType'
  OBVIOUS
<1>0. PlaceType
  BY TypeParts DEF Inv
<1> USE <1>0
<1> USE DEF PlaceType, Members, failVars
<1>1. CASE Call
  BY <1>1 DEF Call
<1>2. CASE GatherSystem
  BY <1>2 DEF GatherSystem, Fail, Return, MayFail
<1>3. CASE GatherLoad
  BY <1>3 DEF GatherLoad, OpenFails, Fail, Return, MayFail, CanOpen, GoOn
<1>4. CASE OpenStat
  BY <1>4 DEF OpenStat, OpenFails, Fail, Return, MayFail, CanOpen, GoOn
<1>5. CASE CountCpu
  BY <1>5 DEF CountCpu, NextLine, GoOn
<1>6. CASE GatherPaging
  BY <1>6 DEF GatherPaging, Fail, Return, MayFail, GoOn
<1>7. CASE SkipLine
  BY <1>7 DEF SkipLine, NextLine, GoOn
<1>8. CASE CloseStat
  BY <1>8 DEF CloseStat, Close, Fail, Return, MayFail, GoOn
<1>9. CASE OpenMeminfo
  BY <1>9 DEF OpenMeminfo, OpenFails, Fail, Return, MayFail, CanOpen, GoOn
<1>10. CASE CloseMeminfo
  BY <1>10 DEF CloseMeminfo, Close, Fail, Return, MayFail, GoOn
<1>11. CASE OpenNetDev
  BY <1>11 DEF OpenNetDev, OpenFails, Fail, Return, MayFail, CanOpen, GoOn, Read
<1>12. CASE EndFilesystems
  BY <1>12 DEF EndFilesystems, Fail, Return, MayFail
<1>13. CASE OpenKstat
  BY <1>13 DEF OpenKstat, Crash, OpenFails, Fail, Return, MayFail, CanOpen, GoOn
<1>14. CASE ReadSwap
  BY <1>14 DEF ReadSwap, Crash, OpenFails, Fail, Return, MayFail, CanOpen, GoOn
<1>15. CASE SumCpus
  BY <1>15 DEF SumCpus, Fail, Return, MayFail, Read
<1>16. CASE EndFilesystemsSolaris
  BY <1>16 DEF EndFilesystemsSolaris, Fail, Return, MayFail
<1>17. CASE SkipEntry
  BY <1>17 DEF SkipEntry, GoOn
<1>18. CASE AddInterface
  BY <1>18 DEF AddInterface, Crash, AddEntry, AllocFails, Fail, Return, MayFail, GoOn
<1>19. CASE EndInterfaces
  BY <1>19 DEF EndInterfaces, Close, Fail, Return, MayFail, GoOn
<1>20. CASE OpenMounts
  BY <1>20 DEF OpenMounts, OpenFails, Fail, Return, MayFail, CanOpen, GoOn, Read
<1>21. CASE AddFilesystem
  BY <1>21 DEF AddFilesystem, AddEntry, AllocFails, Fail, Return, MayFail, GoOn
<1>22. CASE Render
  BY <1>22 DEF Render, GoOn
<1>23. CASE FreeStats
  BY <1>23 DEF FreeStats, Refresh, Sound
<1>24. CASE Restart
  BY <1>24 DEF Restart, Refresh
<1>25. CASE UNCHANGED vars
  BY <1>25 DEF vars, listVars, fileVars, failVars
<1>26. CASE ReadError
  BY <1>26 DEF ReadError, MayFail, listVars
<1> QED
  BY <1>1, <1>2, <1>3, <1>4, <1>5, <1>6, <1>7, <1>8, <1>9, <1>10,
     <1>11, <1>12, <1>13, <1>14, <1>15, <1>16, <1>17, <1>18, <1>19, <1>20,
     <1>21, <1>22, <1>23, <1>24, <1>25, <1>26
     DEF Next, Linux, Solaris, Lists

\* What is lost is memory of a kind gather allocates.
LEMMA LossTypePreserved ==
  Inv /\ [Next]_vars => LossType'
<1> SUFFICES ASSUME Inv, [Next]_vars PROVE LossType'
  OBVIOUS
<1>0. LossType
  BY TypeParts DEF Inv
<1> USE <1>0
<1> USE DEF LossType, failVars
<1>1. CASE Call
  BY <1>1 DEF Call
<1>2. CASE GatherSystem
  BY <1>2 DEF GatherSystem, Fail, Return, MayFail
<1>3. CASE GatherLoad
  BY <1>3 DEF GatherLoad, OpenFails, Fail, Return, MayFail, CanOpen, GoOn
<1>4. CASE OpenStat
  BY <1>4 DEF OpenStat, OpenFails, Fail, Return, MayFail, CanOpen, GoOn
<1>5. CASE CountCpu
  BY <1>5 DEF CountCpu, NextLine, GoOn
<1>6. CASE GatherPaging
  BY <1>6 DEF GatherPaging, Fail, Return, MayFail, GoOn
<1>7. CASE SkipLine
  BY <1>7 DEF SkipLine, NextLine, GoOn
<1>8. CASE CloseStat
  BY <1>8 DEF CloseStat, Close, Fail, Return, MayFail, GoOn
<1>9. CASE OpenMeminfo
  BY <1>9 DEF OpenMeminfo, OpenFails, Fail, Return, MayFail, CanOpen, GoOn
<1>10. CASE CloseMeminfo
  BY <1>10 DEF CloseMeminfo, Close, Fail, Return, MayFail, GoOn
<1>11. CASE OpenNetDev
  BY <1>11 DEF OpenNetDev, OpenFails, Fail, Return, MayFail, CanOpen, GoOn, Read
<1>12. CASE EndFilesystems
  BY <1>12 DEF EndFilesystems, Fail, Return, MayFail
<1>13. CASE OpenKstat
  BY <1>13 DEF OpenKstat, Crash, OpenFails, Fail, Return, MayFail, CanOpen, GoOn
<1>14. CASE ReadSwap
  BY <1>14 DEF ReadSwap, Crash, OpenFails, Fail, Return, MayFail, CanOpen, GoOn
<1>15. CASE SumCpus
  BY <1>15 DEF SumCpus, Fail, Return, MayFail, Read
<1>16. CASE EndFilesystemsSolaris
  BY <1>16 DEF EndFilesystemsSolaris, Fail, Return, MayFail
<1>17. CASE SkipEntry
  BY <1>17 DEF SkipEntry, GoOn
<1>18. CASE AddInterface
  BY <1>18 DEF AddInterface, Crash, AddEntry, AllocFails, Fail, Return, MayFail, GoOn
<1>19. CASE EndInterfaces
  BY <1>19 DEF EndInterfaces, Close, Fail, Return, MayFail, GoOn
<1>20. CASE OpenMounts
  BY <1>20 DEF OpenMounts, OpenFails, Fail, Return, MayFail, CanOpen, GoOn, Read
<1>21. CASE AddFilesystem
  BY <1>21 DEF AddFilesystem, AddEntry, AllocFails, Fail, Return, MayFail, GoOn
<1>22. CASE Render
  BY <1>22 DEF Render, GoOn
<1>23. CASE FreeStats
  BY <1>23 DEF FreeStats, Refresh, Sound
<1>24. CASE Restart
  BY <1>24 DEF Restart, Refresh
<1>25. CASE UNCHANGED vars
  BY <1>25 DEF vars, listVars, fileVars, failVars
<1>26. CASE ReadError
  BY <1>26 DEF ReadError, MayFail, listVars
<1> QED
  BY <1>1, <1>2, <1>3, <1>4, <1>5, <1>6, <1>7, <1>8, <1>9, <1>10,
     <1>11, <1>12, <1>13, <1>14, <1>15, <1>16, <1>17, <1>18, <1>19, <1>20,
     <1>21, <1>22, <1>23, <1>24, <1>25, <1>26
     DEF Next, Linux, Solaris, Lists

\* The failures are counted up to their bound.
LEMMA FailuresPreserved ==
  Inv /\ [Next]_vars => failures' \in 0..MaxFailures
<1> SUFFICES ASSUME Inv, [Next]_vars PROVE failures' \in 0..MaxFailures
  OBVIOUS
<1>0. failures \in 0..MaxFailures /\ MaxFailures \in Nat
  BY GatherAssumption DEF Inv, TypeOK
<1> USE <1>0
<1> USE DEF failVars
<1>1. CASE Call
  BY <1>1 DEF Call
<1>2. CASE GatherSystem
  BY <1>2 DEF GatherSystem, Fail, Return, MayFail
<1>3. CASE GatherLoad
  BY <1>3 DEF GatherLoad, OpenFails, Fail, Return, MayFail, CanOpen, GoOn
<1>4. CASE OpenStat
  BY <1>4 DEF OpenStat, OpenFails, Fail, Return, MayFail, CanOpen, GoOn
<1>5. CASE CountCpu
  BY <1>5 DEF CountCpu, NextLine, GoOn
<1>6. CASE GatherPaging
  BY <1>6 DEF GatherPaging, Fail, Return, MayFail, GoOn
<1>7. CASE SkipLine
  BY <1>7 DEF SkipLine, NextLine, GoOn
<1>8. CASE CloseStat
  BY <1>8 DEF CloseStat, Close, Fail, Return, MayFail, GoOn
<1>9. CASE OpenMeminfo
  BY <1>9 DEF OpenMeminfo, OpenFails, Fail, Return, MayFail, CanOpen, GoOn
<1>10. CASE CloseMeminfo
  BY <1>10 DEF CloseMeminfo, Close, Fail, Return, MayFail, GoOn
<1>11. CASE OpenNetDev
  BY <1>11 DEF OpenNetDev, OpenFails, Fail, Return, MayFail, CanOpen, GoOn, Read
<1>12. CASE EndFilesystems
  BY <1>12 DEF EndFilesystems, Fail, Return, MayFail
<1>13. CASE OpenKstat
  BY <1>13 DEF OpenKstat, Crash, OpenFails, Fail, Return, MayFail, CanOpen, GoOn
<1>14. CASE ReadSwap
  BY <1>14 DEF ReadSwap, Crash, OpenFails, Fail, Return, MayFail, CanOpen, GoOn
<1>15. CASE SumCpus
  BY <1>15 DEF SumCpus, Fail, Return, MayFail, Read
<1>16. CASE EndFilesystemsSolaris
  BY <1>16 DEF EndFilesystemsSolaris, Fail, Return, MayFail
<1>17. CASE SkipEntry
  BY <1>17 DEF SkipEntry, GoOn
<1>18. CASE AddInterface
  BY <1>18 DEF AddInterface, Crash, AddEntry, AllocFails, Fail, Return, MayFail, GoOn
<1>19. CASE EndInterfaces
  BY <1>19 DEF EndInterfaces, Close, Fail, Return, MayFail, GoOn
<1>20. CASE OpenMounts
  BY <1>20 DEF OpenMounts, OpenFails, Fail, Return, MayFail, CanOpen, GoOn, Read
<1>21. CASE AddFilesystem
  BY <1>21 DEF AddFilesystem, AddEntry, AllocFails, Fail, Return, MayFail, GoOn
<1>22. CASE Render
  BY <1>22 DEF Render, GoOn
<1>23. CASE FreeStats
  BY <1>23 DEF FreeStats, Refresh, Sound
<1>24. CASE Restart
  BY <1>24 DEF Restart, Refresh
<1>25. CASE UNCHANGED vars
  BY <1>25 DEF vars, listVars, fileVars, failVars
<1>26. CASE ReadError
  BY <1>26 DEF ReadError, MayFail, listVars
<1> QED
  BY <1>1, <1>2, <1>3, <1>4, <1>5, <1>6, <1>7, <1>8, <1>9, <1>10,
     <1>11, <1>12, <1>13, <1>14, <1>15, <1>16, <1>17, <1>18, <1>19, <1>20,
     <1>21, <1>22, <1>23, <1>24, <1>25, <1>26
     DEF Next, Linux, Solaris, Lists

\* A file is read from its first line to its last.
LEMMA FileTypePreserved ==
  Inv /\ [Next]_vars => FileType'
<1> SUFFICES ASSUME Inv, [Next]_vars PROVE FileType'
  OBVIOUS
<1>0. FileType
  BY TypeParts DEF Inv
<1>r. /\ rest # <<>> => Head(rest) \in Words /\ Tail(rest) \in Seq(Words)
      /\ \A f \in StatFiles : f \in Seq(Words) /\ Head(f) \in Words /\ Tail(f) \in Seq(Words)
      /\ MemFiles \subseteq Seq(Words) /\ Devices \subseteq Seq(Words)
      /\ MountTables \subseteq Seq(Words)
  BY RestFacts
<1> USE <1>0, <1>r
<1> USE DEF FileType, SourceType, fileVars
<1>1. CASE Call
  BY <1>1 DEF Call
<1>2. CASE GatherSystem
  BY <1>2 DEF GatherSystem, Fail, Return, MayFail
<1>3. CASE GatherLoad
  BY <1>3 DEF GatherLoad, OpenFails, Fail, Return, MayFail, CanOpen, GoOn
<1>4. CASE OpenStat
  BY <1>4 DEF OpenStat, OpenFails, Fail, Return, MayFail, CanOpen, GoOn
<1>5. CASE CountCpu
  <2>1. rest' \in Seq(Words) /\ line' \in Words
    BY <1>5 DEF CountCpu, NextLine
  <2>2. numcpus' \in Nat /\ source' = source
    BY <1>5 DEF CountCpu
  <2> QED
    BY <2>1, <2>2
<1>6. CASE GatherPaging
  BY <1>6 DEF GatherPaging, Fail, Return, MayFail, GoOn
<1>7. CASE SkipLine
  BY <1>7 DEF SkipLine, NextLine, GoOn
<1>8. CASE CloseStat
  BY <1>8 DEF CloseStat, Close, Fail, Return, MayFail, GoOn
<1>9. CASE OpenMeminfo
  BY <1>9 DEF OpenMeminfo, OpenFails, Fail, Return, MayFail, CanOpen, GoOn
<1>10. CASE CloseMeminfo
  BY <1>10 DEF CloseMeminfo, Close, Fail, Return, MayFail, GoOn
<1>11. CASE OpenNetDev
  <2>1. CASE UNCHANGED fileVars
    BY <2>1
  <2>2. CASE ~UNCHANGED fileVars
    <3>1. PICK f \in Devices : rest' = f /\ source' = [source EXCEPT !.devices = f] /\ UNCHANGED <<line, numcpus>>
      BY <1>11, <2>2 DEF OpenNetDev, Read
    <3> QED
      BY <3>1
  <2> QED
    BY <2>1, <2>2
<1>12. CASE EndFilesystems
  BY <1>12 DEF EndFilesystems, Fail, Return, MayFail
<1>13. CASE OpenKstat
  BY <1>13 DEF OpenKstat, Crash, OpenFails, Fail, Return, MayFail, CanOpen, GoOn
<1>14. CASE ReadSwap
  BY <1>14 DEF ReadSwap, Crash, OpenFails, Fail, Return, MayFail, CanOpen, GoOn
<1>15. CASE SumCpus
  <2>1. CASE UNCHANGED fileVars
    BY <2>1
  <2>2. CASE ~UNCHANGED fileVars
    <3>1. PICK f \in Devices : rest' = f /\ source' = [source EXCEPT !.devices = f] /\ UNCHANGED <<line, numcpus>>
      BY <1>15, <2>2 DEF SumCpus, Read
    <3> QED
      BY <3>1
  <2> QED
    BY <2>1, <2>2
<1>16. CASE EndFilesystemsSolaris
  BY <1>16 DEF EndFilesystemsSolaris, Fail, Return, MayFail
<1>17. CASE SkipEntry
  BY <1>17 DEF SkipEntry, GoOn
<1>18. CASE AddInterface
  BY <1>18 DEF AddInterface, Crash, AddEntry, AllocFails, Fail, Return, MayFail, GoOn
<1>19. CASE EndInterfaces
  BY <1>19 DEF EndInterfaces, Close, Fail, Return, MayFail, GoOn
<1>20. CASE OpenMounts
  <2>1. CASE UNCHANGED fileVars
    BY <2>1
  <2>2. CASE ~UNCHANGED fileVars
    <3>1. PICK f \in MountTables : rest' = f /\ source' = [source EXCEPT !.mounts = f] /\ UNCHANGED <<line, numcpus>>
      BY <1>20, <2>2 DEF OpenMounts, Read
    <3> QED
      BY <3>1
  <2> QED
    BY <2>1, <2>2
<1>21. CASE AddFilesystem
  BY <1>21 DEF AddFilesystem, AddEntry, AllocFails, Fail, Return, MayFail, GoOn
<1>22. CASE Render
  BY <1>22 DEF Render, GoOn
<1>23. CASE FreeStats
  <2>1. CASE Refresh
    <3>1. rest' = <<>> /\ line' = "" /\ source' = NoSource /\ numcpus' = 0
      BY <2>1 DEF Refresh
    <3>2. /\ <<>> \in Seq(Words) /\ "" \in Words
          /\ NoSource \in [stat : Seq(Words), devices : Seq(Words), mounts : Seq(Words), whole : BOOLEAN]
      BY NothingRead
    <3> QED
      BY <3>1, <3>2
  <2>2. CASE UNCHANGED fileVars
    BY <2>2
  <2> QED
    BY <1>23, <2>1, <2>2 DEF FreeStats
<1>24. CASE Restart
  <2>1. CASE Refresh
    <3>1. rest' = <<>> /\ line' = "" /\ source' = NoSource /\ numcpus' = 0
      BY <2>1 DEF Refresh
    <3>2. /\ <<>> \in Seq(Words) /\ "" \in Words
          /\ NoSource \in [stat : Seq(Words), devices : Seq(Words), mounts : Seq(Words), whole : BOOLEAN]
      BY NothingRead
    <3> QED
      BY <3>1, <3>2
  <2>2. CASE UNCHANGED fileVars
    BY <2>2
  <2> QED
    BY <1>24, <2>1, <2>2 DEF Restart
<1>25. CASE UNCHANGED vars
  BY <1>25 DEF vars, listVars, fileVars, failVars
<1>26. CASE ReadError
  <2>1. rest' = <<>> /\ source' = [source EXCEPT !.whole = FALSE] /\ UNCHANGED <<line, numcpus>>
    BY <1>26 DEF ReadError
  <2>2. rest' \in Seq(Words)
    BY <2>1, NothingRead
  <2>3. source' \in [stat : Seq(Words), devices : Seq(Words), mounts : Seq(Words), whole : BOOLEAN]
    BY <2>1
  <2> QED
    BY <2>1, <2>2, <2>3
<1> QED
  BY <1>1, <1>2, <1>3, <1>4, <1>5, <1>6, <1>7, <1>8, <1>9, <1>10,
     <1>11, <1>12, <1>13, <1>14, <1>15, <1>16, <1>17, <1>18, <1>19, <1>20,
     <1>21, <1>22, <1>23, <1>24, <1>25, <1>26
     DEF Next, Linux, Solaris, Lists

\* The lists stay lists.
LEMMA ListTypePreserved ==
  Inv /\ [Next]_vars => ListType'
<1> SUFFICES ASSUME Inv, [Next]_vars PROVE ListType'
  OBVIOUS
<1>0. ListType
  BY TypeParts DEF Inv
<1> DEFINE List == [array : {"garbage", "null", "block"}, items : Nat, ended : BOOLEAN]
<1>1l. \A list \in {interfaces, filesystems} : {list, With(list), Ended(list)} \subseteq List
  <2>1. ASSUME NEW list \in List PROVE {list, With(list), Ended(list)} \subseteq List
    BY ListFacts
  <2> QED
    BY <1>0, <2>1 DEF ListType
<1>2l. {Garbage, NoArray, NewList} \subseteq List
  BY ListFacts
<1> HIDE DEF List
<1>3l. ListType' <=> interfaces' \in List /\ filesystems' \in List
  BY DEF ListType, List
<1> USE <1>1l, <1>2l, <1>3l
<1> USE DEF listVars
<1>1. CASE Call
  BY <1>1 DEF Call
<1>2. CASE GatherSystem
  BY <1>2 DEF GatherSystem, Fail, Return, MayFail
<1>3. CASE GatherLoad
  BY <1>3 DEF GatherLoad, OpenFails, Fail, Return, MayFail, CanOpen, GoOn
<1>4. CASE OpenStat
  BY <1>4 DEF OpenStat, OpenFails, Fail, Return, MayFail, CanOpen, GoOn
<1>5. CASE CountCpu
  BY <1>5 DEF CountCpu, NextLine, GoOn
<1>6. CASE GatherPaging
  BY <1>6 DEF GatherPaging, Fail, Return, MayFail, GoOn
<1>7. CASE SkipLine
  BY <1>7 DEF SkipLine, NextLine, GoOn
<1>8. CASE CloseStat
  BY <1>8 DEF CloseStat, Close, Fail, Return, MayFail, GoOn
<1>9. CASE OpenMeminfo
  BY <1>9 DEF OpenMeminfo, OpenFails, Fail, Return, MayFail, CanOpen, GoOn
<1>10. CASE CloseMeminfo
  BY <1>10 DEF CloseMeminfo, Close, Fail, Return, MayFail, GoOn
<1>11. CASE OpenNetDev
  BY <1>11 DEF OpenNetDev, OpenFails, Fail, Return, MayFail, CanOpen, GoOn, Read
<1>12. CASE EndFilesystems
  BY <1>12 DEF EndFilesystems, Fail, Return, MayFail
<1>13. CASE OpenKstat
  BY <1>13 DEF OpenKstat, Crash, OpenFails, Fail, Return, MayFail, CanOpen, GoOn
<1>14. CASE ReadSwap
  BY <1>14 DEF ReadSwap, Crash, OpenFails, Fail, Return, MayFail, CanOpen, GoOn
<1>15. CASE SumCpus
  BY <1>15 DEF SumCpus, Fail, Return, MayFail, Read
<1>16. CASE EndFilesystemsSolaris
  BY <1>16 DEF EndFilesystemsSolaris, Fail, Return, MayFail
<1>17. CASE SkipEntry
  BY <1>17 DEF SkipEntry, GoOn
<1>18. CASE AddInterface
  BY <1>18 DEF AddInterface, Crash, AddEntry, AllocFails, Fail, Return, MayFail, GoOn
<1>19. CASE EndInterfaces
  BY <1>19 DEF EndInterfaces, Close, Fail, Return, MayFail, GoOn
<1>20. CASE OpenMounts
  BY <1>20 DEF OpenMounts, OpenFails, Fail, Return, MayFail, CanOpen, GoOn, Read
<1>21. CASE AddFilesystem
  BY <1>21 DEF AddFilesystem, AddEntry, AllocFails, Fail, Return, MayFail, GoOn
<1>22. CASE Render
  BY <1>22 DEF Render, GoOn
<1>23. CASE FreeStats
  BY <1>23 DEF FreeStats, Refresh, Sound
<1>24. CASE Restart
  BY <1>24 DEF Restart, Refresh
<1>25. CASE UNCHANGED vars
  BY <1>25 DEF vars, listVars, fileVars, failVars
<1>26. CASE ReadError
  BY <1>26 DEF ReadError, MayFail, listVars
<1> QED
  BY <1>1, <1>2, <1>3, <1>4, <1>5, <1>6, <1>7, <1>8, <1>9, <1>10,
     <1>11, <1>12, <1>13, <1>14, <1>15, <1>16, <1>17, <1>18, <1>19, <1>20,
     <1>21, <1>22, <1>23, <1>24, <1>25, <1>26
     DEF Next, Linux, Solaris, Lists

\* No more files are open than may be, and none is closed that is not open.
LEMMA StreamTypePreserved ==
  Inv /\ [Next]_vars => streams' \in 0..Descriptors
<1> SUFFICES ASSUME Inv, [Next]_vars PROVE streams' \in 0..Descriptors
  OBVIOUS
<1>0. /\ platform \in {"linux", "solaris"} /\ PlatformShape
      /\ streams \in 0..Descriptors /\ Descriptors \in Nat
      /\ pc # "dead" => InUse <= streams
  BY GatherAssumption DEF Inv, TypeOK, StreamShape
<1> USE <1>0 DEF PlatformShape, InUse
<1> USE DEF CanOpen
<1>1. CASE Call
  BY <1>1 DEF Call
<1>2. CASE GatherSystem
  BY <1>2 DEF GatherSystem, Fail, Return, MayFail
<1>3. CASE GatherLoad
  BY <1>3 DEF GatherLoad, OpenFails, Fail, Return, MayFail, CanOpen, GoOn
<1>4. CASE OpenStat
  BY <1>4 DEF OpenStat, OpenFails, Fail, Return, MayFail, CanOpen, GoOn
<1>5. CASE CountCpu
  BY <1>5 DEF CountCpu, NextLine, GoOn
<1>6. CASE GatherPaging
  BY <1>6 DEF GatherPaging, Fail, Return, MayFail, GoOn
<1>7. CASE SkipLine
  BY <1>7 DEF SkipLine, NextLine, GoOn
<1>8. CASE CloseStat
  BY <1>8 DEF CloseStat, Close, Fail, Return, MayFail, GoOn
<1>9. CASE OpenMeminfo
  BY <1>9 DEF OpenMeminfo, OpenFails, Fail, Return, MayFail, CanOpen, GoOn
<1>10. CASE CloseMeminfo
  BY <1>10 DEF CloseMeminfo, Close, Fail, Return, MayFail, GoOn
<1>11. CASE OpenNetDev
  BY <1>11 DEF OpenNetDev, OpenFails, Fail, Return, MayFail, CanOpen, GoOn, Read
<1>12. CASE EndFilesystems
  BY <1>12 DEF EndFilesystems, Fail, Return, MayFail
<1>13. CASE OpenKstat
  BY <1>13 DEF OpenKstat, Crash, OpenFails, Fail, Return, MayFail, CanOpen, GoOn
<1>14. CASE ReadSwap
  BY <1>14 DEF ReadSwap, Crash, OpenFails, Fail, Return, MayFail, CanOpen, GoOn
<1>15. CASE SumCpus
  BY <1>15 DEF SumCpus, Fail, Return, MayFail, Read
<1>16. CASE EndFilesystemsSolaris
  BY <1>16 DEF EndFilesystemsSolaris, Fail, Return, MayFail
<1>17. CASE SkipEntry
  BY <1>17 DEF SkipEntry, GoOn
<1>18. CASE AddInterface
  BY <1>18 DEF AddInterface, Crash, AddEntry, AllocFails, Fail, Return, MayFail, GoOn
<1>19. CASE EndInterfaces
  BY <1>19 DEF EndInterfaces, Close, Fail, Return, MayFail, GoOn
<1>20. CASE OpenMounts
  BY <1>20 DEF OpenMounts, OpenFails, Fail, Return, MayFail, CanOpen, GoOn, Read
<1>21. CASE AddFilesystem
  BY <1>21 DEF AddFilesystem, AddEntry, AllocFails, Fail, Return, MayFail, GoOn
<1>22. CASE Render
  BY <1>22 DEF Render, GoOn
<1>23. CASE FreeStats
  BY <1>23 DEF FreeStats, Refresh, Sound
<1>24. CASE Restart
  <2>1. streams' = 0
    BY <1>24 DEF Restart
  <2> QED
    BY <2>1
<1>25. CASE UNCHANGED vars
  BY <1>25 DEF vars, listVars, fileVars, failVars
<1>26. CASE ReadError
  BY <1>26 DEF ReadError, MayFail, listVars
<1> QED
  BY <1>1, <1>2, <1>3, <1>4, <1>5, <1>6, <1>7, <1>8, <1>9, <1>10,
     <1>11, <1>12, <1>13, <1>14, <1>15, <1>16, <1>17, <1>18, <1>19, <1>20,
     <1>21, <1>22, <1>23, <1>24, <1>25, <1>26
     DEF Next, Linux, Solaris, Lists

-----------------------------------------------------------------------------
(* The invariant holds                                                     *)

\* Nothing is open, and the structure is garbage.
LEMMA InitInv == Init => Inv
<1> SUFFICES ASSUME Init PROVE Inv
  OBVIOUS
<1>1. PlaceType
  BY DEF Init, PlaceType
<1>2. LossType
  BY DEF Init, LossType
<1>3. FileType
  <2>1. rest = <<>> /\ line = "" /\ source = NoSource /\ numcpus = 0
    BY DEF Init
  <2> QED
    BY <2>1, NothingRead DEF FileType, SourceType
<1>4. ListType
  BY ListFacts DEF Init, ListType
<1>5. streams \in 0..Descriptors /\ failures \in 0..MaxFailures
  <2>1. Descriptors \in Nat /\ MaxFailures \in Nat
    BY GatherAssumption
  <2>2. streams = 0 /\ failures = 0
    BY DEF Init
  <2> QED
    BY <2>1, <2>2
<1>6. TypeOK /\ SourceType
  BY <1>1, <1>2, <1>3, <1>4, <1>5, TypeParts
<1>7. PlatformShape /\ SetShape /\ ListShape /\ CpuShape
  BY DEF Init, PlatformShape, SetShape, ListShape, CpuShape, Adding
<1>p. PagingShape
  BY DEF Init, PagingShape, NoSource
<1>8. StreamShape
  <2>1. streams = 0 /\ failures = 0 /\ pc = "idle"
    BY DEF Init
  <2>2. InUse = 0
    BY <2>1 DEF InUse
  <2> QED
    BY <2>1, <2>2 DEF StreamShape
<1>9. MemoryShape
  BY DEF Init, MemoryShape
<1> QED
  BY <1>6, <1>7, <1>p, <1>8, <1>9 DEF Inv

\* The invariant holds in every state.
LEMMA InvHolds == Spec => []Inv
<1>1. Inv /\ [Next]_vars => (TypeOK /\ SourceType)'
  <2> SUFFICES ASSUME Inv, [Next]_vars PROVE (TypeOK /\ SourceType)'
    OBVIOUS
  <2>1. (TypeOK /\ SourceType)' <=>
          /\ PlaceType' /\ LossType' /\ FileType' /\ ListType'
          /\ streams' \in 0..Descriptors /\ failures' \in 0..MaxFailures
    BY DEF TypeOK, PlaceType, LossType, FileType, ListType
  <2> QED
    BY <2>1, PlaceTypePreserved, LossTypePreserved, FileTypePreserved, ListTypePreserved,
       StreamTypePreserved, FailuresPreserved
<1>2. Inv /\ [Next]_vars => Inv'
  BY <1>1, PlatformPreserved, SetPreserved, ListPreserved, CpuPreserved, PagingPreserved,
     StreamPreserved, MemoryPreserved DEF Inv
<1> QED
  BY InitInv, <1>2, PTL DEF Spec

-----------------------------------------------------------------------------
(* The properties                                                          *)

\* The variables keep their types: no more files are open than the process may have
\* open, and no stream is closed that is not.
THEOREM TypeCorrect == Spec => []TypeOK
<1>1. Inv => TypeOK
  BY DEF Inv
<1> QED
  BY <1>1, InvHolds, PTL

\* lstat_to_string meets a structure that gather has set as a whole in this round.
THEOREM RenderedWholeHolds == Spec => []RenderedWhole
<1>1. Inv => RenderedWhole
  BY DEF Inv, SetShape, ListShape, Adding, RenderedWhole
<1> QED
  BY <1>1, InvHolds, PTL

\* Whatever the files of the system are, all that gather can read and reports is
\* counted once.
THEOREM CountsRightHolds == Spec => []CountsRight
<1>1. Inv => CountsRight
  BY DEF Inv, ListShape, CpuShape, Adding, CountsRight
<1> QED
  BY <1>1, InvHolds, PTL

\* However often calls fail, each leaves one file open, or two on Solaris, and a
\* round without failures nothing.
THEOREM ResourcesReturnedHolds == Spec => []ResourcesReturned
<1>1. Inv => ResourcesReturned
  <2> SUFFICES ASSUME Inv, pc = "idle" PROVE ResourcesReturned
    BY DEF ResourcesReturned
  <2>1. InUse = 0 /\ failures \in Nat /\ streams \in Nat
    BY GatherAssumption DEF Inv, TypeOK, InUse
  <2>2. streams <= LeftOpen * failures
    BY <2>1 DEF Inv, StreamShape, LeftOpen
  <2>3. failures = 0 => leaked \subseteq (IF platform = "linux" THEN {} ELSE {"ifkey"})
    BY DEF Inv, MemoryShape
  <2> QED
    BY <2>2, <2>3 DEF ResourcesReturned
<1> QED
  BY <1>1, InvHolds, PTL
=============================================================================
