--------------------------- MODULE FileHandlers_proofs ---------------------------
(***************************************************************************)
(* Proofs about execute and the handlers that change files, for any        *)
(* commands, pieces of text, capacity of the pipe, faults and number of    *)
(* nodes.                                                                  *)
(***************************************************************************)
EXTENDS FileHandlers, SequenceTheorems, TLAPS

-----------------------------------------------------------------------------
(* The inductive invariant                                                 *)

\* When there may be a child, and for which nodes the agent waits for it.
ChildShape ==
  /\ pc \notin {"wait", "system"} => child = "none"
  /\ child = "none" => unwritten = 0
  /\ pc \in {"wait", "read", "pclose"} => cmd.returnoutput
  /\ pc = "system" => ~cmd.returnoutput
  /\ pc \in {"chdir", "spawn"} => code = -1 /\ ptr = "NULL"
  /\ pc = "wait" /\ ptr = "NULL" => child = "none"

\* Between the command and the answer nothing is lost without a line that was longer
\* than all before it: what was printed is in the pipe or in the answer, until the
\* pipe is closed.  The first line is always kept whole.
PipeShape ==
  /\ pc \notin {"wait", "read", "pclose"} => pipe = 0
  /\ pc \in {"chdir", "spawn", "wait"} => added = 0 /\ ~steep
  /\ pc = "wait" /\ ptr = "open" => pipe + unwritten = cmd.size
  /\ pc = "read" =>
       /\ ptr = "open"
       /\ added + pipe <= cmd.size
       /\ added + pipe = cmd.size \/ steep
       /\ added > 0 \/ pipe = cmd.size
  /\ pc \in {"pclose", "back", "idle"} /\ cmd.returnoutput =>
       errors # {} \/ added = cmd.size \/ (steep /\ added > 0)

\* Where the agent is while it has always found back, and where the command ran.
PlaceShape ==
  ~astray =>
    /\ pc \in {"idle", "chdir"} => here = "home"
    /\ pc \notin {"idle", "dead"} => cwd = "home"
    /\ pc \notin {"idle", "chdir", "dead"} =>
         /\ here = IF cmd.directory = "good" THEN "elsewhere" ELSE "home"
         /\ cmd.directory = "bad" => "chdir" \in errors
    /\ child = "running" \/ code # -1 =>
         \/ ranIn = IF cmd.directory = "none" THEN "home" ELSE "elsewhere"
         \/ "chdir" \in errors

\* No answer tells a client that a link was made, so that a file it has a picture of
\* is the one behind the name.
NoLinkKnown == \A n \in Names : known[n].kind # "link"

\* What the handlers of files rely on, and what a client concludes.
Inv ==
  /\ HandlersTypeOK
  /\ ChildShape
  /\ PipeShape
  /\ PlaceShape
  /\ NoLinkKnown
  /\ AnswersTrue

-----------------------------------------------------------------------------
(* Entries of a directory                                                  *)

\* An entry is a file with its text, a link to a name, or something with neither.
LEMMA EntryFacts ==
  /\ {Nothing, Directory, Unknown} \subseteq Entry
  /\ Nothing # Unknown /\ Directory # Unknown
  /\ \A t \in Seq(Pieces) : Text(t) \in Entry /\ Text(t) # Unknown /\ Text(t).text = t
  /\ \A n \in Names : Link(n) \in Entry /\ Link(n) # Unknown
  /\ \A k \in {Nothing, Directory, Unknown} : k.kind # "link"
  /\ \A t \in Seq(Pieces) : Text(t).kind # "link"
  /\ \A e \in Entry : e.text \in Seq(Pieces)
  /\ \A e \in Entry : e.kind = "link" => e.to \in Names
  /\ \A e \in Entry : e.kind = "file" => e = Text(e.text)
<1> USE DEF An, Nothing, Directory, Unknown, Text, Link
<1>1. {Nothing, Directory, Unknown} \subseteq Entry
  BY DEF Entry
<1>2. /\ Nothing # Unknown /\ Directory # Unknown
      /\ \A k \in {Nothing, Directory, Unknown} : k.kind # "link"
  <2>1. Nothing.kind = "nothing" /\ Directory.kind = "directory" /\ Unknown.kind = "unknown"
    OBVIOUS
  <2> HIDE DEF An, Nothing, Directory, Unknown
  <2> QED
    BY <2>1
<1>3. ASSUME NEW t \in Seq(Pieces)
      PROVE  /\ Text(t) \in Entry /\ Text(t) # Unknown /\ Text(t).text = t
             /\ Text(t).kind # "link"
  <2>1. Text(t) = [kind |-> "file", text |-> t, to |-> ""]
    OBVIOUS
  <2>2. Text(t) \in [kind : {"file"}, text : Seq(Pieces), to : {""}]
    BY <2>1
  <2>3. Text(t).kind = "file" /\ Unknown.kind = "unknown" /\ Text(t).text = t
    OBVIOUS
  <2> QED
    BY <2>2, <2>3 DEF Entry
<1>4. ASSUME NEW n \in Names
      PROVE  Link(n) \in Entry /\ Link(n) # Unknown
  <2>1. Link(n).kind = "link" /\ Unknown.kind = "unknown"
    OBVIOUS
  <2>2. Link(n) \in Entry
    BY DEF Entry
  <2> QED
    BY <2>1, <2>2
<1>5. ASSUME NEW e \in Entry
      PROVE  /\ e.text \in Seq(Pieces)
             /\ e.kind = "link" => e.to \in Names
             /\ e.kind = "file" => e = Text(e.text)
  <2>1. CASE e \in {Nothing, Directory, Unknown}
    <3>1. /\ Nothing.kind = "nothing" /\ Nothing.text = <<>>
          /\ Directory.kind = "directory" /\ Directory.text = <<>>
          /\ Unknown.kind = "unknown" /\ Unknown.text = <<>>
      OBVIOUS
    <3>2. <<>> \in Seq(Pieces)
      OBVIOUS
    <3> HIDE DEF An, Nothing, Directory, Unknown, Text, Link
    <3> QED
      BY <2>1, <3>1, <3>2
  <2>2. CASE e \in {Link(n) : n \in Names}
    <3>1. PICK n \in Names : e = Link(n)
      BY <2>2
    <3>2. e.kind = "link" /\ e.text = <<>> /\ e.to = n
      BY <3>1
    <3> QED
      BY <3>2
  <2>3. CASE e \in [kind : {"file"}, text : Seq(Pieces), to : {""}]
    <3>1. e = [kind |-> "file", text |-> e.text, to |-> ""] /\ e.text \in Seq(Pieces)
      BY <2>3
    <3> QED
      BY <2>3, <3>1
  <2> QED
    BY <2>1, <2>2, <2>3 DEF Entry
<1> QED
  BY <1>1, <1>2, <1>3, <1>4, <1>5

\* What is written, received or left of a text is a text.
LEMMA TextFacts ==
  ASSUME NEW s \in Seq(Pieces)
  PROVE  /\ \A p \in Pieces : Append(s, p) \in Seq(Pieces)
         /\ \A t \in Seq(Pieces) : Over(t, s) \in Seq(Pieces)
         /\ \A t \in Beginnings(s) : t \in Seq(Pieces)
<1>1. \A p \in Pieces : Append(s, p) \in Seq(Pieces)
  BY AppendProperties
<1>2. ASSUME NEW t \in Seq(Pieces) PROVE Over(t, s) \in Seq(Pieces)
  <2>1. Len(s) + 1 \in Nat /\ Len(t) \in Nat /\ Len(s) + 1 >= 1
    BY LenProperties
  <2>2. SubSeq(t, Len(s) + 1, Len(t)) \in Seq(Pieces)
    BY <2>1, SubSeqProperties
  <2> QED
    BY <2>2, ConcatProperties DEF Over
<1>3. ASSUME NEW t \in Beginnings(s) PROVE t \in Seq(Pieces)
  <2>1. PICK k \in 0..Len(s) : t = SubSeq(s, 1, k)
    BY DEF Beginnings
  <2> QED
    BY <2>1, SubSeqProperties, LenProperties
<1> QED
  BY <1>1, <1>2, <1>3

-----------------------------------------------------------------------------
(* What every action keeps                                                 *)

\* A handler of files starts and ends between two commands.
LEMMA HandlersHandle ==
  FileNext => Handle /\ pc' \in {"idle", "dead"}
<1> SUFFICES ASSUME FileNext PROVE Handle /\ pc' \in {"idle", "dead"}
  OBVIOUS
<1>1. PICK n \in Names :
        \/ CreateFile(n)
        \/ RemoveFile(n)
        \/ RemoveDir(n)
        \/ MakeDir(n)
        \/ \E m \in Names : MakeLink(n, m) \/ Move(n, m)
        \/ \E mode \in {"w", "a", "none"}, piece \in Pieces : WriteFile(n, mode, piece)
        \/ FtpGetFile(n)
        \/ FtpPutFile(n)
  BY DEF FileNext
<1> QED
  BY <1>1 DEF CreateFile, RemoveFile, RemoveDir, MakeDir, MakeLink, Move, WriteFile,
     FtpGetFile, FtpPutFile, OneEntry, Handle

\* A command does not touch what the handlers of files work on.
LEMMA ExecuteKeepsFiles ==
  ExecuteNext \/ UNCHANGED vars => UNCHANGED fileVars
  BY DEF ExecuteNext, AgentStep, ChildStep, Call, ChangeDirectory, Popen, Wait3, ReadOutput,
     Pclose, SystemForks, SystemReturns, GoBack, ChildWrites, ChildExits, vars

\* fgets returns something that is in the pipe.
LEMMA LinesFit ==
  ASSUME TypeOK, NEW line \in Lines PROVE line \in 1..pipe
  BY ExecuteAssumption DEF TypeOK, Lines, Least

\* add_output keeps all of a first piece, and something of every other.
LEMMA KeptFits ==
  ASSUME TypeOK, NEW piece \in Nat \ {0}
  PROVE  /\ Kept(piece) \in 1..piece
         /\ added = 0 \/ piece <= added => Kept(piece) = piece
  BY DEF TypeOK, Kept, Least

\* execute keeps the types of its variables.
LEMMA ExecuteTypePreserved ==
  Inv /\ [Next]_vars => TypeOK'
<1> SUFFICES ASSUME Inv, [Next]_vars PROVE TypeOK'
  OBVIOUS
<1>0. TypeOK /\ ChildShape
  BY DEF Inv, HandlersTypeOK
<1> USE <1>0, ExecuteAssumption DEF TypeOK, ChildShape, Errors, Dirs, childVars
<1>1. CASE Call
  <2>1. cmd' \in Command /\ count' \in 0..MaxCommands
    BY <1>1 DEF Call
  <2> QED
    BY <1>1, <2>1 DEF Call
<1>2. CASE ChangeDirectory
  BY <1>2 DEF ChangeDirectory
<1>3. CASE Popen
  <2>1. unwritten' \in Nat /\ child' \in {"none", "running"} /\ ranIn' \in Dirs /\ ptr' \in {"NULL", "open"}
    BY <1>3 DEF Popen, StartChild, Command
  <2> QED
    BY <1>3, <2>1 DEF Popen
<1>4. CASE Wait3
  <2>1. PICK status \in Statuses :
          IF status # 0
            THEN errors' = errors \cup {"status"} /\ pc' = "pclose"
            ELSE IF ptr = "NULL"
              THEN errors' = errors \cup {"popen"} /\ pc' = "pclose"
              ELSE pc' = "read" /\ UNCHANGED errors
    BY <1>4 DEF Wait3
  <2> QED
    BY <1>4, <2>1 DEF Wait3
<1>5. CASE ReadOutput
  <2>1. CASE pipe > 0 /\ UNCHANGED pc
    <3>1. PICK line \in Lines : AddOutput(line) /\ pipe' = pipe - line
      BY <1>5, <2>1 DEF ReadOutput
    <3>2. line \in 1..pipe
      BY LinesFit
    <3>3. added' \in Nat /\ steep' \in BOOLEAN /\ pipe' \in 0..Capacity
      BY <3>1, <3>2, KeptFits DEF AddOutput
    <3> QED
      BY <1>5, <2>1, <3>3 DEF ReadOutput
  <2>2. CASE pipe = 0 /\ pc' = "pclose" /\ UNCHANGED <<added, steep, pipe>>
    BY <1>5, <2>2 DEF ReadOutput
  <2> QED
    BY <1>5, <2>1, <2>2 DEF ReadOutput
<1>6. CASE Pclose
  BY <1>6 DEF Pclose
<1>7. CASE SystemForks
  <2>1. unwritten' \in Nat /\ child' \in {"none", "running"} /\ ranIn' \in Dirs
    BY <1>7 DEF SystemForks, StartChild, Command
  <2> QED
    BY <1>7, <2>1 DEF SystemForks
<1>8. CASE SystemReturns
  BY <1>8 DEF SystemReturns
<1>9. CASE GoBack
  BY <1>9 DEF GoBack
<1>10. CASE ChildWrites
  BY <1>10 DEF ChildWrites
<1>11. CASE ChildExits
  BY <1>11 DEF ChildExits, Command
<1>12. CASE FileNext
  <2>1. count' \in 0..MaxCommands /\ pc' \in {"idle", "dead"}
    BY <1>12, HandlersHandle DEF Handle
  <2>2. UNCHANGED <<cmd, here, cwd, ptr, child, unwritten, pipe, code, added, steep, ranIn, errors, astray>>
    BY <1>12, HandlersHandle DEF Handle
  <2> QED
    BY <2>1, <2>2
<1>13. CASE UNCHANGED vars
  BY <1>13 DEF vars
<1> QED
  BY <1>1, <1>2, <1>3, <1>4, <1>5,
     <1>6, <1>7, <1>8, <1>9, <1>10, <1>11, <1>12, <1>13
     DEF Next, ExecuteNext, AgentStep, ChildStep

\* The child that popen or system has started ends before the handler goes on.
LEMMA ChildPreserved ==
  Inv /\ [Next]_vars => ChildShape'
<1> SUFFICES ASSUME Inv, [Next]_vars PROVE ChildShape'
  OBVIOUS
<1>0. TypeOK /\ ChildShape
  BY DEF Inv, HandlersTypeOK
<1> USE <1>0, ExecuteAssumption DEF TypeOK, ChildShape, childVars
<1>1. CASE Call
  BY <1>1 DEF Call
<1>2. CASE ChangeDirectory
  BY <1>2 DEF ChangeDirectory
<1>3. CASE Popen
  BY <1>3 DEF Popen, StartChild
<1>4. CASE Wait3
  <2>1. PICK status \in Statuses :
          IF status # 0
            THEN errors' = errors \cup {"status"} /\ pc' = "pclose"
            ELSE IF ptr = "NULL"
              THEN errors' = errors \cup {"popen"} /\ pc' = "pclose"
              ELSE pc' = "read" /\ UNCHANGED errors
    BY <1>4 DEF Wait3
  <2> QED
    BY <1>4, <2>1 DEF Wait3
<1>5. CASE ReadOutput
  BY <1>5 DEF ReadOutput
<1>6. CASE Pclose
  BY <1>6 DEF Pclose
<1>7. CASE SystemForks
  BY <1>7 DEF SystemForks, StartChild
<1>8. CASE SystemReturns
  BY <1>8 DEF SystemReturns
<1>9. CASE GoBack
  BY <1>9 DEF GoBack
<1>10. CASE ChildWrites
  BY <1>10 DEF ChildWrites
<1>11. CASE ChildExits
  BY <1>11 DEF ChildExits
<1>12. CASE FileNext
  BY <1>12, HandlersHandle DEF Handle
<1>13. CASE UNCHANGED vars
  BY <1>13 DEF vars
<1> QED
  BY <1>1, <1>2, <1>3, <1>4, <1>5,
     <1>6, <1>7, <1>8, <1>9, <1>10, <1>11, <1>12, <1>13
     DEF Next, ExecuteNext, AgentStep, ChildStep

\* Text is moved from the command to the pipe and from the pipe to the answer.
LEMMA PipePreserved ==
  Inv /\ [Next]_vars => PipeShape'
<1> SUFFICES ASSUME Inv, [Next]_vars PROVE PipeShape'
  OBVIOUS
<1>0. TypeOK /\ ChildShape /\ PipeShape
  BY DEF Inv, HandlersTypeOK
<1>e. cmd.size \in Nat /\ cmd.returnoutput \in BOOLEAN
  BY <1>0 DEF TypeOK, Command
<1> USE <1>0, <1>e, ExecuteAssumption DEF TypeOK, ChildShape, PipeShape, childVars
<1>1. CASE Call
  BY <1>1 DEF Call
<1>2. CASE ChangeDirectory
  BY <1>2 DEF ChangeDirectory
<1>3. CASE Popen
  BY <1>3 DEF Popen, StartChild
<1>4. CASE Wait3
  <2>1. PICK status \in Statuses :
          IF status # 0
            THEN errors' = errors \cup {"status"} /\ pc' = "pclose"
            ELSE IF ptr = "NULL"
              THEN errors' = errors \cup {"popen"} /\ pc' = "pclose"
              ELSE pc' = "read" /\ UNCHANGED errors
    BY <1>4 DEF Wait3
  <2>2. CASE status = 0 /\ ptr = "open"
    BY <1>4, <2>1, <2>2 DEF Wait3
  <2>3. CASE status # 0 \/ ptr = "NULL"
    BY <1>4, <2>1, <2>3 DEF Wait3
  <2> QED
    BY <1>4, <2>2, <2>3
<1>5. CASE ReadOutput
  <2>1. CASE pipe > 0 /\ UNCHANGED pc
    <3>1. PICK line \in Lines : AddOutput(line) /\ pipe' = pipe - line
      BY <1>5, <2>1 DEF ReadOutput
    <3>2. line \in 1..pipe
      BY LinesFit
    <3>3. Kept(line) \in 1..line /\ (added = 0 \/ line <= added => Kept(line) = line)
      BY <3>2, KeptFits
    <3>4. added' = added + Kept(line)
      BY <3>1 DEF AddOutput
    <3>5. added' + pipe' <= cmd.size /\ added' > 0
      BY <1>5, <3>1, <3>2, <3>3, <3>4 DEF ReadOutput
    <3>6. CASE steep \/ added' + pipe' = cmd.size
      <4>1. steep => steep'
        BY <3>1 DEF AddOutput
      <4>2. added' + pipe' = cmd.size \/ steep'
        BY <3>6, <4>1
      <4> QED
        BY <1>5, <2>1, <3>5, <4>2 DEF ReadOutput
    <3>7. CASE ~steep /\ added' + pipe' # cmd.size
      <4>1. added + pipe = cmd.size
        BY <1>5, <3>7 DEF ReadOutput
      <4>2. added > 0 /\ line > added
        BY <3>1, <3>2, <3>3, <3>4, <3>7, <4>1
      <4>3. cmd.size - pipe > 0 /\ line > cmd.size - pipe
        BY <4>1, <4>2
      <4>4. steep'
        BY <3>1, <4>3 DEF AddOutput
      <4> QED
        BY <1>5, <2>1, <3>5, <4>4 DEF ReadOutput
    <3> QED
      BY <3>6, <3>7
  <2>2. CASE pipe = 0 /\ pc' = "pclose" /\ UNCHANGED <<added, steep, pipe>>
    <3>1. added <= cmd.size /\ (added = cmd.size \/ steep) /\ (added > 0 \/ cmd.size = 0)
      BY <1>5, <2>2 DEF ReadOutput
    <3>2. added = cmd.size \/ (steep /\ added > 0)
      BY <3>1
    <3> QED
      BY <1>5, <2>2, <3>2 DEF ReadOutput
  <2> QED
    BY <1>5, <2>1, <2>2 DEF ReadOutput
<1>6. CASE Pclose
  BY <1>6 DEF Pclose
<1>7. CASE SystemForks
  BY <1>7 DEF SystemForks, StartChild
<1>8. CASE SystemReturns
  BY <1>8 DEF SystemReturns
<1>9. CASE GoBack
  BY <1>9 DEF GoBack
<1>10. CASE ChildWrites
  BY <1>10 DEF ChildWrites
<1>11. CASE ChildExits
  BY <1>11 DEF ChildExits
<1>12. CASE FileNext
  BY <1>12, HandlersHandle DEF Handle
<1>13. CASE UNCHANGED vars
  BY <1>13 DEF vars
<1> QED
  BY <1>1, <1>2, <1>3, <1>4, <1>5,
     <1>6, <1>7, <1>8, <1>9, <1>10, <1>11, <1>12, <1>13
     DEF Next, ExecuteNext, AgentStep, ChildStep

\* The agent is at home between two commands, or has said that it is not.
LEMMA PlacePreserved ==
  Inv /\ [Next]_vars => PlaceShape'
<1> SUFFICES ASSUME Inv, [Next]_vars PROVE PlaceShape'
  OBVIOUS
<1>0. TypeOK /\ ChildShape /\ PlaceShape
  BY DEF Inv, HandlersTypeOK
<1>e. cmd.directory \in {"none", "good", "bad"}
  BY <1>0 DEF TypeOK, Command
<1> USE <1>0, <1>e DEF TypeOK, ChildShape, PlaceShape, childVars
<1>1. CASE Call
  BY <1>1 DEF Call
<1>2. CASE ChangeDirectory
  BY <1>2 DEF ChangeDirectory
<1>3. CASE Popen
  BY <1>3 DEF Popen, StartChild
<1>4. CASE Wait3
  <2>1. PICK status \in Statuses :
          IF status # 0
            THEN errors' = errors \cup {"status"} /\ pc' = "pclose"
            ELSE IF ptr = "NULL"
              THEN errors' = errors \cup {"popen"} /\ pc' = "pclose"
              ELSE pc' = "read" /\ UNCHANGED errors
    BY <1>4 DEF Wait3
  <2> QED
    BY <1>4, <2>1 DEF Wait3
<1>5. CASE ReadOutput
  BY <1>5 DEF ReadOutput
<1>6. CASE Pclose
  BY <1>6 DEF Pclose
<1>7. CASE SystemForks
  BY <1>7 DEF SystemForks, StartChild
<1>8. CASE SystemReturns
  BY <1>8 DEF SystemReturns
<1>9. CASE GoBack
  BY <1>9 DEF GoBack
<1>10. CASE ChildWrites
  BY <1>10 DEF ChildWrites
<1>11. CASE ChildExits
  BY <1>11 DEF ChildExits
<1>12. CASE FileNext
  BY <1>12, HandlersHandle DEF Handle
<1>13. CASE UNCHANGED vars
  BY <1>13 DEF vars
<1> QED
  BY <1>1, <1>2, <1>3, <1>4, <1>5,
     <1>6, <1>7, <1>8, <1>9, <1>10, <1>11, <1>12, <1>13
     DEF Next, ExecuteNext, AgentStep, ChildStep

-----------------------------------------------------------------------------
(* The handlers of files                                                   *)

FilesOK ==
  /\ files \in [Dirs -> [Names -> Entry \ {Unknown}]]
  /\ remote \in Seq(Pieces)
  /\ known \in [Names \cup {"server"} -> Entry]
  /\ silent \in BOOLEAN
  /\ open \in 0..Descriptors
  /\ NoLinkKnown

\* Between two commands a client that is told the truth knows of the directory
\* the agent is in.
LEMMA KnownHere ==
  ASSUME Inv, pc = "idle", ~astray, ~silent
  PROVE  /\ here = "home"
         /\ \A n \in Names : known[n] \in {Unknown, There(n)}
         /\ known["server"] \in {Unknown, Text(remote)}
  BY DEF Inv, PlaceShape, AnswersTrue, There

\* One entry of the directory the agent is in is another one.
LEMMA EntryBecomes ==
  ASSUME Inv, NEW n \in Names, NEW e \in Entry \ {Unknown}, Becomes(n, e)
  PROVE  /\ files' \in [Dirs -> [Names -> Entry \ {Unknown}]]
         /\ \A m \in Names : files'[here][m] = IF m = n THEN e ELSE files[here][m]
<1>1. files \in [Dirs -> [Names -> Entry \ {Unknown}]] /\ here \in Dirs
  BY DEF Inv, HandlersTypeOK, TypeOK
<1>2. files' = [files EXCEPT ![here] = [files[here] EXCEPT ![n] = e]]
  BY DEF Becomes
<1>3. [files[here] EXCEPT ![n] = e] \in [Names -> Entry \ {Unknown}]
  BY <1>1
<1> QED
  BY <1>1, <1>2, <1>3

\* A handler that changes an entry as it says keeps the answers true.
LEMMA ToldKeeps ==
  ASSUME Inv, pc = "idle", NEW n \in Names, NEW e \in Entry \ {Unknown}, e.kind # "link",
         Becomes(n, e), Told(n, e), UNCHANGED <<remote, silent, astray>>,
         open' \in 0..Descriptors
  PROVE  FilesOK' /\ AnswersTrue'
<1>1. /\ files' \in [Dirs -> [Names -> Entry \ {Unknown}]]
      /\ \A m \in Names : files'[here][m] = IF m = n THEN e ELSE files[here][m]
  BY EntryBecomes
<1>2. /\ known \in [Names \cup {"server"} -> Entry]
      /\ known' = [known EXCEPT ![n] = e]
      /\ remote \in Seq(Pieces) /\ silent \in BOOLEAN
  BY DEF Inv, HandlersTypeOK, Told
<1>k. NoLinkKnown'
  BY <1>2 DEF Inv, NoLinkKnown
<1>3. FilesOK'
  BY <1>1, <1>2, <1>k DEF FilesOK
<1>4. AnswersTrue'
  <2> SUFFICES ASSUME ~astray, ~silent PROVE AnswersTrue'
    BY DEF AnswersTrue
  <2>1. /\ here = "home"
        /\ \A m \in Names : known[m] \in {Unknown, files[here][m]}
        /\ known["server"] \in {Unknown, Text(remote)}
    BY KnownHere DEF There
  <2>2. \A m \in Names : known'[m] \in {Unknown, files'["home"][m]}
    BY <1>1, <1>2, <2>1
  <2>3. known'["server"] \in {Unknown, Text(remote')}
    BY <1>2, <2>1, FileHandlersAssumption
  <2> QED
    BY <2>2, <2>3 DEF AnswersTrue
<1> QED
  BY <1>3, <1>4

\* A handler that has changed nothing keeps the answers true.
LEMMA RefusedKeeps ==
  ASSUME Inv, UNCHANGED fileVars, UNCHANGED astray
  PROVE  FilesOK' /\ AnswersTrue'
  BY DEF Inv, HandlersTypeOK, FilesOK, AnswersTrue, NoLinkKnown, fileVars

\* So does a handler whose system call changes one entry or fails.
LEMMA OneEntryKeeps ==
  ASSUME Inv, NEW n \in Names, NEW possible, NEW e \in Entry \ {Unknown}, e.kind # "link",
         OneEntry(n, possible, e)
  PROVE  FilesOK' /\ AnswersTrue'
<1>1. pc = "idle" /\ UNCHANGED astray /\ open \in 0..Descriptors
  BY DEF OneEntry, Handle, Inv, HandlersTypeOK
<1>2. CASE Becomes(n, e) /\ Told(n, e) /\ UNCHANGED <<remote, silent, open>>
  BY <1>1, <1>2, ToldKeeps
<1>3. CASE Refused(possible)
  BY <1>1, <1>3, RefusedKeeps DEF Refused, Refuse, fileVars
<1> QED
  BY <1>2, <1>3 DEF OneEntry

\* The name behind n is a name.
LEMMA TargetIsName ==
  ASSUME NEW S, S \subseteq Entry, NEW entries \in [Names -> S], NEW n \in Names
  PROVE  Target(entries, n) \in Names
  BY EntryFacts DEF Target

\* A client may know nothing of an entry, and nothing of any.
LEMMA UnknownKeeps ==
  ASSUME Inv, NEW n \in Names, UNCHANGED <<files, remote, silent, open, astray>>,
         known' \in {[known EXCEPT ![n] = Unknown],
                     [m \in DOMAIN known |-> IF m \in Names THEN Unknown ELSE known[m]]}
  PROVE  FilesOK' /\ AnswersTrue'
<1>1. known \in [Names \cup {"server"} -> Entry] /\ "server" \notin Names
  BY FileHandlersAssumption DEF Inv, HandlersTypeOK
<1>2. /\ known' \in [Names \cup {"server"} -> Entry]
      /\ \A m \in Names : known'[m] \in {Unknown, known[m]}
      /\ known'["server"] = known["server"]
  BY <1>1, EntryFacts
<1>3. NoLinkKnown'
  BY <1>2, EntryFacts DEF Inv, NoLinkKnown
<1>4. FilesOK'
  BY <1>2, <1>3 DEF Inv, HandlersTypeOK, FilesOK
<1>5. AnswersTrue'
  BY <1>2 DEF Inv, AnswersTrue
<1> QED
  BY <1>4, <1>5

\* What a client concludes of a file that was written to by the name n, which may
\* be a link: if it does not know n it knows nothing of any name.
LEMMA ConcludedKeeps ==
  ASSUME Inv, pc = "idle", NEW n \in Names, NEW t \in Names, t = Target(files[here], n),
         NEW e \in Entry \ {Unknown}, NEW c \in Entry, c.kind # "link", Becomes(t, e),
         known' = IF known[n] = Unknown
                    THEN [m \in DOMAIN known |-> IF m \in Names THEN Unknown ELSE known[m]]
                    ELSE [known EXCEPT ![n] = c],
         ~astray /\ ~silent' /\ known[n] # Unknown => c \in {Unknown, e},
         UNCHANGED <<remote, astray>>, silent' \in {silent, TRUE}, open' \in 0..Descriptors
  PROVE  FilesOK' /\ AnswersTrue'
<1>1. /\ files' \in [Dirs -> [Names -> Entry \ {Unknown}]]
      /\ \A m \in Names : files'[here][m] = IF m = t THEN e ELSE files[here][m]
  BY EntryBecomes
<1>2. /\ known \in [Names \cup {"server"} -> Entry]
      /\ remote \in Seq(Pieces) /\ silent \in BOOLEAN /\ "server" \notin Names
  BY FileHandlersAssumption DEF Inv, HandlersTypeOK
<1>s. ~silent' => ~silent
  BY <1>2
<1>3. CASE known[n] = Unknown
  <2>1. known' = [m \in Names \cup {"server"} |-> IF m \in Names THEN Unknown ELSE known[m]]
    BY <1>2, <1>3
  <2>2. known' \in [Names \cup {"server"} -> Entry] /\ NoLinkKnown'
    BY <1>2, <2>1, EntryFacts DEF NoLinkKnown
  <2>3. FilesOK'
    BY <1>1, <1>2, <2>2 DEF FilesOK
  <2>4. ~astray /\ ~silent' => known["server"] \in {Unknown, Text(remote)}
    BY <1>s, KnownHere
  <2>5. AnswersTrue'
    BY <1>2, <2>1, <2>4 DEF AnswersTrue
  <2> QED
    BY <2>3, <2>5
<1>4. CASE known[n] # Unknown
  <2>2. known' = [known EXCEPT ![n] = c]
    BY <1>4
  <2>3. known' \in [Names \cup {"server"} -> Entry] /\ NoLinkKnown'
    BY <1>2, <2>2 DEF Inv, NoLinkKnown
  <2>4. FilesOK'
    BY <1>1, <1>2, <2>3 DEF FilesOK
  <2>5. ASSUME ~astray, ~silent'
        PROVE  /\ \A m \in Names : known'[m] \in {Unknown, files'["home"][m]}
               /\ known'["server"] \in {Unknown, Text(remote')}
    <3>1. /\ here = "home"
          /\ \A m \in Names : known[m] \in {Unknown, files[here][m]}
          /\ known["server"] \in {Unknown, Text(remote)}
      BY <1>s, <2>5, KnownHere DEF There
    <3>2. known[n] = files[here][n] /\ known[n].kind # "link"
      BY <1>4, <3>1 DEF Inv, NoLinkKnown
    <3>3. n = t
      BY <3>2 DEF Target
    <3>4. c \in {Unknown, e}
      BY <1>4, <2>5
    <3> QED
      BY <1>1, <1>2, <2>2, <3>1, <3>3, <3>4
  <2>6. AnswersTrue'
    BY <2>5 DEF AnswersTrue
  <2> QED
    BY <2>4, <2>6
<1> QED
  BY <1>3, <1>4

\* symlink tells nothing by its answer, unless there was something under the name.
LEMMA MakeLinkKeeps ==
  ASSUME Inv, NEW n \in Names, NEW old \in Names, MakeLink(n, old)
  PROVE  FilesOK' /\ AnswersTrue'
<1> DEFINE possible == There(n) = Nothing
<1>1. /\ pc = "idle" /\ UNCHANGED astray /\ open \in 0..Descriptors
      /\ remote \in Seq(Pieces) /\ silent \in BOOLEAN
      /\ known \in [Names \cup {"server"} -> Entry] /\ "server" \notin Names
      /\ known' = [known EXCEPT ![n] = IF known[n] = Nothing THEN Unknown ELSE known[n]]
  BY FileHandlersAssumption DEF MakeLink, Handle, Told, Inv, HandlersTypeOK
<1>2. /\ known' \in [Names \cup {"server"} -> Entry]
      /\ \A m \in Names : known'[m] \in {Unknown, known[m]}
      /\ known[n] = Nothing => known'[n] = Unknown
      /\ known'["server"] = known["server"]
  BY <1>1, EntryFacts
<1>3. NoLinkKnown'
  BY <1>2, EntryFacts DEF Inv, NoLinkKnown
<1>4. CASE possible /\ Becomes(n, Link(old)) /\ UNCHANGED <<remote, silent, open>>
  <2>1. Link(old) \in Entry \ {Unknown}
    BY EntryFacts
  <2>2. /\ files' \in [Dirs -> [Names -> Entry \ {Unknown}]]
        /\ \A m \in Names : files'[here][m] = IF m = n THEN Link(old) ELSE files[here][m]
    BY <1>4, <2>1, EntryBecomes
  <2>3. FilesOK'
    BY <1>1, <1>2, <1>3, <1>4, <2>2 DEF FilesOK
  <2>4. AnswersTrue'
    <3> SUFFICES ASSUME ~astray, ~silent PROVE AnswersTrue'
      BY <1>1, <1>4 DEF AnswersTrue
    <3>1. /\ here = "home"
          /\ \A m \in Names : known[m] \in {Unknown, files[here][m]}
          /\ known["server"] \in {Unknown, Text(remote)}
      BY <1>1, KnownHere DEF There
    <3>2. known'[n] = Unknown
      BY <1>2, <1>4, <3>1 DEF There
    <3>3. \A m \in Names : known'[m] \in {Unknown, files'["home"][m]}
      BY <1>2, <2>2, <3>1, <3>2
    <3> QED
      BY <1>2, <1>4, <3>1, <3>3 DEF AnswersTrue
  <2> QED
    BY <2>3, <2>4
<1>5. CASE UNCHANGED <<files, remote, silent, open>>
  <2>1. FilesOK'
    BY <1>2, <1>3, <1>5 DEF FilesOK, Inv, HandlersTypeOK
  <2>2. AnswersTrue'
    BY <1>1, <1>2, <1>5 DEF Inv, AnswersTrue
  <2> QED
    BY <2>1, <2>2
<1> QED
  BY <1>4, <1>5 DEF MakeLink, Refuse

\* createfile: the file it makes is empty, and it keeps a descriptor.
LEMMA CreateFileKeeps ==
  ASSUME Inv, NEW n \in Names, CreateFile(n) PROVE FilesOK' /\ AnswersTrue'
<1> DEFINE possible == There(n) = Nothing /\ open < Descriptors
<1>1. pc = "idle" /\ UNCHANGED astray
  BY DEF CreateFile, Handle
<1>2. CASE /\ possible
           /\ Becomes(n, Text(<<>>)) /\ Told(n, Text(<<>>))
           /\ open' = open + 1 /\ UNCHANGED <<remote, silent>>
  <2>1. open' \in 0..Descriptors
    BY <1>2, ExecuteAssumption DEF Inv, HandlersTypeOK
  <2>2. <<>> \in Seq(Pieces)
    OBVIOUS
  <2>3. Text(<<>>) \in Entry \ {Unknown} /\ Text(<<>>).kind # "link"
    BY <2>2, EntryFacts
  <2> QED
    BY <1>1, <1>2, <2>1, <2>3, ToldKeeps
<1>3. CASE Refused(possible)
  BY <1>1, <1>3, RefusedKeeps DEF Refused, Refuse, fileVars
<1> QED
  BY <1>2, <1>3 DEF CreateFile

\* rename moves what a client knows with what is there.
LEMMA MoveKeeps ==
  ASSUME Inv, NEW n \in Names, NEW m \in Names, Move(n, m) PROVE FilesOK' /\ AnswersTrue'
<1> DEFINE possible == /\ There(n) # Nothing
                       /\ IF There(n) = Directory THEN There(m) \in {Nothing, Directory}
                                                  ELSE There(m) # Directory
           moved(entries) == IF n = m THEN entries
                                      ELSE [entries EXCEPT ![m] = entries[n], ![n] = Nothing]
<1>1. pc = "idle" /\ UNCHANGED astray
  BY DEF Move, Handle
<1>2. CASE /\ files' = [files EXCEPT ![here] = moved(files[here])]
           /\ known' = moved(known)
           /\ UNCHANGED <<remote, silent, open>>
  <2>1. /\ files \in [Dirs -> [Names -> Entry \ {Unknown}]] /\ here \in Dirs
        /\ known \in [Names \cup {"server"} -> Entry]
        /\ remote \in Seq(Pieces) /\ silent \in BOOLEAN /\ open \in 0..Descriptors
        /\ "server" \notin Names /\ Nothing \in Entry \ {Unknown}
    BY FileHandlersAssumption, EntryFacts DEF Inv, HandlersTypeOK, TypeOK
  <2>2. ASSUME NEW S, NEW E, S \in {Names, Names \cup {"server"}}, Nothing \in E,
               NEW entries \in [S -> E]
        PROVE  /\ moved(entries) \in [S -> E]
               /\ \A x \in S : moved(entries)[x] =
                    IF n = m THEN entries[x]
                             ELSE IF x = n THEN Nothing
                             ELSE IF x = m THEN entries[n] ELSE entries[x]
    BY <2>2
  <2>3. moved(files[here]) \in [Names -> Entry \ {Unknown}]
    BY <2>1, <2>2
  <2>4. files' \in [Dirs -> [Names -> Entry \ {Unknown}]] /\ files'[here] = moved(files[here])
    BY <1>2, <2>1, <2>3
  <2>5. \A x \in Names : moved(files[here])[x] =
          IF n = m THEN files[here][x]
                   ELSE IF x = n THEN Nothing ELSE IF x = m THEN files[here][n] ELSE files[here][x]
    BY <2>1, <2>2
  <2>6. /\ known' \in [Names \cup {"server"} -> Entry]
        /\ \A x \in Names \cup {"server"} : known'[x] =
             IF n = m THEN known[x]
                      ELSE IF x = n THEN Nothing ELSE IF x = m THEN known[n] ELSE known[x]
    BY <1>2, <2>1, <2>2
  <2> HIDE DEF moved
  <2>k. NoLinkKnown'
    BY <2>6, EntryFacts DEF Inv, NoLinkKnown
  <2>7. FilesOK'
    BY <1>2, <2>1, <2>4, <2>6, <2>k DEF FilesOK
  <2>8. AnswersTrue'
    <3> SUFFICES ASSUME ~astray, ~silent PROVE AnswersTrue'
      BY <1>1, <1>2 DEF AnswersTrue
    <3>1. /\ here = "home"
          /\ \A x \in Names : known[x] \in {Unknown, files[here][x]}
          /\ known["server"] \in {Unknown, Text(remote)}
      BY <1>1, KnownHere DEF There
    <3>2. \A x \in Names : known'[x] \in {Unknown, files'["home"][x]}
      BY <2>4, <2>5, <2>6, <3>1
    <3>3. known'["server"] \in {Unknown, Text(remote')}
      BY <1>2, <2>1, <2>6, <3>1
    <3> QED
      BY <3>2, <3>3 DEF AnswersTrue
  <2> QED
    BY <2>7, <2>8
<1>3. CASE Refused(possible)
  BY <1>1, <1>3, RefusedKeeps DEF Refused, Refuse, fileVars
<1> QED
  BY <1>2, <1>3 DEF Move

\* writefile, through a link or not, whole or cut by a full disk, answered or not.
LEMMA WriteFileKeeps ==
  ASSUME Inv, NEW n \in Names, NEW mode, NEW piece \in Pieces, WriteFile(n, mode, piece)
  PROVE  FilesOK' /\ AnswersTrue'
<1> DEFINE t == Target(files[here], n)
           old(entry) == IF mode = "w" THEN <<>> ELSE entry.text
           written(entry) == IF mode # "w" /\ entry = Unknown
                               THEN Unknown ELSE Text(Append(old(entry), piece))
<1>1. /\ pc = "idle" /\ UNCHANGED astray
      /\ files[here] \in [Names -> Entry \ {Unknown}]
      /\ known \in [Names \cup {"server"} -> Entry]
      /\ silent \in BOOLEAN /\ open \in 0..Descriptors /\ Descriptors \in Nat
  BY ExecuteAssumption DEF WriteFile, Handle, Inv, HandlersTypeOK, TypeOK
<1>2. t \in Names /\ There(t) \in Entry \ {Unknown}
  BY <1>1, TargetIsName DEF There
<1>3. ASSUME NEW entry \in Entry
      PROVE  old(entry) \in Seq(Pieces)
  BY EntryFacts
<1>4. CASE Refuse(Opens(n)) /\ Concludes(n, Lost)
  BY <1>1, <1>4, UnknownKeeps DEF Refuse, Concludes, Lost
<1>5. CASE /\ Becomes(t, Text(Append(old(There(t)), piece)))
           /\ Concludes(n, written)
           /\ UNCHANGED <<open, remote, silent>>
  <2> DEFINE c == written(known[n])
             e == Text(Append(old(There(t)), piece))
  <2>1. e \in Entry \ {Unknown}
    BY <1>2, <1>3, TextFacts, EntryFacts
  <2>2. known[n] \in Entry
    BY <1>1
  <2>3. c \in Entry /\ c.kind # "link"
    BY <1>3, <2>2, TextFacts, EntryFacts
  <2>4. ~astray /\ ~silent' /\ known[n] # Unknown => c \in {Unknown, e}
    <3> SUFFICES ASSUME ~astray, ~silent, known[n] # Unknown PROVE c \in {Unknown, e}
      BY <1>5
    <3>1. known[n] = There(n) /\ There(n).kind # "link"
      BY <1>1, KnownHere DEF Inv, NoLinkKnown
    <3>2. n = t
      BY <3>1 DEF Target, There
    <3> QED
      BY <3>1, <3>2
  <2>5. known' = IF known[n] = Unknown
                   THEN [m \in DOMAIN known |-> IF m \in Names THEN Unknown ELSE known[m]]
                   ELSE [known EXCEPT ![n] = c]
    BY <1>5 DEF Concludes
  <2>6. Becomes(t, e) /\ UNCHANGED remote /\ silent' \in {silent, TRUE} /\ open' \in 0..Descriptors
    BY <1>1, <1>5
  <2> HIDE DEF t, c, e, written
  <2> QED
    BY <1>1, <1>2, <2>1, <2>3, <2>4, <2>5, <2>6, ConcludedKeeps DEF t
<1>6. ASSUME NEW text \in Seq(Pieces), Becomes(t, Text(text)),
             Concludes(n, Lost), open' \in 0..Descriptors, UNCHANGED <<remote, silent>>
      PROVE  FilesOK' /\ AnswersTrue'
  <2> DEFINE e == Text(text)
  <2>1. e \in Entry \ {Unknown} /\ Unknown \in Entry /\ Unknown.kind # "link"
    BY EntryFacts
  <2>2. known' = IF known[n] = Unknown
                   THEN [m \in DOMAIN known |-> IF m \in Names THEN Unknown ELSE known[m]]
                   ELSE [known EXCEPT ![n] = Unknown]
    BY <1>6 DEF Concludes, Lost
  <2>3. Becomes(t, e) /\ UNCHANGED remote /\ silent' \in {silent, TRUE}
    BY <1>6
  <2> HIDE DEF t, e
  <2> QED
    BY <1>1, <1>2, <1>6, <2>1, <2>2, <2>3, ConcludedKeeps DEF t
<1>7. CASE /\ Becomes(t, Text(Append(old(There(t)), piece)))
           /\ Concludes(n, Lost)
           /\ UNCHANGED <<open, remote, silent>>
  <2>1. Append(old(There(t)), piece) \in Seq(Pieces)
    BY <1>2, <1>3, TextFacts
  <2>2. open' \in 0..Descriptors
    BY <1>1, <1>7
  <2> HIDE DEF t, old
  <2> QED
    BY <1>6, <1>7, <2>1, <2>2
<1>8. CASE /\ Becomes(t, Text(old(There(t))))
           /\ Concludes(n, Lost)
           /\ open' = open + 1 \/ UNCHANGED open
           /\ Opens(n)
           /\ UNCHANGED <<remote, silent>>
  <2>1. old(There(t)) \in Seq(Pieces)
    BY <1>2, <1>3
  <2>2. open' \in 0..Descriptors
    BY <1>1, <1>8 DEF Opens
  <2> HIDE DEF t, old
  <2> QED
    BY <1>6, <1>8, <2>1, <2>2
<1> QED
  BY <1>4, <1>5, <1>7, <1>8 DEF WriteFile

\* ftp_getfile: a full disk is the one fault that is told to nobody.
LEMMA FtpGetFileKeeps ==
  ASSUME Inv, NEW n \in Names, FtpGetFile(n) PROVE FilesOK' /\ AnswersTrue'
<1> DEFINE t == Target(files[here], n)
           received(text) == Becomes(t, Text(Over(There(t).text, text)))
           whole(entry) == IF Unknown \in {entry, known["server"]} THEN Unknown
                             ELSE Text(Over(entry.text, known["server"].text))
<1>1. /\ pc = "idle" /\ UNCHANGED astray
      /\ files[here] \in [Names -> Entry \ {Unknown}]
      /\ known \in [Names \cup {"server"} -> Entry] /\ "server" \notin Names
      /\ silent \in BOOLEAN /\ open \in 0..Descriptors
      /\ remote \in Seq(Pieces)
  BY FileHandlersAssumption DEF FtpGetFile, Handle, Inv, HandlersTypeOK, TypeOK
<1>2. t \in Names /\ There(t) \in Entry \ {Unknown}
  BY <1>1, TargetIsName DEF There
<1>3. \A text \in Seq(Pieces) : Text(Over(There(t).text, text)) \in Entry \ {Unknown}
  <2>1. There(t).text \in Seq(Pieces)
    BY <1>2, EntryFacts
  <2> QED
    BY <2>1, TextFacts, EntryFacts
<1>w. whole(known[n]) \in Entry /\ whole(known[n]).kind # "link"
  <2>1. known[n] \in Entry /\ known["server"] \in Entry
    BY <1>1
  <2>2. known[n].text \in Seq(Pieces) /\ known["server"].text \in Seq(Pieces)
    BY <2>1, EntryFacts
  <2> QED
    BY <2>2, TextFacts, EntryFacts
<1>4. CASE Refuse(Opens(n)) /\ Concludes(n, Lost)
  BY <1>1, <1>4, UnknownKeeps DEF Refuse, Concludes, Lost
<1>5. CASE received(remote) /\ Concludes(n, whole) /\ UNCHANGED <<silent, open, remote>>
  <2> DEFINE c == whole(known[n])
             e == Text(Over(There(t).text, remote))
  <2>1. e \in Entry \ {Unknown}
    BY <1>1, <1>3
  <2>4. ~astray /\ ~silent' /\ known[n] # Unknown => c \in {Unknown, e}
    <3> SUFFICES ASSUME ~astray, ~silent, known[n] # Unknown PROVE c \in {Unknown, e}
      BY <1>5
    <3>1. known[n] = There(n) /\ There(n).kind # "link"
      BY <1>1, KnownHere DEF Inv, NoLinkKnown
    <3>2. n = t
      BY <3>1 DEF Target, There
    <3>3. known["server"] \in {Unknown, Text(remote)} /\ Text(remote).text = remote
      BY <1>1, KnownHere, EntryFacts
    <3> QED
      BY <3>1, <3>2, <3>3
  <2>5. known' = IF known[n] = Unknown
                   THEN [m \in DOMAIN known |-> IF m \in Names THEN Unknown ELSE known[m]]
                   ELSE [known EXCEPT ![n] = c]
    BY <1>5 DEF Concludes
  <2>6. Becomes(t, e) /\ UNCHANGED remote /\ silent' \in {silent, TRUE} /\ open' \in 0..Descriptors
    BY <1>1, <1>5
  <2>7. c \in Entry /\ c.kind # "link"
    BY <1>w
  <2> HIDE DEF t, c, e, whole
  <2> QED
    BY <1>1, <1>2, <2>1, <2>4, <2>5, <2>6, <2>7, ConcludedKeeps DEF t
<1>6. CASE /\ \E text \in Beginnings(remote) : received(text)
           /\ Concludes(n, Lost)
           /\ UNCHANGED <<silent, open, remote>>
  <2>1. PICK text \in Beginnings(remote) : received(text)
    BY <1>6
  <2> DEFINE e == Text(Over(There(t).text, text))
  <2>2. e \in Entry \ {Unknown} /\ Unknown.kind # "link"
    BY <1>1, <1>3, TextFacts, EntryFacts
  <2>3. known' = IF known[n] = Unknown
                   THEN [m \in DOMAIN known |-> IF m \in Names THEN Unknown ELSE known[m]]
                   ELSE [known EXCEPT ![n] = Unknown]
    BY <1>6 DEF Concludes, Lost
  <2>4. /\ Becomes(t, e) /\ UNCHANGED remote /\ silent' \in {silent, TRUE}
        /\ Unknown \in Entry /\ open' \in 0..Descriptors
    BY <1>1, <1>6, <2>1, EntryFacts
  <2> HIDE DEF t, e
  <2> QED
    BY <1>1, <1>2, <2>2, <2>3, <2>4, ConcludedKeeps DEF t
<1>7. CASE /\ \E text \in Beginnings(remote) : received(text)
           /\ Concludes(n, whole)
           /\ silent' = TRUE
           /\ UNCHANGED <<open, remote>>
  <2>1. PICK text \in Beginnings(remote) : received(text)
    BY <1>7
  <2> DEFINE c == whole(known[n])
             e == Text(Over(There(t).text, text))
  <2>2. e \in Entry \ {Unknown}
    BY <1>1, <1>3, TextFacts
  <2>4. c \in Entry /\ c.kind # "link"
    BY <1>w
  <2>5. known' = IF known[n] = Unknown
                   THEN [m \in DOMAIN known |-> IF m \in Names THEN Unknown ELSE known[m]]
                   ELSE [known EXCEPT ![n] = c]
    BY <1>7 DEF Concludes
  <2>6. Becomes(t, e) /\ UNCHANGED remote /\ silent' = TRUE /\ open' \in 0..Descriptors
    BY <1>1, <1>7, <2>1
  <2> HIDE DEF t, c, e, whole
  <2> QED
    BY <1>1, <1>2, <2>2, <2>4, <2>5, <2>6, ConcludedKeeps DEF t
<1> QED
  BY <1>4, <1>5, <1>6, <1>7 DEF FtpGetFile

\* ftp_putfile: whatever the server has got, a client does not know of it.
LEMMA FtpPutFileKeeps ==
  ASSUME Inv, NEW n \in Names, FtpPutFile(n) PROVE FilesOK' /\ AnswersTrue'
<1> DEFINE t == Target(files[here], n)
           entry == There(t)
<1>1. /\ pc = "idle" /\ UNCHANGED astray
      /\ files \in [Dirs -> [Names -> Entry \ {Unknown}]]
      /\ files[here] \in [Names -> Entry \ {Unknown}]
      /\ known \in [Names \cup {"server"} -> Entry] /\ "server" \notin Names
      /\ silent \in BOOLEAN /\ open \in 0..Descriptors
      /\ remote \in Seq(Pieces)
      /\ known' = [known EXCEPT !["server"] = Unknown]
      /\ UNCHANGED <<files, silent, open>>
  BY FileHandlersAssumption DEF FtpPutFile, Refuse, Handle, Told, Inv, HandlersTypeOK, TypeOK
<1>2. t \in Names /\ entry \in Entry \ {Unknown} /\ entry.text \in Seq(Pieces)
  <2>1. t \in Names /\ entry \in Entry \ {Unknown}
    BY <1>1, TargetIsName DEF There
  <2> QED
    BY <2>1, EntryFacts
<1>3. remote' = entry.text \/ remote' \in Beginnings(entry.text) \cup {remote}
  BY DEF FtpPutFile, Refuse
<1>4. remote' \in Seq(Pieces)
  BY <1>1, <1>2, <1>3, TextFacts
<1>5. known' \in [Names \cup {"server"} -> Entry] /\ NoLinkKnown'
  BY <1>1, EntryFacts DEF Inv, NoLinkKnown
<1>6. FilesOK'
  BY <1>1, <1>4, <1>5 DEF FilesOK
<1>7. AnswersTrue'
  BY <1>1 DEF AnswersTrue, Inv
<1> QED
  BY <1>6, <1>7

-----------------------------------------------------------------------------
(* The invariant holds                                                     *)

\* The handlers of files keep the types of files and the truth of the answers, and
\* execute changes neither.
LEMMA FilesPreserved ==
  Inv /\ [Next]_vars => FilesOK' /\ AnswersTrue'
<1> SUFFICES ASSUME Inv, [Next]_vars PROVE FilesOK' /\ AnswersTrue'
  OBVIOUS
<1>1. CASE ExecuteNext \/ UNCHANGED vars
  <2>1. UNCHANGED fileVars
    BY <1>1, ExecuteKeepsFiles
  <2>2. astray => astray'
    BY <1>1 DEF ExecuteNext, AgentStep, ChildStep, Call, ChangeDirectory, Popen, Wait3,
       ReadOutput, Pclose, SystemForks, SystemReturns, GoBack, ChildWrites, ChildExits, vars
  <2> QED
    BY <2>1, <2>2 DEF Inv, HandlersTypeOK, FilesOK, AnswersTrue, NoLinkKnown, fileVars
<1>2. CASE FileNext
  <2>1. /\ Nothing \in Entry \ {Unknown} /\ Directory \in Entry \ {Unknown}
        /\ Nothing.kind # "link" /\ Directory.kind # "link"
    BY EntryFacts
  <2>2. PICK n \in Names :
          \/ CreateFile(n)
          \/ RemoveFile(n)
          \/ RemoveDir(n)
          \/ MakeDir(n)
          \/ \E m \in Names : MakeLink(n, m) \/ Move(n, m)
          \/ \E mode \in {"w", "a", "none"}, piece \in Pieces : WriteFile(n, mode, piece)
          \/ FtpGetFile(n)
          \/ FtpPutFile(n)
    BY <1>2 DEF FileNext
  <2>3. CASE CreateFile(n)
    BY <2>3, CreateFileKeeps
  <2>4. CASE RemoveFile(n)
    BY <2>1, <2>4, OneEntryKeeps DEF RemoveFile
  <2>5. CASE RemoveDir(n)
    BY <2>1, <2>5, OneEntryKeeps DEF RemoveDir
  <2>6. CASE MakeDir(n)
    BY <2>1, <2>6, OneEntryKeeps DEF MakeDir
  <2>7. CASE \E m \in Names : MakeLink(n, m) \/ Move(n, m)
    <3>1. PICK m \in Names : MakeLink(n, m) \/ Move(n, m)
      BY <2>7
    <3>2. CASE MakeLink(n, m)
      BY <3>2, MakeLinkKeeps
    <3>3. CASE Move(n, m)
      BY <3>3, MoveKeeps
    <3> QED
      BY <3>1, <3>2, <3>3
  <2>8. CASE \E mode \in {"w", "a", "none"}, piece \in Pieces : WriteFile(n, mode, piece)
    BY <2>8, WriteFileKeeps
  <2>9. CASE FtpGetFile(n)
    BY <2>9, FtpGetFileKeeps
  <2>10. CASE FtpPutFile(n)
    BY <2>10, FtpPutFileKeeps
  <2> QED
    BY <2>2, <2>3, <2>4, <2>5, <2>6, <2>7, <2>8, <2>9, <2>10
<1> QED
  BY <1>1, <1>2 DEF Next

\* The agent starts at home, between two commands, and with nothing in the files.
LEMMA InitInv == Init => Inv
<1> SUFFICES ASSUME Init PROVE Inv
  OBVIOUS
<1>1. ExecuteInit /\ cmd \in Command /\ ~cmd.returnoutput
  BY ExecuteAssumption DEF Init, ExecuteInit
<1>2. TypeOK /\ ChildShape /\ PipeShape /\ PlaceShape
  <2> USE <1>1, ExecuteAssumption DEF ExecuteInit
  <2>1. TypeOK
    <3>1. pipe \in 0..Capacity /\ count \in 0..MaxCommands
      OBVIOUS
    <3>2. cmd \in Command /\ unwritten \in Nat /\ added \in Nat /\ code = -1
      OBVIOUS
    <3>5. steep \in BOOLEAN
      OBVIOUS
    <3>3. here = "home" /\ cwd = "home" /\ ranIn = "home" /\ pc = "idle"
      OBVIOUS
    <3>4. errors = {} /\ astray = FALSE /\ ptr = "NULL" /\ child = "none"
      OBVIOUS
    <3> HIDE DEF ExecuteInit
    <3> QED
      BY <3>1, <3>2, <3>3, <3>4, <3>5 DEF TypeOK, Dirs
  <2>2. ChildShape /\ PipeShape
    BY DEF ChildShape, PipeShape
  <2>3. PlaceShape
    BY DEF PlaceShape
  <2> QED
    BY <2>1, <2>2, <2>3
<1>3. /\ remote \in Seq(Pieces) /\ Nothing \in Entry \ {Unknown} /\ "server" \notin Names
      /\ Text(remote) \in Entry
  <2>1. PICK p \in Pieces : remote = <<p>>
    BY DEF Init
  <2>2. remote \in Seq(Pieces)
    BY <2>1
  <2> QED
    BY <2>2, EntryFacts, FileHandlersAssumption
<1>4. /\ files = [d \in Dirs |-> [n \in Names |-> Nothing]]
      /\ known = [n \in Names \cup {"server"} |-> IF n \in Names THEN Nothing ELSE Text(remote)]
      /\ silent = FALSE /\ open = 0
  BY DEF Init
<1>5. /\ files \in [Dirs -> [Names -> Entry \ {Unknown}]]
      /\ known \in [Names \cup {"server"} -> Entry]
      /\ open \in 0..Descriptors
  BY <1>3, <1>4, ExecuteAssumption
<1>6. AnswersTrue /\ NoLinkKnown
  BY <1>3, <1>4, EntryFacts DEF AnswersTrue, NoLinkKnown, Dirs
<1> QED
  BY <1>2, <1>3, <1>4, <1>5, <1>6 DEF Inv, HandlersTypeOK

\* The invariant holds in every state.
LEMMA InvHolds == Spec => []Inv
<1>1. Inv /\ [Next]_vars => Inv'
  BY ExecuteTypePreserved, ChildPreserved, PipePreserved, PlacePreserved, FilesPreserved
     DEF Inv, HandlersTypeOK, FilesOK
<1> QED
  BY InitInv, <1>1, PTL DEF Spec

-----------------------------------------------------------------------------
(* The properties                                                          *)

\* The variables of execute and of the handlers of files keep their types; no
\* handler opens more files than the agent may have open.
THEOREM TypeCorrect == Spec => []HandlersTypeOK
<1>1. Inv => HandlersTypeOK
  BY DEF Inv
<1> QED
  BY <1>1, InvHolds, PTL

\* A command runs in the directory it asked for, or an error says that there is
\* none, or an earlier one said that the agent is lost.
THEOREM RunWhereAskedHolds == Spec => []RunWhereAsked
<1>1. Inv => RunWhereAsked
  BY DEF Inv, PlaceShape, RunWhereAsked
<1> QED
  BY <1>1, InvHolds, PTL

\* What the command printed is in the answer, however much it is, or an error is; only
\* a line longer than all that was printed before it is cut off without one, and then
\* there is something in the answer all the same.
THEOREM OutputOrErrorHolds == Spec => []OutputOrError
<1>1. Inv => OutputOrError
  BY DEF Inv, PipeShape, OutputOrError
<1> QED
  BY <1>1, InvHolds, PTL

\* What a client concludes from its requests and from +OK+ and +NOK+, which is all that
\* is sent of their outcome, is on the disk and on the server, for any texts and any
\* sequence of handlers and commands, but for the two cases AnswersTrue names.
THEOREM AnswersTrueHolds == Spec => []AnswersTrue
<1>1. Inv => AnswersTrue
  BY DEF Inv
<1> QED
  BY <1>1, InvHolds, PTL
=============================================================================
