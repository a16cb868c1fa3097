---------------------------- MODULE Servlet_proofs ----------------------------
(***************************************************************************)
(* Proofs about the sessions of the agent, for every set of scripts and    *)
(* handlers and any number of clients: the variables keep their types, no  *)
(* client gets a text that another session or a job left in the shared     *)
(* buffers, and the agent implements ScriptService.                        *)
(***************************************************************************)
EXTENDS Servlet, FiniteSetTheorems, SequenceTheorems, TLAPS

-----------------------------------------------------------------------------
(* The inductive invariant                                                 *)

\* No text of any session is kept.
BuffersEmpty == buffererr = 0 /\ errors = NULL /\ output = NULL

\* Where the buffers are empty: from the clear_output of one session to the
\* buffer_errors(1) of the next.
Quiet == {"idle", "handshake", "read", "parse", "done", "down"}

\* The buffers hold texts of this session only, and an error is kept for a
\* document of the wrong type.
OwnBuffers ==
  /\ pc \in Quiet => BuffersEmpty
  /\ errors \in {NULL, session}
  /\ output # NULL => output.from \subseteq {session}
  /\ pc \in {"commands", "handler"} => document = "script"
  /\ pc \in {"status", "text"} /\ document # "script" => errors = session

\* What has reached the client.
OwnWire == \A k \in DOMAIN wire : wire[k].from \subseteq {session}

Running == pc = "handler" => calls > 0

Inv == TypeOK /\ Running /\ OwnBuffers /\ OwnWire

-----------------------------------------------------------------------------
(* Every step preserves the inductive invariant                            *)

\* The number of handlers of a name.
LEMMA CalledType == ASSUME NEW name PROVE Called(name) \in Nat
<1>1. IsFiniteSet({k \in DOMAIN Handlers : Handlers[k] = name})
  <2>1. DOMAIN Handlers = 1..Len(Handlers) /\ Len(Handlers) \in Nat
    BY ServletAssumption, LenProperties
  <2>2. IsFiniteSet(DOMAIN Handlers)
    BY <2>1, FS_Interval
  <2> QED
    BY <2>2, FS_Subset
<1> QED
  BY <1>1, FS_CardinalityType DEF Called

\* A line of the servlet's own, and the output and error lines of OwnBuffers,
\* are lines of this session.
LEMMA LineTypes ==
  ASSUME Inv
  PROVE  /\ StatusLine \in Line /\ StatusLine.from = {}
         /\ \A text \in {"+DONE+", "notparsed"} :
              Plain(text) \in Line /\ Plain(text).from = {}
         /\ output # NULL => OutputLine \in Line /\ OutputLine.from \subseteq {session}
         /\ errors # NULL => ErrorLine \in Line /\ ErrorLine.from = {session}
<1> USE DEF Inv, Line, Plain
<1>1. StatusLine \in Line /\ StatusLine.from = {}
  BY DEF StatusLine
<1>2. output # NULL => OutputLine \in Line /\ OutputLine.from \subseteq {session}
  BY DEF OutputLine, TypeOK, LogType, OwnBuffers
<1>3. errors # NULL => ErrorLine \in Line /\ ErrorLine.from = {session}
  BY DEF ErrorLine, TypeOK, OwnBuffers
<1> QED
  BY <1>1, <1>2, <1>3

\* What ssl_send does to the wire, the link and the error buffer.
LEMMA SslSendKeeps ==
  ASSUME Inv, NEW line \in Line, line.from \subseteq {session}, SslSend(line)
  PROVE  /\ wire' \in Seq(Line)
         /\ \A k \in DOMAIN wire' : wire'[k].from \subseteq {session}
         /\ link' \in {"up", "dead"}
         /\ errors' \in {errors, session}
         /\ buffererr = 0 => errors' = errors
<1>1. wire' = wire \/ wire' = Append(wire, line)
  BY DEF SslSend
<1>2. wire \in Seq(Line)
  BY DEF Inv, TypeOK
<1>3. \A k \in DOMAIN Append(wire, line) : Append(wire, line)[k].from \subseteq {session}
  BY <1>2, AppendProperties, LenProperties DEF Inv, OwnWire
<1>4. wire' \in Seq(Line)
  BY <1>1, <1>2, AppendProperties
<1>5. \A k \in DOMAIN wire' : wire'[k].from \subseteq {session}
  BY <1>1, <1>3 DEF Inv, OwnWire
<1>6. /\ link' \in {"up", "dead"}
      /\ errors' \in {errors, session}
      /\ buffererr = 0 => errors' = errors
  BY DEF SslSend, LogError, Inv, TypeOK
<1> QED
  BY <1>4, <1>5, <1>6

\* One of the four sending steps.
SendStep == SendStatus \/ SendText \/ SendOutput \/ SendDone

\* Whatever is sent is of this session, and an error that is logged on the way
\* is one of this session.
LEMMA SendKeeps ==
  ASSUME Inv, SendStep
  PROVE  /\ wire' \in Seq(Line)
         /\ \A k \in DOMAIN wire' : wire'[k].from \subseteq {session}
         /\ link' \in {"up", "dead"}
         /\ errors' \in {errors, session}
         /\ buffererr = 0 => errors' = errors
<1>1. CASE SendStatus
  BY <1>1, LineTypes, SslSendKeeps DEF SendStatus
<1>2. CASE SendNothing
  BY <1>2 DEF SendNothing, Inv, TypeOK, OwnWire
<1>3. CASE SendText /\ ~SendNothing
  <2>1. PICK line \in {Plain("notparsed"), ErrorLine, OutputLine} :
          /\ SslSend(line)
          /\ line = ErrorLine => errors # NULL
          /\ line = OutputLine => output # NULL
    <3>1. CASE document = "malformed"
      BY <1>3, <3>1 DEF SendText, Inv, OwnBuffers, Plain, ErrorLine, OutputLine
    <3>2. CASE document = "wrong"
      <4>1. errors # NULL
        BY <1>3, <3>2, ServletAssumption DEF SendText, Inv, TypeOK, Who, OwnBuffers
      <4> QED
        BY <1>3, <3>2, <4>1 DEF SendText, ErrorLine, OutputLine
    <3>3. CASE document = "script"
      BY <1>3, <3>3 DEF SendText, ErrorLine, OutputLine
    <3> QED
      BY <3>1, <3>2, <3>3 DEF Inv, TypeOK, Documents
  <2>2. line \in Line /\ line.from \subseteq {session}
    BY <2>1, LineTypes
  <2> QED
    BY <2>1, <2>2, SslSendKeeps
<1>4. CASE SendOutput /\ ~SendNothing
  BY <1>4, LineTypes, SslSendKeeps DEF SendOutput
<1>5. CASE SendDone
  BY <1>5, LineTypes, SslSendKeeps DEF SendDone
<1> QED
  BY <1>1, <1>2, <1>3, <1>4, <1>5 DEF SendStep

\* Every step keeps the types.
LEMMA TypePreserved ==
  Inv /\ [Next]_vars => TypeOK'
<1> SUFFICES ASSUME Inv, [Next]_vars PROVE TypeOK'
  OBVIOUS
<1> USE ServletAssumption DEF Inv, TypeOK, LogType, Running, Who, Documents,
    Answering, Interpreting, logVars, scriptVars
<1>1. CASE Accept
  <2>1. <<>> \in Seq(Names) /\ <<>> \in Seq(Line)
    BY EmptySeq
  <2>2. session' \in 0..MaxSessions
    BY <1>1 DEF Accept
  <2> QED
    BY <1>1, <2>1, <2>2 DEF Accept
<1>2. CASE HandshakeFails
  BY <1>2 DEF HandshakeFails, LogError
<1>3. CASE HandshakeDone
  BY <1>3 DEF HandshakeDone
<1>4. CASE ClientSaysDone
  BY <1>4 DEF ClientSaysDone
<1>5. CASE ReadDocument
  BY <1>5, EmptySeq DEF ReadDocument
<1>6. CASE ReadFails
  BY <1>6, EmptySeq DEF ReadFails, LogError
<1>7. CASE ParseDocument
  BY <1>7 DEF ParseDocument
<1>8. CASE UnknownCommand
  BY <1>8, HeadTailProperties DEF UnknownCommand, LogError
<1>9. CASE SkipText
  BY <1>9, HeadTailProperties DEF SkipText
<1>10. CASE CallHandler
  BY <1>10, CalledType, HeadTailProperties DEF CallHandler
<1>11. CASE HandlerPrints
  <2>1. PICK size \in Sizes : AddOutput(session, size)
    BY <1>11 DEF HandlerPrints
  <2>2. size \in Nat /\ OutputSize \in Nat
    BY DEF OutputSize
  <2>3. output' \in [from : SUBSET (0..MaxSessions), size : Nat, whole : BOOLEAN]
    BY <2>1, <2>2 DEF AddOutput, Shorter
  <2> QED
    BY <1>11, <2>3 DEF HandlerPrints
<1>12. CASE HandlerLogsError
  BY <1>12 DEF HandlerLogsError, LogError
<1>13. CASE HandlerReturns
  BY <1>13 DEF HandlerReturns
<1>14. CASE ScriptDone
  BY <1>14 DEF ScriptDone
<1>15. CASE SendStatus
  <2>1. wire' \in Seq(Line) /\ link' \in {"up", "dead"} /\ errors' \in {errors, session}
    BY <1>15, SendKeeps DEF SendStep, Inv, TypeOK
  <2> QED
    BY <1>15, <2>1 DEF SendStatus
<1>16. CASE SendText
  <2>1. wire' \in Seq(Line) /\ link' \in {"up", "dead"} /\ errors' \in {errors, session}
    BY <1>16, SendKeeps DEF SendStep, Inv, TypeOK
  <2> QED
    BY <1>16, <2>1 DEF SendText
<1>17. CASE SendOutput
  <2>1. wire' \in Seq(Line) /\ link' \in {"up", "dead"} /\ errors' \in {errors, session}
    BY <1>17, SendKeeps DEF SendStep, Inv, TypeOK
  <2> QED
    BY <1>17, <2>1 DEF SendOutput
<1>18. CASE ClearBuffers
  BY <1>18 DEF ClearBuffers, StopBuffering, ClearOutput
<1>19. CASE SendDone
  <2>1. wire' \in Seq(Line) /\ link' \in {"up", "dead"} /\ errors' \in {errors, session}
    BY <1>19, SendKeeps DEF SendStep, Inv, TypeOK
  <2> QED
    BY <1>19, <2>1 DEF SendDone
<1>20. CASE JobLogsError
  BY <1>20 DEF JobLogsError, LogError
<1>21. CASE Die
  BY <1>21 DEF Die
<1>22. CASE Restart
  BY <1>22 DEF Restart
<1>23. CASE UNCHANGED vars
  BY <1>23 DEF vars, logVars, scriptVars
<1> QED
  BY <1>1, <1>2, <1>3, <1>4, <1>5, <1>6, <1>7, <1>8, <1>9, <1>10, <1>11,
     <1>12, <1>13, <1>14, <1>15, <1>16, <1>17, <1>18, <1>19, <1>20, <1>21,
     <1>22, <1>23
     DEF Next, Read, Interpret, Reply

\* call_handler is left when the last handler of the name has returned.
LEMMA RunningPreserved ==
  Inv /\ [Next]_vars => Running'
<1> SUFFICES ASSUME Inv, [Next]_vars PROVE Running'
  OBVIOUS
<1> USE DEF Inv, TypeOK, Running, logVars, scriptVars
<1>1. CASE Accept
  BY <1>1 DEF Accept
<1>2. CASE HandshakeFails
  BY <1>2 DEF HandshakeFails, LogError
<1>3. CASE HandshakeDone
  BY <1>3 DEF HandshakeDone
<1>4. CASE ClientSaysDone
  BY <1>4 DEF ClientSaysDone
<1>5. CASE ReadDocument
  BY <1>5 DEF ReadDocument
<1>6. CASE ReadFails
  BY <1>6 DEF ReadFails, LogError
<1>7. CASE ParseDocument
  BY <1>7 DEF ParseDocument
<1>8. CASE UnknownCommand
  BY <1>8 DEF UnknownCommand, LogError
<1>9. CASE SkipText
  BY <1>9 DEF SkipText
<1>10. CASE CallHandler
  BY <1>10, CalledType DEF CallHandler
<1>11. CASE HandlerPrints
  BY <1>11 DEF HandlerPrints, AddOutput
<1>12. CASE HandlerLogsError
  BY <1>12 DEF HandlerLogsError, LogError
<1>13. CASE HandlerReturns
  BY <1>13 DEF HandlerReturns
<1>14. CASE ScriptDone
  BY <1>14 DEF ScriptDone
<1>15. CASE SendStatus
  BY <1>15 DEF SendStatus, SslSend, LogError
<1>16. CASE SendText
  BY <1>16 DEF SendText, SslSend, SendNothing, LogError
<1>17. CASE SendOutput
  BY <1>17 DEF SendOutput, SslSend, SendNothing, LogError
<1>18. CASE ClearBuffers
  BY <1>18 DEF ClearBuffers, StopBuffering, ClearOutput
<1>19. CASE SendDone
  BY <1>19 DEF SendDone, SslSend, LogError
<1>20. CASE JobLogsError
  BY <1>20 DEF JobLogsError, LogError
<1>21. CASE Die
  BY <1>21 DEF Die
<1>22. CASE Restart
  BY <1>22 DEF Restart
<1>23. CASE UNCHANGED vars
  BY <1>23 DEF vars, logVars, scriptVars
<1> QED
  BY <1>1, <1>2, <1>3, <1>4, <1>5, <1>6, <1>7, <1>8, <1>9, <1>10, <1>11,
     <1>12, <1>13, <1>14, <1>15, <1>16, <1>17, <1>18, <1>19, <1>20, <1>21,
     <1>22, <1>23
     DEF Next, Read, Interpret, Reply

\* Only the session that fills the buffers reads them.
LEMMA BuffersPreserved ==
  Inv /\ [Next]_vars => OwnBuffers'
<1> SUFFICES ASSUME Inv, [Next]_vars PROVE OwnBuffers'
  OBVIOUS
<1> USE DEF Inv, OwnBuffers, Quiet, BuffersEmpty, logVars, scriptVars
<1>1. CASE Accept
  BY <1>1 DEF Accept
<1>2. CASE HandshakeFails
  BY <1>2 DEF HandshakeFails, LogError
<1>3. CASE HandshakeDone
  BY <1>3 DEF HandshakeDone
<1>4. CASE ClientSaysDone
  BY <1>4 DEF ClientSaysDone
<1>5. CASE ReadDocument
  BY <1>5 DEF ReadDocument
<1>6. CASE ReadFails
  BY <1>6 DEF ReadFails, LogError
<1>7. CASE ParseDocument
  BY <1>7 DEF ParseDocument
<1>8. CASE UnknownCommand
  BY <1>8 DEF UnknownCommand, LogError
<1>9. CASE SkipText
  BY <1>9 DEF SkipText
<1>10. CASE CallHandler
  BY <1>10 DEF CallHandler
<1>11. CASE HandlerPrints
  <2>1. output # NULL => output.from \cup {session} \subseteq {session}
    OBVIOUS
  <2> QED
    BY <1>11, <2>1 DEF HandlerPrints, AddOutput
<1>12. CASE HandlerLogsError
  BY <1>12 DEF HandlerLogsError, LogError
<1>13. CASE HandlerReturns
  BY <1>13 DEF HandlerReturns
<1>14. CASE ScriptDone
  BY <1>14 DEF ScriptDone
<1>15. CASE SendStatus
  <2>1. errors' \in {errors, session} /\ (buffererr = 0 => errors' = errors)
    BY <1>15, SendKeeps DEF SendStep
  <2> QED
    BY <1>15, <2>1 DEF SendStatus
<1>16. CASE SendText
  <2>1. errors' \in {errors, session} /\ (buffererr = 0 => errors' = errors)
    BY <1>16, SendKeeps DEF SendStep
  <2> QED
    BY <1>16, <2>1 DEF SendText
<1>17. CASE SendOutput
  <2>1. errors' \in {errors, session} /\ (buffererr = 0 => errors' = errors)
    BY <1>17, SendKeeps DEF SendStep
  <2> QED
    BY <1>17, <2>1 DEF SendOutput
<1>18. CASE ClearBuffers
  BY <1>18 DEF ClearBuffers, StopBuffering, ClearOutput
<1>19. CASE SendDone
  <2>1. errors' \in {errors, session} /\ (buffererr = 0 => errors' = errors)
    BY <1>19, SendKeeps DEF SendStep
  <2> QED
    BY <1>19, <2>1 DEF SendDone
<1>20. CASE JobLogsError
  BY <1>20 DEF JobLogsError, LogError
<1>21. CASE Die
  BY <1>21 DEF Die
<1>22. CASE Restart
  BY <1>22 DEF Restart
<1>23. CASE UNCHANGED vars
  BY <1>23 DEF vars, logVars, scriptVars
<1> QED
  BY <1>1, <1>2, <1>3, <1>4, <1>5, <1>6, <1>7, <1>8, <1>9, <1>10, <1>11,
     <1>12, <1>13, <1>14, <1>15, <1>16, <1>17, <1>18, <1>19, <1>20, <1>21,
     <1>22, <1>23
     DEF Next, Read, Interpret, Reply

\* Nothing but ssl_send writes to the client.
LEMMA WirePreserved ==
  Inv /\ [Next]_vars => OwnWire'
<1> SUFFICES ASSUME Inv, [Next]_vars PROVE OwnWire'
  OBVIOUS
<1> USE DEF Inv, OwnWire, logVars, scriptVars
<1>1. CASE Accept
  BY <1>1 DEF Accept
<1>2. CASE HandshakeFails
  BY <1>2 DEF HandshakeFails, LogError
<1>3. CASE HandshakeDone
  BY <1>3 DEF HandshakeDone
<1>4. CASE ClientSaysDone
  BY <1>4 DEF ClientSaysDone
<1>5. CASE ReadDocument
  BY <1>5 DEF ReadDocument
<1>6. CASE ReadFails
  BY <1>6 DEF ReadFails, LogError
<1>7. CASE ParseDocument
  BY <1>7 DEF ParseDocument
<1>8. CASE UnknownCommand
  BY <1>8 DEF UnknownCommand, LogError
<1>9. CASE SkipText
  BY <1>9 DEF SkipText
<1>10. CASE CallHandler
  BY <1>10 DEF CallHandler
<1>11. CASE HandlerPrints
  BY <1>11 DEF HandlerPrints, AddOutput
<1>12. CASE HandlerLogsError
  BY <1>12 DEF HandlerLogsError, LogError
<1>13. CASE HandlerReturns
  BY <1>13 DEF HandlerReturns
<1>14. CASE ScriptDone
  BY <1>14 DEF ScriptDone
<1>15. CASE SendStatus
  BY <1>15, SendKeeps DEF SendStep, SendStatus
<1>16. CASE SendText
  BY <1>16, SendKeeps DEF SendStep, SendText
<1>17. CASE SendOutput
  BY <1>17, SendKeeps DEF SendStep, SendOutput
<1>18. CASE ClearBuffers
  BY <1>18 DEF ClearBuffers, StopBuffering, ClearOutput
<1>19. CASE SendDone
  BY <1>19, SendKeeps DEF SendStep, SendDone
<1>20. CASE JobLogsError
  BY <1>20 DEF JobLogsError, LogError
<1>21. CASE Die
  BY <1>21 DEF Die
<1>22. CASE Restart
  BY <1>22 DEF Restart
<1>23. CASE UNCHANGED vars
  BY <1>23 DEF vars, logVars, scriptVars
<1> QED
  BY <1>1, <1>2, <1>3, <1>4, <1>5, <1>6, <1>7, <1>8, <1>9, <1>10, <1>11,
     <1>12, <1>13, <1>14, <1>15, <1>16, <1>17, <1>18, <1>19, <1>20, <1>21,
     <1>22, <1>23
     DEF Next, Read, Interpret, Reply

\* The agent starts with empty buffers and without a client.
LEMMA InitInv == Init => Inv
<1> SUFFICES ASSUME Init PROVE Inv
  OBVIOUS
<1>1. TypeOK
  <2>1. <<>> \in Seq(Names) /\ <<>> \in Seq(Line)
    BY EmptySeq
  <2>2. 0 \in 0..MaxSessions /\ 0 \in 0..MaxDeaths
    BY ServletAssumption
  <2>3. LogType(Who)
    BY DEF Init, LogInit, LogType
  <2> QED
    BY <2>1, <2>2, <2>3 DEF Init, TypeOK, Who, Documents
<1>2. Running /\ OwnBuffers
  BY DEF Init, LogInit, Running, OwnBuffers, BuffersEmpty
<1>3. OwnWire
  BY EmptySeq DEF Init, OwnWire
<1> QED
  BY <1>1, <1>2, <1>3 DEF Inv

\* The inductive invariant holds in every reachable state.
THEOREM InvHolds == Spec => []Inv
<1>1. Inv /\ [Next]_vars => Inv'
  BY TypePreserved, RunningPreserved, BuffersPreserved, WirePreserved DEF Inv
<1> QED
  BY <1>1, InitInv, PTL DEF Spec

-----------------------------------------------------------------------------
(* Type correctness and the texts a client gets                            *)

\* Every variable keeps its type.
THEOREM TypeCorrect == Spec => []TypeOK
<1>1. Inv => TypeOK
  BY DEF Inv
<1> QED
  BY <1>1, InvHolds, PTL

\* A client gets texts of its own session only, and the buffers are empty when
\* its document is read.
THEOREM OwnTextOnlyHolds == Spec => []OwnTextOnly
<1>1. Inv => OwnTextOnly
  BY DEF Inv, OwnBuffers, OwnWire, OwnTextOnly, Quiet, BuffersEmpty
<1> QED
  BY <1>1, InvHolds, PTL

-----------------------------------------------------------------------------
(* The service                                                             *)

Before == {"handshake", "read", "parse"}
Working == {"commands", "handler", "status"}
Replying == {"text", "output", "clear", "done"}

Status == IF failed THEN "+NOK+" ELSE "+OK+"

\* Until the status is sent nothing has been sent, and the error buffer says
\* what went wrong; after it the first line on a live link is that status, and
\* only the last line is +DONE+.
AnswerShape ==
  /\ pc \in Before \cup Working \cup Replying => session # 0
  /\ session = 0 => wire = <<>>
  /\ pc = "down" => link = "dead"
  /\ pc \in Before \cup Working => wire = <<>> /\ link = "up"
  /\ pc \in Before => ~failed
  /\ pc \in Working => buffererr = 1 /\ (failed <=> errors # NULL)
  /\ pc \in Replying /\ link = "up" => wire # <<>> /\ wire[1].text = Status
  /\ pc \in Replying => \A k \in DOMAIN wire : wire[k].text # "+DONE+"
  /\ Answered => wire[1].text = Status

\* What a send appends stands at the end; the first line stays the first.
LEMMA AppendLine ==
  ASSUME wire \in Seq(Line), NEW line \in Line, wire' = Append(wire, line)
  PROVE  /\ wire' # <<>>
         /\ wire'[Len(wire')] = line
         /\ wire # <<>> => wire'[1] = wire[1]
         /\ wire = <<>> => wire'[1] = line
         /\ \A k \in DOMAIN wire' : \/ k \in DOMAIN wire /\ wire'[k] = wire[k]
                                  \/ wire'[k] = line
         /\ Last(wire') = line
<1>1. /\ Len(wire) \in Nat
      /\ Len(wire') = Len(wire) + 1
      /\ DOMAIN wire = 1..Len(wire)
      /\ DOMAIN wire' = 1..(Len(wire) + 1)
      /\ \A k \in 1..Len(wire) : wire'[k] = wire[k]
      /\ wire'[Len(wire) + 1] = line
  BY AppendProperties, LenProperties
<1>2. wire = <<>> <=> Len(wire) = 0
  BY EmptySeq, LenProperties
<1> QED
  BY <1>1, <1>2, EmptySeq DEF Last

\* Before +DONE+ is sent the client is not answered.
LEMMA NotYetAnswered ==
  Inv /\ AnswerShape /\ pc \in Before \cup Working \cup Replying => ~Answered
<1> SUFFICES ASSUME Inv, AnswerShape, pc \in Before \cup Working \cup Replying, Answered
             PROVE FALSE
  OBVIOUS
<1>1. wire # <<>> /\ wire[Len(wire)].text = "+DONE+"
  BY DEF Answered, Last
<1>2. Len(wire) \in DOMAIN wire
  BY <1>1, EmptySeq, LenProperties DEF Inv, TypeOK
<1> QED
  BY <1>1, <1>2, EmptySeq DEF AnswerShape

\* The lines between the status and +DONE+.
LEMMA MiddleLine ==
  ASSUME Inv, SendText \/ SendOutput
  PROVE  \/ \E line \in Line : SslSend(line) /\ line.text \in {"notparsed", "error", "output"}
         \/ SendNothing
<1>1. Plain("notparsed").text = "notparsed" /\ ErrorLine.text = "error" /\ OutputLine.text = "output"
  BY DEF Plain, ErrorLine, OutputLine
<1>2. CASE SendOutput
  BY <1>1, <1>2, LineTypes DEF SendOutput
<1>3. CASE SendText
  <2>1. CASE document = "malformed"
    BY <1>1, <1>3, <2>1, LineTypes DEF SendText
  <2>2. CASE document = "wrong"
    <3>1. errors # NULL
      BY <1>3, <2>2, ServletAssumption DEF SendText, Inv, TypeOK, Who, OwnBuffers
    <3> QED
      BY <1>1, <1>3, <2>2, <3>1, LineTypes DEF SendText
  <2>3. CASE document = "script"
    BY <1>1, <1>3, <2>3, LineTypes DEF SendText
  <2> QED
    BY <2>1, <2>2, <2>3 DEF Inv, TypeOK, Documents
<1> QED
  BY <1>2, <1>3

\* Errors are counted and kept together, and the status is taken in between the
\* last of them and the first line.
LEMMA AnswerPreserved ==
  Inv /\ AnswerShape /\ [Next]_vars => AnswerShape'
<1> SUFFICES ASSUME Inv, AnswerShape, [Next]_vars PROVE AnswerShape'
  OBVIOUS
<1> USE DEF AnswerShape, Before, Working, Replying, Answered, Status, logVars, scriptVars
<1>1. CASE Accept
  <2>1. ~Answered'
    BY <1>1 DEF Accept, Answered
  <2> QED
    BY <1>1, <2>1, EmptySeq, ServletAssumption DEF Accept, Inv, TypeOK, Who
<1>2. CASE HandshakeFails
  BY <1>2 DEF HandshakeFails
<1>3. CASE HandshakeDone
  BY <1>3 DEF HandshakeDone
<1>4. CASE ClientSaysDone
  BY <1>4 DEF ClientSaysDone
<1>5. CASE ReadDocument
  BY <1>5 DEF ReadDocument
<1>6. CASE ReadFails
  BY <1>6 DEF ReadFails
<1>7. CASE ParseDocument
  BY <1>7, ServletAssumption DEF ParseDocument, Inv, TypeOK, Who, OwnBuffers, Quiet,
     BuffersEmpty
<1>8. CASE UnknownCommand
  BY <1>8, ServletAssumption DEF UnknownCommand, LogError, Inv, TypeOK, Who
<1>9. CASE SkipText
  BY <1>9 DEF SkipText
<1>10. CASE CallHandler
  BY <1>10 DEF CallHandler
<1>11. CASE HandlerPrints
  BY <1>11 DEF HandlerPrints, AddOutput
<1>12. CASE HandlerLogsError
  BY <1>12, ServletAssumption DEF HandlerLogsError, LogError, Inv, TypeOK, Who
<1>13. CASE HandlerReturns
  BY <1>13 DEF HandlerReturns
<1>14. CASE ScriptDone
  BY <1>14 DEF ScriptDone
<1>15. CASE SendStatus
  <2>1. StatusLine \in Line /\ StatusLine.text = Status
    BY <1>15, LineTypes DEF SendStatus, StatusLine, Plain, Status, Inv, TypeOK
  <2>2. CASE wire' = wire /\ link' = "dead"
    BY <1>15, <2>2, NotYetAnswered DEF SendStatus, Answered
  <2>3. CASE wire' = Append(wire, StatusLine) /\ link' = link
    <3>1. ~Answered'
      BY <2>1, <2>3, AppendLine DEF Inv, TypeOK, Answered, Status
    <3> QED
      BY <1>15, <2>1, <2>3, <3>1, AppendLine DEF SendStatus, Inv, TypeOK, Status
  <2> QED
    BY <1>15, <2>2, <2>3 DEF SendStatus, SslSend
<1>16. CASE SendText
  <2>1. CASE SendNothing
    BY <1>16, <2>1, NotYetAnswered DEF SendText, SendNothing, Answered
  <2>2. CASE wire' = wire /\ link' = "dead"
    BY <1>16, <2>2, NotYetAnswered DEF SendText, Answered
  <2>3. CASE \E line \in Line : /\ line.text \in {"notparsed", "error", "output"}
                                /\ wire' = Append(wire, line)
                                /\ link' = link
    <3>1. PICK line \in Line : /\ line.text \in {"notparsed", "error", "output"}
                               /\ wire' = Append(wire, line)
                               /\ link' = link
      BY <2>3
    <3>2. ~Answered'
      BY <3>1, AppendLine DEF Inv, TypeOK, Answered
    <3> QED
      BY <1>16, <3>1, <3>2, AppendLine DEF SendText, Inv, TypeOK
  <2> QED
    BY <1>16, <2>1, <2>2, <2>3, MiddleLine DEF SslSend
<1>17. CASE SendOutput
  <2>1. CASE SendNothing
    BY <1>17, <2>1, NotYetAnswered DEF SendOutput, SendNothing, Answered
  <2>2. CASE wire' = wire /\ link' = "dead"
    BY <1>17, <2>2, NotYetAnswered DEF SendOutput, Answered
  <2>3. CASE \E line \in Line : /\ line.text \in {"notparsed", "error", "output"}
                                /\ wire' = Append(wire, line)
                                /\ link' = link
    <3>1. PICK line \in Line : /\ line.text \in {"notparsed", "error", "output"}
                               /\ wire' = Append(wire, line)
                               /\ link' = link
      BY <2>3
    <3>2. ~Answered'
      BY <3>1, AppendLine DEF Inv, TypeOK, Answered
    <3> QED
      BY <1>17, <3>1, <3>2, AppendLine DEF SendOutput, Inv, TypeOK
  <2> QED
    BY <1>17, <2>1, <2>2, <2>3, MiddleLine DEF SslSend
<1>18. CASE ClearBuffers
  BY <1>18 DEF ClearBuffers, StopBuffering, ClearOutput
<1>19. CASE SendDone
  <2>1. CASE wire' = wire /\ link' = "dead"
    BY <1>19, <2>1, NotYetAnswered DEF SendDone, Answered
  <2>2. CASE wire' = Append(wire, Plain("+DONE+")) /\ link' = link /\ link = "up"
    <3>1. Plain("+DONE+") \in Line
      BY LineTypes
    <3> QED
      BY <1>19, <2>2, <3>1, AppendLine DEF SendDone, Inv, TypeOK, Status
  <2> QED
    BY <1>19, <2>1, <2>2 DEF SendDone, SslSend
<1>20. CASE JobLogsError
  BY <1>20 DEF JobLogsError, LogError
<1>21. CASE Die
  BY <1>21 DEF Die
<1>22. CASE Restart
  BY <1>22 DEF Restart
<1>23. CASE UNCHANGED vars
  BY <1>23 DEF vars, logVars, scriptVars
<1> QED
  BY <1>1, <1>2, <1>3, <1>4, <1>5, <1>6, <1>7, <1>8, <1>9, <1>10, <1>11,
     <1>12, <1>13, <1>14, <1>15, <1>16, <1>17, <1>18, <1>19, <1>20, <1>21,
     <1>22, <1>23
     DEF Next, Read, Interpret, Reply

\* The client the service sees, from the control state.
ClientShape ==
  /\ pc \in Before \cup Working => Client = "waiting" /\ Answer = "none"
  /\ pc \in Replying =>
       Client = (IF link = "up" THEN "waiting" ELSE "gone") /\ Answer = "none"
  /\ pc \in {"idle", "down"} =>
       Client # "waiting" /\ Answer = (IF Answered THEN Status ELSE "none")

\* The control state and the wire agree on who the client is.
LEMMA ClientIs == Inv /\ AnswerShape => ClientShape
<1> SUFFICES ASSUME Inv, AnswerShape PROVE ClientShape
  OBVIOUS
<1>1. pc \in Before \cup Working \cup Replying => ~Answered
  BY NotYetAnswered
<1> QED
  BY <1>1 DEF ClientShape, AnswerShape, Before, Working, Replying, Client, Left,
     Answer, Answered, Status, Inv, TypeOK

ServeStep == [Service!Next]_(Service!vars)

\* A step that leaves the client alone is a stutter of the service.
LEMMA NothingServed ==
  ASSUME Client' = Client, failed' = failed, Answer' = Answer
  PROVE  ServeStep
  BY DEF ServeStep, Service!vars

\* A client that leaves without its answer.
LEMMA ClientLeaves ==
  ASSUME Client = "waiting", Client' = "gone", failed' = failed, Answer' = Answer
  PROVE  ServeStep
  BY DEF ServeStep, Service!Next, Service!Leave

\* Something goes wrong with the script of the client that waits.
LEMMA ScriptFails ==
  ASSUME Client = "waiting", Client' = "waiting", failed' = TRUE, Answer' = Answer
  PROVE  ServeStep
  BY DEF ServeStep, Service!Next, Service!Fail

\* Every step of the servlet is a step of the service or a stutter.
LEMMA StepServes ==
  Inv /\ AnswerShape /\ ClientShape /\ ClientShape' /\ [Next]_vars => ServeStep
<1> SUFFICES ASSUME Inv, AnswerShape, ClientShape, ClientShape', [Next]_vars PROVE ServeStep
  OBVIOUS
<1>1. CASE Accept
  <2>1. Client # "waiting" /\ Client' = "waiting" /\ failed' = FALSE /\ Answer' = "none"
    BY <1>1 DEF Accept, ClientShape, Before
  <2> QED
    BY <2>1 DEF ServeStep, Service!Next, Service!Connect
<1>2. CASE HandshakeFails
  <2>1. pc = "handshake" /\ pc' = "idle" /\ UNCHANGED <<wire, failed, session>>
    BY <1>2 DEF HandshakeFails
  <2>2. Client' = "gone" /\ Answer' = "none"
    BY <2>1, NotYetAnswered DEF Client, Left, Answer, Answered, AnswerShape, Before, Working
  <2> QED
    BY <2>1, <2>2, ClientLeaves DEF ClientShape, Before
<1>3. CASE HandshakeDone
  BY <1>3, NothingServed DEF HandshakeDone, ClientShape, Before, Working, Replying
<1>4. CASE ClientSaysDone
  <2>1. pc = "read" /\ pc' = "idle" /\ UNCHANGED <<wire, failed, session>>
    BY <1>4 DEF ClientSaysDone
  <2>2. Client' = "gone" /\ Answer' = "none"
    BY <2>1, NotYetAnswered DEF Client, Left, Answer, Answered, AnswerShape, Before, Working
  <2> QED
    BY <2>1, <2>2, ClientLeaves DEF ClientShape, Before
<1>5. CASE ReadDocument
  BY <1>5, NothingServed DEF ReadDocument, ClientShape, Before, Working, Replying
<1>6. CASE ReadFails
  BY <1>6, NothingServed DEF ReadFails, ClientShape, Before, Working, Replying
<1>7. CASE ParseDocument
  <2>1. CASE document = "script"
    BY <1>7, <2>1, NothingServed DEF ParseDocument, ClientShape, Before, Working
  <2>2. CASE document # "script"
    BY <1>7, <2>2, ScriptFails DEF ParseDocument, ClientShape, Before, Working
  <2> QED
    BY <2>1, <2>2
<1>8. CASE UnknownCommand
  BY <1>8, ScriptFails DEF UnknownCommand, ClientShape, Before, Working
<1>9. CASE SkipText
  BY <1>9, NothingServed DEF SkipText, ClientShape, Before, Working, Replying
<1>10. CASE CallHandler
  BY <1>10, NothingServed DEF CallHandler, ClientShape, Before, Working, Replying
<1>11. CASE HandlerPrints
  BY <1>11, NothingServed DEF HandlerPrints, ClientShape, Before, Working, Replying
<1>12. CASE HandlerLogsError
  BY <1>12, ScriptFails DEF HandlerLogsError, ClientShape, Before, Working
<1>13. CASE HandlerReturns
  BY <1>13, NothingServed DEF HandlerReturns, ClientShape, Before, Working, Replying
<1>14. CASE ScriptDone
  BY <1>14, NothingServed DEF ScriptDone, ClientShape, Before, Working, Replying
<1>15. CASE SendStatus
  <2>1. pc \in {"status"} \cup Replying /\ pc' \in Replying /\ failed' = failed
    BY <1>15 DEF SendStatus, Replying
  <2>2. link' = link \/ link' = "dead"
    BY <1>15 DEF SendStatus, SslSend, SendNothing
  <2>3. CASE Client' = Client
    BY <2>1, <2>3, NothingServed DEF ClientShape, Working, Replying
  <2>4. CASE Client' # Client
    BY <2>1, <2>2, <2>4, ClientLeaves DEF ClientShape, AnswerShape, Working, Replying, Inv, TypeOK
  <2> QED
    BY <2>3, <2>4
<1>16. CASE SendText
  <2>1. pc \in {"status"} \cup Replying /\ pc' \in Replying /\ failed' = failed
    BY <1>16 DEF SendText, Replying
  <2>2. link' = link \/ link' = "dead"
    BY <1>16 DEF SendText, SslSend, SendNothing
  <2>3. CASE Client' = Client
    BY <2>1, <2>3, NothingServed DEF ClientShape, Working, Replying
  <2>4. CASE Client' # Client
    BY <2>1, <2>2, <2>4, ClientLeaves DEF ClientShape, AnswerShape, Working, Replying, Inv, TypeOK
  <2> QED
    BY <2>3, <2>4
<1>17. CASE SendOutput
  <2>1. pc \in {"status"} \cup Replying /\ pc' \in Replying /\ failed' = failed
    BY <1>17 DEF SendOutput, Replying
  <2>2. link' = link \/ link' = "dead"
    BY <1>17 DEF SendOutput, SslSend, SendNothing
  <2>3. CASE Client' = Client
    BY <2>1, <2>3, NothingServed DEF ClientShape, Working, Replying
  <2>4. CASE Client' # Client
    BY <2>1, <2>2, <2>4, ClientLeaves DEF ClientShape, AnswerShape, Working, Replying, Inv, TypeOK
  <2> QED
    BY <2>3, <2>4
<1>18. CASE ClearBuffers
  BY <1>18, NothingServed DEF ClearBuffers, ClientShape, Before, Working, Replying
<1>19. CASE SendDone
  <2>1. pc = "done" /\ pc' = "idle" /\ UNCHANGED <<failed, session>>
    BY <1>19 DEF SendDone
  <2>2. session # 0 /\ ~Answered
    BY <2>1, NotYetAnswered DEF AnswerShape, Replying
  <2>3. CASE link = "up" /\ wire' = Append(wire, Plain("+DONE+"))
    <3>1. Answered'
      <4>1. Plain("+DONE+") \in Line /\ Plain("+DONE+").text = "+DONE+"
        BY LineTypes DEF Plain
      <4> QED
        BY <2>3, <4>1, AppendLine DEF Inv, TypeOK, Answered
    <3>2. Client = "waiting" /\ Client' = "answered" /\ Answer' = Status'
      BY <2>1, <2>2, <2>3, <3>1 DEF ClientShape, Replying, Client, Answer
    <3> QED
      BY <2>1, <3>2 DEF ServeStep, Service!Next, Service!Answer, Status
  <2>4. CASE wire' = wire
    <3>1. Client' = "gone" /\ Answer' = "none" /\ Answer = "none"
      BY <2>1, <2>2, <2>4 DEF Client, Left, Answer, Answered
    <3>2. CASE link = "up"
      BY <2>1, <3>1, <3>2, ClientLeaves DEF ClientShape, Replying
    <3>3. CASE link # "up"
      BY <2>1, <3>1, <3>3, NothingServed DEF ClientShape, Replying
    <3> QED
      BY <3>2, <3>3
  <2> QED
    BY <1>19, <2>3, <2>4 DEF SendDone, SslSend
<1>20. CASE JobLogsError
  <2>1. UNCHANGED <<pc, session, wire, link, failed>>
    BY <1>20 DEF JobLogsError
  <2> QED
    BY <2>1, NothingServed DEF Client, Left, Answer, Answered
<1>21. CASE Die
  <2>1. UNCHANGED <<session, wire, failed>> /\ link' = "dead"
    BY <1>21 DEF Die
  <2>2. Answer' = Answer
    BY <2>1 DEF Answer, Answered
  <2>3. Client' = Client \/ (Client = "waiting" /\ Client' = "gone")
    <3>1. CASE session = 0
      BY <2>1, <3>1 DEF Client
    <3>2. CASE session # 0 /\ Answered
      BY <2>1, <3>2 DEF Client, Answered
    <3>3. CASE session # 0 /\ ~Answered
      <4>1. Client' = "gone"
        BY <2>1, <3>3 DEF Client, Left, Answered
      <4>2. Client \in {"gone", "waiting"}
        BY <3>3 DEF Client
      <4> QED
        BY <4>1, <4>2
    <3> QED
      BY <3>1, <3>2, <3>3
  <2> QED
    BY <2>1, <2>2, <2>3, NothingServed, ClientLeaves
<1>22. CASE Restart
  <2>1. UNCHANGED <<session, wire, link, failed>> /\ link = "dead"
    BY <1>22 DEF Restart, AnswerShape
  <2> QED
    BY <2>1, NothingServed DEF Client, Left, Answer, Answered
<1>23. CASE UNCHANGED vars
  BY <1>23, NothingServed DEF vars, logVars, scriptVars, Client, Left, Answer, Answered
<1> QED
  BY <1>1, <1>2, <1>3, <1>4, <1>5, <1>6, <1>7, <1>8, <1>9, <1>10, <1>11,
     <1>12, <1>13, <1>14, <1>15, <1>16, <1>17, <1>18, <1>19, <1>20, <1>21,
     <1>22, <1>23
     DEF Next, Read, Interpret, Reply

\* Every complete answer says +OK+ exactly when no error was logged for it, for
\* any scripts, handlers, clients and deaths of the agent.
THEOREM ServiceHolds == Spec => ServiceKept
<1>1. Init => AnswerShape
  BY EmptySeq DEF Init, AnswerShape, Answered, Before, Working, Replying
<1>2. Init => Service!Init
  BY EmptySeq DEF Init, Answered, Service!Init, Client, Answer
<1>3. Spec => []AnswerShape
  BY <1>1, AnswerPreserved, InvHolds, PTL DEF Spec
<1>4. Spec => []ClientShape
  BY <1>3, ClientIs, InvHolds, PTL
<1>5. Spec => [][Service!Next]_(Service!vars)
  BY <1>3, <1>4, StepServes, InvHolds, PTL DEF Spec, ServeStep
<1> QED
  BY <1>2, <1>5, PTL DEF Spec, ServiceKept, Service!Spec
=============================================================================
