------------------------------- MODULE Servlet -------------------------------
(***************************************************************************)
(* One client after the other: servlet and ssl_send of network.c, the      *)
(* script interpreter of script.c, the look-up and call of handlers of     *)
(* module.c, over the shared buffers of log.c.  Jobs run between clients   *)
(* and log through the same buffers.  A handler is what its plugin makes   *)
(* of it: any number of llog(LOG_ERR) and add_output calls.                *)
(*                                                                         *)
(* SSL_read and SSL_write are one step each: the client and the network    *)
(* act between them.  pc names the statement that comes next.              *)
(***************************************************************************)
EXTENDS LogBuffers, FiniteSets, Sequences, SequencesExt

CONSTANTS
  Names,        \* names of script nodes and of handlers, as sequences of letters
  Handlers,     \* handlers[]: the names the loaded plugins export, in order
  Scripts,      \* the command names of a script document, in order
  TextName, CommentName,  \* "text" and "comment"
  Sizes,        \* lengths of what a handler prints at a time
  RecordSize,   \* what one SSL_write takes at most (a TLS record)
  MaxSessions,  \* bound: clients served
  MaxOutput,    \* bound: length of the output buffer
  MaxDeaths     \* bound: how many times the agent dies

ASSUME ServletAssumption ==
  /\ Handlers \in Seq(Names)
  /\ Scripts \subseteq Seq(Names)
  /\ Sizes \subseteq Nat
  /\ RecordSize \in Nat
  /\ MaxSessions \in Nat
  /\ MaxOutput \in Nat
  /\ MaxDeaths \in Nat
  /\ NULL \notin Nat
  /\ NULL \notin [from : SUBSET Nat, size : Nat, whole : BOOLEAN]

VARIABLES
  pc,
  session,   \* the number of the client; 0 stands for the jobs
  document,  \* what the client sent: "malformed", "wrong" or "script"
  todo,      \* the nodes of the script that are still to be handled
  calls,     \* the calls of handlers still to be made for the current node
  wire,      \* the lines that reached the client
  link,      \* "up", or "dead" once a write to the client has failed
  failed,    \* ghost: an error was logged while the script was carried out
  deaths     \* how many times the agent died

scriptVars == <<document, todo, calls>>
vars == <<pc, session, document, todo, calls, wire, link, failed, deaths,
          buffererr, errors, output>>

Who == 0..MaxSessions
Documents == {"malformed", "wrong", "script"}
Line == [text : {"+OK+", "+NOK+", "+DONE+", "notparsed", "error", "output"},
         from : SUBSET Who, whole : BOOLEAN]

\* A short text of the servlet's own, and an error message.
Plain(text) == [text |-> text, from |-> {}, whole |-> TRUE]
ErrorLine == [text |-> "error", from |-> {errors}, whole |-> TRUE]

\* SSL_MODE_ENABLE_PARTIAL_WRITE: a long output is cut after one record, line
\* end included, and ssl_send does not send the rest.
OutputLine == [text |-> "output", from |-> output.from,
               whole |-> output.whole /\ output.size <= RecordSize]

Answering == {"status", "text", "output", "clear", "done"}
Interpreting == {"parse", "commands", "handler"}

TypeOK ==
  /\ pc \in {"idle", "handshake", "read", "down"} \cup Interpreting \cup Answering
  /\ session \in Who
  /\ document \in Documents
  /\ todo \in Seq(Names)
  /\ calls \in Nat
  /\ wire \in Seq(Line)
  /\ link \in {"up", "dead"}
  /\ failed \in BOOLEAN
  /\ deaths \in 0..MaxDeaths
  /\ LogType(Who)

Init ==
  /\ pc = "idle"
  /\ session = 0
  /\ document = "malformed"
  /\ todo = <<>>
  /\ calls = 0
  /\ wire = <<>>
  /\ link = "up"
  /\ failed = FALSE
  /\ deaths = 0
  /\ LogInit

-----------------------------------------------------------------------------
(* From the connection to the document                                     *)

Accept ==
  /\ pc = "idle"
  /\ session < MaxSessions
  /\ session' = session + 1
  /\ pc' = "handshake"
  /\ wire' = <<>>
  /\ link' = "up"
  /\ failed' = FALSE
  /\ document' = "malformed"
  /\ todo' = <<>>
  /\ UNCHANGED <<calls, deaths, logVars>>

\* SSL_accept fails, or the certificate is not verified, or there is none.
HandshakeFails ==
  /\ pc = "handshake"
  /\ LogError(session)
  /\ pc' = "idle"
  /\ UNCHANGED <<session, scriptVars, wire, link, failed, deaths, buffererr, output>>

HandshakeDone ==
  /\ pc = "handshake"
  /\ pc' = "read"
  /\ UNCHANGED <<session, scriptVars, wire, link, failed, deaths, logVars>>

\* The client starts with +DONE+: the servlet returns without an answer.
ClientSaysDone ==
  /\ pc = "read"
  /\ pc' = "idle"
  /\ UNCHANGED <<session, scriptVars, wire, link, failed, deaths, logVars>>

\* Every kind of result ends the loop, so a session has one document.
ReadDocument ==
  /\ pc = "read"
  /\ \/ document' \in {"malformed", "wrong"} /\ todo' = <<>>
     \/ document' = "script" /\ todo' \in Scripts
  /\ pc' = "parse"
  /\ UNCHANGED <<session, calls, wire, link, failed, deaths, logVars>>

\* SSL_read fails, which is logged unless the client closed the connection; the
\* empty buffer is parsed all the same.
ReadFails ==
  /\ pc = "read"
  /\ LogError(session) \/ UNCHANGED errors
  /\ document' = "malformed"
  /\ todo' = <<>>
  /\ pc' = "parse"
  /\ UNCHANGED <<session, calls, wire, link, failed, deaths, buffererr, output>>

-----------------------------------------------------------------------------
(* xmlParseDoc, parse_doc, parse_commands, has_handler, call_handler       *)

\* "Document not parsed correctly.", "Empty document" and "Document of the
\* wrong type" are logged and kept.
ParseDocument ==
  /\ pc = "parse"
  /\ buffererr' = 1
  /\ IF document = "script"
       THEN pc' = "commands" /\ UNCHANGED <<errors, failed>>
       ELSE pc' = "status" /\ errors' = session /\ failed' = TRUE
  /\ UNCHANGED <<session, scriptVars, wire, link, deaths, output>>

IsText(name) == IsPrefix(TextName, name) \/ IsPrefix(CommentName, name)

\* strncmp over the length of the command: an abbreviation has a handler.
HasHandler(name) == \E i \in DOMAIN Handlers : IsPrefix(name, Handlers[i])

\* strcmp: every handler of exactly that name is called.
Called(name) == Cardinality({i \in DOMAIN Handlers : Handlers[i] = name})

UnknownCommand ==
  /\ pc = "commands"
  /\ todo # <<>>
  /\ ~IsText(Head(todo)) /\ ~HasHandler(Head(todo))
  /\ LogError(session)
  /\ todo' = Tail(todo)
  /\ failed' = TRUE
  /\ UNCHANGED <<pc, session, document, calls, wire, link, deaths, buffererr, output>>

SkipText ==
  /\ pc = "commands"
  /\ todo # <<>>
  /\ IsText(Head(todo))
  /\ todo' = Tail(todo)
  /\ UNCHANGED <<pc, session, document, calls, wire, link, failed, deaths, logVars>>

\* Mutant: call_handler relies on has_handler to have found a handler.
CallHandlerUnchecked ==
  /\ pc = "commands"
  /\ todo # <<>>
  /\ ~IsText(Head(todo)) /\ HasHandler(Head(todo))
  /\ todo' = Tail(todo)
  /\ calls' = Called(Head(todo))
  /\ pc' = "handler"
  /\ UNCHANGED <<session, document, wire, link, failed, deaths, logVars>>

CallHandler ==
  /\ pc = "commands"
  /\ todo # <<>>
  /\ ~IsText(Head(todo)) /\ HasHandler(Head(todo))
  /\ todo' = Tail(todo)
  /\ calls' = Called(Head(todo))
  /\ pc' = IF calls' = 0 THEN "commands" ELSE "handler"
  /\ UNCHANGED <<session, document, wire, link, failed, deaths, logVars>>

HandlerPrints ==
  /\ pc = "handler"
  /\ \E size \in Sizes :
       /\ OutputSize + size <= MaxOutput
       /\ AddOutput(session, size)
  /\ UNCHANGED <<pc, session, scriptVars, wire, link, failed, deaths, buffererr, errors>>

HandlerLogsError ==
  /\ pc = "handler"
  /\ LogError(session)
  /\ failed' = TRUE
  /\ UNCHANGED <<pc, session, scriptVars, wire, link, deaths, buffererr, output>>

\* Mutant: the loop over the handlers does not advance.
HandlerReturnsAgain ==
  /\ pc = "handler"
  /\ UNCHANGED vars

HandlerReturns ==
  /\ pc = "handler"
  /\ calls' = calls - 1
  /\ pc' = IF calls' = 0 THEN "commands" ELSE "handler"
  /\ UNCHANGED <<session, document, todo, wire, link, failed, deaths, logVars>>

ScriptDone ==
  /\ pc = "commands"
  /\ todo = <<>>
  /\ pc' = "status"
  /\ UNCHANGED <<session, scriptVars, wire, link, failed, deaths, logVars>>

-----------------------------------------------------------------------------
(* The answer                                                              *)

\* ssl_send: a write that fails is logged or not (there is no default case),
\* and nothing reaches the client after it.  A log line may move the error
\* text that servlet still points to; the link is dead then, so it does not
\* matter what is written, unless the agent dies of it (Die).
SslSend(line) ==
  \/ /\ link = "up"
     /\ wire' = Append(wire, line)
     /\ UNCHANGED <<link, errors>>
  \/ /\ link' = "dead"
     /\ LogError(session) \/ UNCHANGED errors
     /\ UNCHANGED wire

SendNothing == UNCHANGED <<wire, link, errors>>

\* Mutant: the status is taken from the parser alone.
StatusOfDocument == Plain(IF document = "script" THEN "+OK+" ELSE "+NOK+")

StatusLine == Plain(IF errors = NULL THEN "+OK+" ELSE "+NOK+")

SendStatus ==
  /\ pc = "status"
  /\ SslSend(StatusLine)
  /\ pc' = "text"
  /\ UNCHANGED <<session, scriptVars, failed, deaths, buffererr, output>>

\* After the status: the message, the error, or (for a script that logged
\* errors) the output, which SendOutput sends again.  An error that a failed
\* write has added since the status makes no difference on a dead link.
SendText ==
  /\ pc = "text"
  /\ CASE document = "malformed" -> SslSend(Plain("notparsed"))
       [] document = "wrong" -> SslSend(ErrorLine)
       [] OTHER -> IF errors # NULL /\ output # NULL
                     THEN SslSend(OutputLine) ELSE SendNothing
  /\ pc' = IF document = "script" THEN "output" ELSE "clear"
  /\ UNCHANGED <<session, scriptVars, failed, deaths, buffererr, output>>

SendOutput ==
  /\ pc = "output"
  /\ IF output = NULL THEN SendNothing ELSE SslSend(OutputLine)
  /\ pc' = "clear"
  /\ UNCHANGED <<session, scriptVars, failed, deaths, buffererr, output>>

ClearBuffers ==
  /\ pc = "clear"
  /\ StopBuffering
  /\ ClearOutput
  /\ pc' = "done"
  /\ UNCHANGED <<session, scriptVars, wire, link, failed, deaths>>

SendDone ==
  /\ pc = "done"
  /\ SslSend(Plain("+DONE+"))
  /\ pc' = "idle"
  /\ UNCHANGED <<session, scriptVars, failed, deaths, buffererr, output>>

-----------------------------------------------------------------------------
(* Between clients, and the end of the process                             *)

\* A job logs an error (metric_sender and what it calls).
JobLogsError ==
  /\ pc = "idle"
  /\ LogError(0)
  /\ UNCHANGED <<pc, session, scriptVars, wire, link, failed, deaths, buffererr, output>>

\* A signal or a fault, a write to a closed connection included (SIGPIPE).
Die ==
  /\ pc # "down"
  /\ deaths < MaxDeaths
  /\ deaths' = deaths + 1
  /\ pc' = "down"
  /\ link' = "dead"
  /\ calls' = 0
  /\ buffererr' = 0 /\ errors' = NULL /\ output' = NULL
  /\ UNCHANGED <<session, document, todo, wire, failed>>

Restart ==
  /\ pc = "down"
  /\ pc' = "idle"
  /\ UNCHANGED <<session, scriptVars, wire, link, failed, deaths, logVars>>

-----------------------------------------------------------------------------
Read == Accept \/ HandshakeFails \/ HandshakeDone \/ ClientSaysDone
          \/ ReadDocument \/ ReadFails
Interpret == ParseDocument \/ UnknownCommand \/ SkipText \/ CallHandler
               \/ HandlerPrints \/ HandlerLogsError \/ HandlerReturns \/ ScriptDone
Reply == SendStatus \/ SendText \/ SendOutput \/ ClearBuffers \/ SendDone

Next == Read \/ Interpret \/ Reply \/ JobLogsError \/ Die \/ Restart

Spec == Init /\ [][Next]_vars

(***************************************************************************)
(* The single thread goes on, and handlers return.  The steps that wait    *)
(* for the client to send are not fair.  A write is taken to return, with  *)
(* an error if need be: an answer fits into the buffer of the socket.      *)
(***************************************************************************)
Fairness ==
  /\ WF_vars(Reply)
  /\ WF_vars(ParseDocument \/ UnknownCommand \/ SkipText \/ CallHandler \/ ScriptDone)
  /\ WF_vars(HandlerReturns)
  /\ WF_vars(Restart)

FairSpec == Spec /\ Fairness

-----------------------------------------------------------------------------
(* Properties                                                              *)

Answered == wire # <<>> /\ Last(wire).text = "+DONE+"

\* A client gets texts of its own session only: whichever way the session
\* before ended, and whatever the jobs logged since, the buffers are empty
\* when a document is read.
OwnTextOnly ==
  /\ \A i \in DOMAIN wire : wire[i].from \subseteq {session}
  /\ pc \in {"idle", "handshake", "read"} =>
       buffererr = 0 /\ errors = NULL /\ output = NULL

\* The client of ScriptService; its failed is the one of this module.
Left == link = "dead" \/ pc = "idle"
Client == CASE session = 0 -> "none"
            [] session # 0 /\ Answered -> "answered"
            [] session # 0 /\ ~Answered /\ Left -> "gone"
            [] OTHER -> "waiting"
Answer == IF Answered THEN wire[1].text ELSE "none"
Service == INSTANCE ScriptService WITH client <- Client, answer <- Answer

\* A complete answer says +OK+ exactly when no error was logged while this
\* client's script was carried out, whatever went on before and in between.
ServiceKept == Service!Spec

\* Once a document is read, the servlet comes back to the main loop (or the
\* agent dies), whatever becomes of the connection.
ServletReturns == pc = "parse" ~> pc \in {"idle", "down"}

\* "Sent errors to client." (network.c:255): an answer that says +NOK+ and
\* arrives in full tells what went wrong.
ErrorsSent ==
  Answered /\ wire[1].text = "+NOK+" =>
    \E i \in DOMAIN wire : wire[i].text \in {"notparsed", "error"}
=============================================================================
