----------------------------- MODULE LogBuffers -----------------------------
(***************************************************************************)
(* The two buffers of log.c every part of the agent shares: llog keeps the *)
(* text of an error while buffererr is set, add_output keeps what handlers *)
(* print for the client.  A text is known by who produced it; an output    *)
(* also by its length and by whether all of it was kept.                   *)
(***************************************************************************)
EXTENDS Integers

CONSTANT NULL

VARIABLES
  buffererr,  \* llog keeps errors
  errors,     \* NULL, or who logged the error that is kept
  output      \* NULL, or what has been kept of the output

logVars == <<buffererr, errors, output>>

LogType(Who) ==
  /\ buffererr \in {0, 1}
  /\ errors \in Who \cup {NULL}
  /\ output \in [from : SUBSET Who, size : Nat, whole : BOOLEAN] \cup {NULL}

LogInit ==
  /\ buffererr = 0
  /\ errors = NULL
  /\ output = NULL

OutputSize == IF output = NULL THEN 0 ELSE output.size

Shorter(a, b) == IF a < b THEN a ELSE b

\* llog(LOG_ERR, ...): a second error takes the place of the first, because
\* add_error formats into the start of the buffer it has just enlarged.
LogError(who) == errors' = IF buffererr = 0 THEN errors ELSE who

\* buffer_errors(1) keeps what is in the buffer.
StartBuffering == buffererr' = 1 /\ UNCHANGED errors

\* buffer_errors(0)
StopBuffering == buffererr' = 0 /\ errors' = NULL

\* add_output: strncat is told the length of the old text, not of the new one,
\* so a piece longer than what is there already is cut.
AddOutput(who, size) ==
  output' =
    IF output = NULL
      THEN [from |-> {who}, size |-> size, whole |-> TRUE]
      ELSE [from |-> output.from \cup {who},
            size |-> output.size + Shorter(size, output.size),
            whole |-> output.whole /\ size <= output.size]

\* Mutant: only the error buffer is emptied between two clients.
ClearOutputForgotten == UNCHANGED output

ClearOutput == output' = NULL
=============================================================================
