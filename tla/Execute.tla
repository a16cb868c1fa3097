------------------------------- MODULE Execute -------------------------------
(***************************************************************************)
(* The execute handler of plugins/fileops.c and the command it starts: the *)
(* agent, the shell and the pipe between them.  The agent ignores SIGCHLD  *)
(* (main.c:87 and 197), so a child that ends is reaped by the system: wait *)
(* calls return once there is no child left, and tell nothing about it.    *)
(*                                                                         *)
(* execute does not set status before wait3, and wait3 does not either.    *)
(* What the other handlers of the plugin work on (FileHandlers) it leaves  *)
(* alone, but for a file each of them has open it has one less to open.    *)
(***************************************************************************)
EXTENDS Integers

CONSTANTS
  Commands,    \* what an execute node may ask for: see Command
  Capacity,    \* what the pipe holds before a write blocks
  Chunk,       \* what fgets returns at most: 1023 characters
  Statuses,    \* what the memory of status may hold
  Faults,      \* "fork" (popen fails), "back" (the way back is gone), ...
  Descriptors, \* files the agent can have open
  MaxCommands  \* bound: nodes handled

Dirs == {"home", "elsewhere"}

\* size is what the command prints, code what it exits with.
Command == [returnoutput : BOOLEAN, directory : {"none", "good", "bad"},
            size : Nat, code : {0, 1}]

ASSUME ExecuteAssumption ==
  /\ Commands \subseteq Command
  /\ Capacity \in Nat \ {0}
  /\ Chunk \in Nat \ {0}
  /\ Statuses \subseteq {0, 1}
  /\ Statuses # {}
  /\ Descriptors \in Nat
  /\ MaxCommands \in Nat

VARIABLES
  pc,       \* the call the agent makes next
  cmd,      \* the node that is carried out
  here,     \* the working directory of the agent
  cwd,      \* what getcwd has found
  ptr,      \* the stream of popen: NULL or open
  child,    \* the shell: "none" or "running"
  unwritten, \* what the command has yet to print
  pipe,     \* what is in the pipe
  added,    \* what add_output has kept for the answer
  steep,    \* ghost: a line was longer than all the command had printed before
  code,     \* ghost: how the command ended, -1 while it has not
  ranIn,    \* ghost: the directory the command was started in
  errors,   \* errors logged for this command
  astray,   \* ghost: the agent has logged that it could not go back
  count,    \* commands so far
  files, remote, known, silent, \* see FileHandlers
  open      \* descriptors that no handler will close any more

fileVars == <<files, remote, known, silent, open>>
childVars == <<child, unwritten, pipe, code>>
vars == <<pc, cmd, here, cwd, ptr, child, unwritten, pipe, added, steep, code,
          ranIn, errors, astray, count, fileVars>>

Errors == {"chdir", "status", "popen", "system", "back"}

TypeOK ==
  /\ pc \in {"idle", "chdir", "spawn", "wait", "read", "pclose", "system", "back", "dead"}
  /\ cmd \in Command
  /\ here \in Dirs /\ cwd \in Dirs
  /\ ptr \in {"NULL", "open"}
  /\ child \in {"none", "running"}
  /\ unwritten \in Nat
  /\ pipe \in 0..Capacity
  /\ added \in Nat /\ steep \in BOOLEAN
  /\ code \in {-1, 0, 1}
  /\ ranIn \in Dirs
  /\ errors \subseteq Errors
  /\ astray \in BOOLEAN
  /\ count \in 0..MaxCommands

ExecuteInit ==
  /\ pc = "idle"
  /\ cmd \in {c \in Commands : ~c.returnoutput}
  /\ here = "home" /\ cwd = "home"
  /\ ptr = "NULL"
  /\ child = "none"
  /\ unwritten = 0
  /\ pipe = 0
  /\ added = 0 /\ steep = FALSE
  /\ code = -1
  /\ ranIn = "home"
  /\ errors = {}
  /\ astray = FALSE
  /\ count = 0

-----------------------------------------------------------------------------
(* The agent                                                               *)

Call ==
  /\ pc = "idle"
  /\ count < MaxCommands
  /\ count' = count + 1
  /\ cmd' \in Commands
  /\ cwd' = here
  /\ ptr' = "NULL"
  /\ added' = 0 /\ steep' = FALSE
  /\ code' = -1
  /\ errors' = {}
  /\ pc' = "chdir"
  /\ UNCHANGED <<here, child, unwritten, pipe, ranIn, astray, fileVars>>

\* A directory that does not exist is logged, and the command runs all the same.
ChangeDirectory ==
  /\ pc = "chdir"
  /\ here' = IF cmd.directory = "good" THEN "elsewhere" ELSE here
  /\ errors' = IF cmd.directory = "bad" THEN errors \cup {"chdir"} ELSE errors
  /\ pc' = "spawn"
  /\ UNCHANGED <<cmd, cwd, ptr, childVars, added, steep, ranIn, astray, count, fileVars>>

StartChild ==
  /\ child' = "running"
  /\ unwritten' = cmd.size
  /\ ranIn' = here

\* popen takes two descriptors and keeps one until pclose.
Popen ==
  /\ pc = "spawn"
  /\ cmd.returnoutput
  /\ \/ open + 2 <= Descriptors /\ StartChild /\ ptr' = "open"
     \/ /\ "fork" \in Faults \/ open + 2 > Descriptors
        /\ UNCHANGED <<child, unwritten, ranIn, ptr>>
  /\ pc' = "wait"
  /\ UNCHANGED <<cmd, here, cwd, pipe, added, steep, code, errors, astray, count, fileVars>>

\* wait3 fails when the child is gone, and status is whatever it was.
Wait3 ==
  /\ pc = "wait"
  /\ child = "none"
  /\ \E status \in Statuses :
       IF status # 0
         THEN errors' = errors \cup {"status"} /\ pc' = "pclose"
         ELSE IF ptr = "NULL"
           THEN errors' = errors \cup {"popen"} /\ pc' = "pclose"
           ELSE pc' = "read" /\ UNCHANGED errors
  /\ UNCHANGED <<cmd, here, cwd, ptr, childVars, added, steep, ranIn, astray, count,
                 fileVars>>

Least(a, b) == IF a < b THEN a ELSE b

\* add_output of a piece: strncat is told the length of the old text, not of the
\* new one (see LogBuffers).  Nothing is in the buffer before this command.
Kept(piece) == IF added = 0 THEN piece ELSE Least(piece, added)

AddOutput(piece) ==
  LET before == cmd.size - pipe
  IN /\ added' = added + Kept(piece)
     /\ steep' = (steep \/ (before > 0 /\ piece > before))

\* What fgets may return of the pipe: a line, or as much of it as fits its buffer.
Lines == 1..Least(pipe, Chunk)

\* Mutant: one piece is read, not all of them.
ReadOnePiece ==
  /\ pc = "read"
  /\ pipe > 0 \/ child = "none"
  /\ IF pipe > 0 THEN \E line \in Lines : AddOutput(line) ELSE UNCHANGED <<added, steep>>
  /\ pipe' = 0
  /\ pc' = "pclose"
  /\ UNCHANGED <<cmd, here, cwd, ptr, child, unwritten, code, ranIn, errors,
                 astray, count, fileVars>>

\* Mutant: every piece is taken to be as long as the buffer.
ReadFullChunks ==
  /\ pc = "read"
  /\ \/ /\ pipe > 0
        /\ AddOutput(Chunk)
        /\ pipe' = pipe - Chunk
        /\ UNCHANGED pc
     \/ /\ pipe = 0
        /\ child = "none"
        /\ pc' = "pclose"
        /\ UNCHANGED <<added, steep, pipe>>
  /\ UNCHANGED <<cmd, here, cwd, ptr, child, unwritten, code, ranIn, errors,
                 astray, count, fileVars>>

\* Mutant: the end of the output is not noticed.
ReadForever ==
  /\ pc = "read"
  /\ pipe > 0
  /\ \E line \in Lines : AddOutput(line) /\ pipe' = pipe - line
  /\ UNCHANGED <<pc, cmd, here, cwd, ptr, child, unwritten, code, ranIn, errors,
                 astray, count, fileVars>>

\* fgets waits for text or for the end of it, and add_output gets each piece.
ReadOutput ==
  /\ pc = "read"
  /\ \/ /\ pipe > 0
        /\ \E line \in Lines : AddOutput(line) /\ pipe' = pipe - line
        /\ UNCHANGED pc
     \/ /\ pipe = 0
        /\ child = "none"
        /\ pc' = "pclose"
        /\ UNCHANGED <<added, steep, pipe>>
  /\ UNCHANGED <<cmd, here, cwd, ptr, child, unwritten, code, ranIn, errors,
                 astray, count, fileVars>>

\* pclose(NULL) ends the agent; what is left in the pipe is gone.
Pclose ==
  /\ pc = "pclose"
  /\ pc' = IF ptr = "NULL" THEN "dead" ELSE "back"
  /\ pipe' = 0
  /\ UNCHANGED <<cmd, here, cwd, ptr, child, unwritten, added, steep, code, ranIn, errors,
                 astray, count, fileVars>>

\* system, first half: fork.  A fork that fails is the -1 it is logged as.
SystemForks ==
  /\ pc = "spawn"
  /\ ~cmd.returnoutput
  /\ \/ StartChild
     \/ "fork" \in Faults /\ UNCHANGED <<child, unwritten, ranIn>>
  /\ pc' = "system"
  /\ UNCHANGED <<cmd, here, cwd, ptr, pipe, added, steep, code, errors, astray, count,
                 fileVars>>

\* system, second half: its waitpid waits for the child and then fails.
SystemReturns ==
  /\ pc = "system"
  /\ child = "none"
  /\ errors' = errors \cup {"system"}
  /\ pc' = "back"
  /\ UNCHANGED <<cmd, here, cwd, ptr, childVars, added, steep, ranIn, astray, count,
                 fileVars>>

\* Mutant: the agent goes back only if it had got there.
GoBackAfterSuccess ==
  /\ pc = "back"
  /\ IF cmd.directory # "none" /\ errors = {} THEN here' = cwd ELSE UNCHANGED here
  /\ pc' = "idle"
  /\ UNCHANGED <<cmd, cwd, ptr, childVars, added, steep, ranIn, errors, astray, count,
                 fileVars>>

GoBack ==
  /\ pc = "back"
  /\ \/ here' = (IF cmd.directory = "none" THEN here ELSE cwd)
        /\ UNCHANGED <<errors, astray>>
     \/ /\ cmd.directory # "none"
        /\ "back" \in Faults
        /\ errors' = errors \cup {"back"}
        /\ astray' = TRUE
        /\ UNCHANGED here
  /\ pc' = "idle"
  /\ UNCHANGED <<cmd, cwd, ptr, childVars, added, steep, ranIn, count, fileVars>>

-----------------------------------------------------------------------------
(* The command                                                             *)

\* It inherits the agent's output unless popen has put the pipe there.
ChildWrites ==
  /\ child = "running"
  /\ unwritten > 0
  /\ IF cmd.returnoutput THEN pipe < Capacity /\ pipe' = pipe + 1 ELSE UNCHANGED pipe
  /\ unwritten' = unwritten - 1
  /\ UNCHANGED <<pc, cmd, here, cwd, ptr, child, added, steep, code, ranIn, errors,
                 astray, count, fileVars>>

ChildExits ==
  /\ child = "running"
  /\ unwritten = 0
  /\ child' = "none"
  /\ code' = cmd.code
  /\ UNCHANGED <<pc, cmd, here, cwd, ptr, unwritten, pipe, added, steep, ranIn, errors,
                 astray, count, fileVars>>

-----------------------------------------------------------------------------
AgentStep == ChangeDirectory \/ Popen \/ Wait3 \/ ReadOutput \/ Pclose
               \/ SystemForks \/ SystemReturns \/ GoBack
ChildStep == ChildWrites \/ ChildExits

ExecuteNext == Call \/ AgentStep \/ ChildStep

-----------------------------------------------------------------------------
(* Properties                                                              *)

\* A command that runs in another directory than the one asked for has an
\* error in its answer, or an earlier one had: no sequence of commands, with
\* directories that exist or not, leads a later one astray without a word.
RunWhereAsked ==
  code # -1 =>
    \/ ranIn = (IF cmd.directory = "none" THEN "home" ELSE "elsewhere")
    \/ "chdir" \in errors
    \/ astray

\* All that the command printed is in the answer, or there is an error in it, unless
\* a line is longer than all that was printed before it: add_output then cuts it off
\* (log.c:169) without a word.  Something of the output is there in any case.
OutputOrError ==
  pc = "idle" /\ cmd.returnoutput =>
    \/ errors # {}
    \/ added = cmd.size
    \/ steep /\ added > 0

\* The agent waits for the command to end, and the command for the agent to read.
WaitForEachOther == pc = "wait" /\ child = "running" /\ pipe = Capacity /\ unwritten > 0

\* "execute: I am returning output" (fileops.c:217): the handler gets to its end,
\* and the only thing that may keep it for ever is a command that prints more than
\* the pipe holds, because the agent waits for its end before it reads.
ReturnsOutput ==
  pc = "wait" ~>
    \/ pc \in {"back", "dead"}
    \/ WaitForEachOther /\ cmd.size > Capacity
=============================================================================
