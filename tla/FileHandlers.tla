----------------------------- MODULE FileHandlers -----------------------------
(***************************************************************************)
(* The handlers of plugins/fileops.c and plugins/ftpops.c that change      *)
(* files, next to execute: a handler runs to its end before the next node  *)
(* is looked at, but all of them name files relative to the directory      *)
(* execute may have left, and share the descriptors of the agent.          *)
(*                                                                         *)
(* An entry of a directory is nothing, a file with its text (a sequence of *)
(* pieces), an empty directory or a link to a name next to it.  A link to  *)
(* a link leads back to itself when there are two names, and opens nothing.*)
(***************************************************************************)
EXTENDS Execute, Sequences, FiniteSets

CONSTANTS
  Names,    \* file names
  Pieces,   \* what a writefile node contains
  MaxText   \* bound: pieces in a file

\* Further members of Faults: "call" (a system call fails), "disk" (the disk is
\* full), "transfer" (so does libcurl's).
ASSUME FileHandlersAssumption ==
  /\ Cardinality(Names) <= 2
  /\ "server" \notin Names
  /\ Faults \subseteq {"fork", "back", "call", "disk", "transfer"}
  /\ MaxText \in Nat

An(kind, text, to) == [kind |-> kind, text |-> text, to |-> to]
Nothing == An("nothing", <<>>, "")
Directory == An("directory", <<>>, "")
Text(text) == An("file", text, "")
Link(name) == An("link", <<>>, name)
Unknown == An("unknown", <<>>, "")

Entry == {Nothing, Directory, Unknown} \cup {Link(n) : n \in Names}
           \cup [kind : {"file"}, text : Seq(Pieces), to : {""}]

\* files: the entries of both directories; remote: the file on the FTP server
\* known: ghost, what a client may conclude from the requests it has made, one to a
\* document, and whether each was answered +OK+ or +NOK+: no text of an error is sent
\* silent: ghost, the end of a download was lost and nobody told
HandlersTypeOK ==
  /\ TypeOK
  /\ files \in [Dirs -> [Names -> Entry \ {Unknown}]]
  /\ remote \in Seq(Pieces)
  /\ known \in [Names \cup {"server"} -> Entry]
  /\ silent \in BOOLEAN
  /\ open \in 0..Descriptors

Init ==
  /\ ExecuteInit
  /\ files = [d \in Dirs |-> [n \in Names |-> Nothing]]
  /\ remote \in {<<p>> : p \in Pieces}
  /\ known = [n \in Names \cup {"server"} |-> IF n \in Names THEN Nothing ELSE Text(remote)]
  /\ silent = FALSE
  /\ open = 0

-----------------------------------------------------------------------------
(* What the handlers are made of                                           *)

\* Nothing of execute's changes, but pc if the handler ends the agent.
Handle ==
  /\ pc = "idle"
  /\ count < MaxCommands
  /\ count' = count + 1
  /\ UNCHANGED <<cmd, here, cwd, ptr, childVars, added, steep, ranIn, errors, astray>>

Refuse(possible) ==
  /\ possible => "call" \in Faults
  /\ UNCHANGED <<files, remote, silent, open>>

\* +NOK+ says that nothing has changed where a handler has no other reason for it.
Refused(possible) == Refuse(possible) /\ UNCHANGED known

There(n) == files[here][n]
Becomes(n, entry) == files' = [files EXCEPT ![here][n] = entry]
Told(n, entry) == known' = [known EXCEPT ![n] = entry]

\* The handlers whose system call changes one entry or fails, and is logged.
OneEntry(n, possible, entry) ==
  /\ Handle
  /\ \/ possible /\ Becomes(n, entry) /\ Told(n, entry) /\ UNCHANGED <<remote, silent, open>>
     \/ Refused(possible)
  /\ UNCHANGED pc

\* The name an open of n reads or makes; a name a client knows nothing of may be
\* a link to any other.
Target(entries, n) == IF entries[n].kind = "link" THEN entries[n].to ELSE n
Opens(n) == There(Target(files[here], n)).kind \in {"nothing", "file"} /\ open < Descriptors

\* What the client concludes for a file that was opened as n and written to: it
\* knows of no link, since no answer tells that one was made.
Concludes(n, entry(_)) ==
  known' = IF known[n] = Unknown
             THEN [m \in DOMAIN known |-> IF m \in Names THEN Unknown ELSE known[m]]
             ELSE [known EXCEPT ![n] = entry(@)]

Lost(entry) == Unknown

Beginnings(text) == {SubSeq(text, 1, k) : k \in 0..Len(text)}

\* A file that is not truncated keeps what it has behind what is written.
Over(old, new) == new \o SubSeq(old, Len(new) + 1, Len(old))

-----------------------------------------------------------------------------
(* fileops.c                                                               *)

\* Mutant: without O_EXCL.
CreateFileAnyway(n) ==
  /\ Handle
  /\ There(n).kind \in {"nothing", "file"}
  /\ open < Descriptors
  /\ open' = open + 1
  /\ IF There(n) = Nothing THEN Becomes(n, Text(<<>>)) ELSE UNCHANGED files
  /\ Told(n, Text(<<>>))
  /\ UNCHANGED <<pc, remote, silent>>

\* O_CREAT | O_EXCL; the descriptor is never closed.
CreateFile(n) ==
  LET possible == There(n) = Nothing /\ open < Descriptors
  IN /\ Handle
     /\ \/ /\ possible
           /\ Becomes(n, Text(<<>>))
           /\ Told(n, Text(<<>>))
           /\ open' = open + 1
           /\ UNCHANGED <<remote, silent>>
        \/ Refused(possible)
     /\ UNCHANGED pc

RemoveFile(n) == OneEntry(n, There(n).kind \in {"file", "link"}, Nothing)

RemoveDir(n) == OneEntry(n, There(n) = Directory, Nothing)

MakeDir(n) == OneEntry(n, There(n) = Nothing, Directory)

\* Success is logged as an error, too: the answer is +NOK+ either way, and tells
\* only those who know of an entry under the name that nothing has changed.
MakeLink(n, old) ==
  LET possible == There(n) = Nothing
  IN /\ Handle
     /\ \/ possible /\ Becomes(n, Link(old)) /\ UNCHANGED <<remote, silent, open>>
        \/ Refuse(possible)
     /\ Told(n, IF known[n] = Nothing THEN Unknown ELSE known[n])
     /\ UNCHANGED pc

\* rename does not follow links, and does nothing if both names are one.
Move(n, m) ==
  LET possible == /\ There(n) # Nothing
                  /\ IF There(n) = Directory THEN There(m) \in {Nothing, Directory}
                                             ELSE There(m) # Directory
      moved(entries) == IF n = m THEN entries
                                 ELSE [entries EXCEPT ![m] = entries[n], ![n] = Nothing]
  IN /\ Handle
     /\ \/ /\ possible
           /\ files' = [files EXCEPT ![here] = moved(@)]
           /\ known' = moved(known)
           /\ UNCHANGED <<remote, silent, open>>
        \/ Refused(possible)
     /\ UNCHANGED pc

\* fopen, fputs, fclose.  An error of fputs leaves the stream open.  Without a
\* mode, "a+" is taken and freed on every way out, which may end the agent before
\* it answers.  +NOK+ does not tell a file that was opened from one that was not.
WriteFile(n, mode, piece) ==
  LET t == Target(files[here], n)
      old(entry) == IF mode = "w" THEN <<>> ELSE entry.text
      written(entry) == IF mode # "w" /\ entry = Unknown
                          THEN Unknown ELSE Text(Append(old(entry), piece))
  IN /\ Handle
     /\ pc' \in (IF mode = "none" THEN {"idle", "dead"} ELSE {"idle"})
     /\ \/ /\ Opens(n)
           /\ Len(There(t).text) < MaxText
           /\ Becomes(t, Text(Append(old(There(t)), piece)))
           /\ IF pc' = "idle" THEN Concludes(n, written) ELSE Concludes(n, Lost)
           /\ UNCHANGED <<remote, silent, open>>
        \/ /\ Opens(n)
           /\ "disk" \in Faults
           /\ Becomes(t, Text(old(There(t))))
           /\ open' = open + 1 \/ UNCHANGED open
           /\ Concludes(n, Lost)
           /\ UNCHANGED <<remote, silent>>
        \/ Refuse(Opens(n)) /\ Concludes(n, Lost)

-----------------------------------------------------------------------------
(* ftpops.c                                                                *)

\* open without O_TRUNC, and nobody looks at what fclose returns.  +NOK+ does not
\* tell a failed open from a failed transfer.
FtpGetFile(n) ==
  LET t == Target(files[here], n)
      received(text) == Becomes(t, Text(Over(There(t).text, text)))
      whole(entry) == IF Unknown \in {entry, known["server"]} THEN Unknown
                        ELSE Text(Over(entry.text, known["server"].text))
  IN /\ Handle
     /\ \/ Opens(n) /\ received(remote) /\ Concludes(n, whole)
           /\ UNCHANGED <<remote, silent, open>>
        \/ /\ Opens(n)
           /\ "transfer" \in Faults
           /\ \E text \in Beginnings(remote) : received(text)
           /\ Concludes(n, Lost)
           /\ UNCHANGED <<remote, silent, open>>
        \/ /\ Opens(n)
           /\ "disk" \in Faults
           /\ \E text \in Beginnings(remote) : received(text)
           /\ Concludes(n, whole)
           /\ silent' = TRUE
           /\ UNCHANGED <<remote, open>>
        \/ Refuse(Opens(n)) /\ Concludes(n, Lost)
     /\ UNCHANGED pc

\* The test of curl_easy_perform is the wrong way round: the answer is +NOK+ if the
\* file has arrived or could not be opened, and +OK+ if it has not arrived whole.
\* After neither does a client know what is on the server.
FtpPutFile(n) ==
  LET entry == There(Target(files[here], n))
      readable == entry.kind \in {"file", "directory"} /\ open < Descriptors
  IN /\ Handle
     /\ \/ /\ readable
           /\ \/ entry.kind = "file" /\ remote' = entry.text
              \/ /\ entry.kind = "directory" \/ "transfer" \in Faults
                 /\ remote' \in Beginnings(entry.text) \cup {remote}
           /\ UNCHANGED <<files, silent, open>>
        \/ Refuse(readable)
     /\ Told("server", Unknown)
     /\ UNCHANGED pc

-----------------------------------------------------------------------------
FileNext ==
  \E n \in Names :
    \/ CreateFile(n)
    \/ RemoveFile(n)
    \/ RemoveDir(n)
    \/ MakeDir(n)
    \/ \E m \in Names : MakeLink(n, m) \/ Move(n, m)
    \/ \E mode \in {"w", "a", "none"}, piece \in Pieces : WriteFile(n, mode, piece)
    \/ FtpGetFile(n)
    \/ FtpPutFile(n)

Next == ExecuteNext \/ FileNext

Spec == Init /\ [][Next]_vars

\* The agent and the command are scheduled, and the command is one that ends.
FairSpec == Spec /\ WF_vars(AgentStep) /\ WF_vars(ChildStep)

-----------------------------------------------------------------------------
(* Properties                                                              *)

\* What +OK+ and +NOK+, all that is sent of the outcome, let a client conclude is so:
\* one that remembers what it has asked for, through moves, appended and truncated
\* files, links it cannot know of, downloads over older files and directories that
\* commands change, has a true picture of the disk and the server wherever it has
\* one.  It is lost if the agent could not go back to its directory, or if a full
\* disk has cut a download, which is answered +OK+.
AnswersTrue ==
  \/ astray
  \/ silent
  \/ /\ \A n \in Names : known[n] \in {Unknown, files["home"][n]}
     /\ known["server"] \in {Unknown, Text(remote)}
=============================================================================
