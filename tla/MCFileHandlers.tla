---------------------------- MODULE MCFileHandlers ----------------------------
(* Commands that print as much as the pipe holds, at least two lines for       *)
(* fgets, or more than that; two files, of which one can be moved onto, or be  *)
(* a link to, the other.                                                       *)
EXTENDS FileHandlers

MCCommands ==
  {c \in [returnoutput : BOOLEAN, directory : {"none", "good", "bad"}, size : {3, 4}, code : {1}] :
     c.returnoutput \/ c.size = 3}
=============================================================================
