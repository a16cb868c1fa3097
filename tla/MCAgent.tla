------------------------------- MODULE MCAgent -------------------------------
(* Failures nobody is told of, in sending and in reading, and one that      *)
(* leaves an empty file.                                                    *)
EXTENDS Agent

MCSilent == {"handshake", "readerror", "diskfull"}
=============================================================================
