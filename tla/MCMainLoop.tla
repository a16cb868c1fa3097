------------------------------ MODULE MCMainLoop ------------------------------
(* Two jobs, one of which has no interval in the configuration, which       *)
(* leaves one that is never waited for.                                      *)
EXTENDS MainLoop

MCInvalid == <<0, 3>>
MCBackOrForward == {-2, 3}
=============================================================================
