------------------------------ MODULE MCModules ------------------------------
(* The metric plugin with its job, a plugin with two handlers, one that has *)
(* a job and a handler of a name that is taken, and a file that is none.    *)
EXTENDS Modules, TLC

CONSTANTS Metric, File, Other, NoPlugin

MCFiles == {Metric, File, Other, NoPlugin}
MCExports == (Metric :> <<"getmetrics">>) @@ (File :> <<"createfile", "list">>)
               @@ (Other :> <<"list">>) @@ (NoPlugin :> <<>>)
=============================================================================
