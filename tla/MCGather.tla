------------------------------- MODULE MCGather -------------------------------
(* /proc/stat of a kernel 2.4 with one and two processors and of a 2.6, where *)
(* the rest of the first line comes before the processors; a /proc/meminfo    *)
(* without the line gather looks for.                                         *)
EXTENDS Gather

MCStatFiles == {<<"cpu", "page", "swap", "other", "ctxt", "other">>,
                <<"cpu", "cpu", "page", "swap", "other", "ctxt">>,
                <<"other", "cpu", "cpu", "other", "ctxt", "other">>}
MCMemFiles == {<<"other", "other", "Cached", "other">>, <<"other">>}
MCDevices == {<<>>, <<"if">>, <<"other", "if", "if">>}
MCMountTables == {<<"other">>, <<"disk", "other", "disk">>}
MCFaults == {"call", "open", "read", "line", "member", "close", "alloc", "statfs"}
=============================================================================
