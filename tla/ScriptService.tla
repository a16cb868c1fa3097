---------------------------- MODULE ScriptService ----------------------------
(***************************************************************************)
(* What a client of the agent may rely on: the agent carries out one       *)
(* script at a time and a complete answer says +OK+ exactly when nothing   *)
(* went wrong while this client's own script was carried out.  A client    *)
(* may also get no complete answer at all.                                 *)
(***************************************************************************)
VARIABLES
  client,  \* "none", "waiting", "answered", or "gone" without an answer
  failed,  \* something has gone wrong with the client's script
  answer   \* the status of the answer, "none" until it is complete

vars == <<client, failed, answer>>

Init ==
  /\ client = "none"
  /\ failed = FALSE
  /\ answer = "none"

Connect ==
  /\ client # "waiting"
  /\ client' = "waiting"
  /\ failed' = FALSE
  /\ answer' = "none"

Fail ==
  /\ client = "waiting"
  /\ failed' = TRUE
  /\ UNCHANGED <<client, answer>>

Answer ==
  /\ client = "waiting"
  /\ client' = "answered"
  /\ answer' = IF failed THEN "+NOK+" ELSE "+OK+"
  /\ UNCHANGED failed

Leave ==
  /\ client = "waiting"
  /\ client' = "gone"
  /\ UNCHANGED <<failed, answer>>

Next == Connect \/ Fail \/ Answer \/ Leave

Spec == Init /\ [][Next]_vars
=============================================================================
