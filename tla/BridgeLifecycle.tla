---------------------------- MODULE BridgeLifecycle ----------------------------
(***************************************************************************)
(* What a bridge promises about its sessions, whoever asks for one: at     *)
(* most one session runs and at most one more is asked for, a request is   *)
(* accepted only while the bridge is inactive, and a session stops being   *)
(* active before it is taken down, so that the next may be asked for       *)
(* meanwhile.  A session that cannot be set up ends where it began.        *)
(***************************************************************************)
VARIABLES
  active,   (* a request was accepted and its session is not over             *)
  queued,   (* the accepted request waits for the last session to come down   *)
  phase     (* the session: none, running, or being taken down (ending)       *)

vars == <<active, queued, phase>>

Init == active = FALSE /\ queued = FALSE /\ phase = "none"

Request ==
  /\ ~active
  /\ active' = TRUE /\ queued' = TRUE
  /\ UNCHANGED phase

Begin ==
  /\ queued /\ phase = "none"
  /\ queued' = FALSE /\ phase' = "running"
  /\ UNCHANGED active

Abort ==
  /\ phase = "running"
  /\ phase' = "none"
  /\ UNCHANGED <<active, queued>>

End ==
  /\ phase = "running"
  /\ active' = FALSE /\ phase' = "ending"
  /\ UNCHANGED queued

Finish ==
  /\ phase = "ending"
  /\ phase' = "none"
  /\ UNCHANGED <<active, queued>>

Next == Request \/ Begin \/ Abort \/ End \/ Finish

Spec == Init /\ [][Next]_vars

===============================================================================
