--------------------------- MODULE MCBridgeInstance ---------------------------
(***************************************************************************)
(* BridgeInstance, with BridgeSession, for TLC.  One of the callers is the *)
(* mode's own goroutine.  Two callers: a session that is taking down, and *)
(* a start that is queued behind it.  Two senders: one can be heard while  *)
(* the other is still blocked.  The bounds on Start and Stop allow one     *)
(* restart and the stop of what was restarted.                             *)
(***************************************************************************)
EXTENDS BridgeInstance

===============================================================================
