--------------------------- MODULE MCConnectionState ---------------------------
(* Model-checking instance of ConnectionState.  The bounds are in the .cfg *)
(* files: a channel of one event overflows at every second change; one of  *)
(* two keeps one old event and drops the other; one pending populate       *)
(* goroutine is enough to make a second announcement possible.             *)
EXTENDS ConnectionState

===============================================================================
