-------------------------- MODULE MCEventDispatcher --------------------------
(***************************************************************************)
(* EventDispatcher for TLC: two emitters and a buffer they can fill.       *)
(***************************************************************************)
EXTENDS EventDispatcher
===============================================================================
