---------------------------- MODULE MCMumbleStreams ----------------------------
(***************************************************************************)
(* MumbleStreams for TLC.                                                  *)
(***************************************************************************)
EXTENDS MumbleStreams
===============================================================================
