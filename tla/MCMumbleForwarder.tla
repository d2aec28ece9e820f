--------------------------- MODULE MCMumbleForwarder ---------------------------
(***************************************************************************)
(* MumbleForwarder, with MumbleConnection, for TLC.                        *)
(***************************************************************************)
EXTENDS MumbleForwarder
===============================================================================
