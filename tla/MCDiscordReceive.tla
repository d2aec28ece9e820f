---------------------------- MODULE MCDiscordReceive ----------------------------
(***************************************************************************)
(* DiscordReceive for TLC.                                                 *)
(***************************************************************************)
EXTENDS DiscordReceive
===============================================================================
