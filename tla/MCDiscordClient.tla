---------------------------- MODULE MCDiscordClient ----------------------------
(***************************************************************************)
(* DiscordClient, with DiscordVoice, for TLC.                              *)
(***************************************************************************)
EXTENDS DiscordClient
===============================================================================
