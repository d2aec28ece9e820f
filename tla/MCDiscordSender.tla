---------------------------- MODULE MCDiscordSender ----------------------------
(***************************************************************************)
(* DiscordSender for TLC, with the constants of the code.                  *)
(***************************************************************************)
EXTENDS DiscordSender
===============================================================================
