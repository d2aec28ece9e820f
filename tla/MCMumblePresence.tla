--------------------------- MODULE MCMumblePresence ---------------------------
(***************************************************************************)
(* MumblePresence for TLC.  The state is finite as it stands; the           *)
(* configurations choose what may happen.  Calls to Discord fail and are    *)
(* slow in both.                                                            *)
(***************************************************************************)
EXTENDS MumblePresence

AllFaults == {"GetGuild", "GetUser", "slow"}

===============================================================================
