--------------------------- MODULE ConnectionStatus ---------------------------
(***************************************************************************)
(* The status vocabulary the two connection managers share, and the status *)
(* changes each manager's goroutine can report (SetStatus is only called   *)
(* from that goroutine).  The loops themselves are in MumbleConnection and *)
(* DiscordVoice; that they report nothing else is proved, as ReportsAreKnown *)
(* of MumbleForwarderProofs and of DiscordClientProofs.                    *)
(***************************************************************************)

Service == {"discord", "mumble"}

Status == {"Disconnected", "Connecting", "Connected", "Reconnecting", "Failed"}

(* mainConnectionLoop, monitorConnection and connectOnce: a failed attempt *)
(* and a connection unhealthy for too long both lead to a new attempt.     *)
DiscordChange ==
  { <<"Disconnected", "Connecting">>, <<"Connecting", "Connected">>,
    <<"Connecting", "Failed">>,       <<"Failed", "Connecting">>,
    <<"Connected", "Reconnecting">>,  <<"Reconnecting", "Connected">>,
    <<"Reconnecting", "Connecting">> }

(* connectionLoop, connect and handleDisconnectEvent: Failed (kicked or    *)
(* banned) is final.                                                       *)
MumbleChange ==
  { <<"Disconnected", "Connecting">>, <<"Connecting", "Connected">>,
    <<"Connecting", "Reconnecting">>, <<"Reconnecting", "Connecting">>,
    <<"Connected", "Reconnecting">>,  <<"Connected", "Failed">> }

StatusChange(s) == IF s = "discord" THEN DiscordChange ELSE MumbleChange

===============================================================================
