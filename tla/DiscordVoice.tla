------------------------------ MODULE DiscordVoice ------------------------------
(***************************************************************************)
(* DiscordVoiceConnectionManager                                           *)
(* (internal/bridge/discord_connection_manager.go): the loop that joins    *)
(* the voice channel and watches the connection, and Stop.  What SetStatus *)
(* does with a status is in ConnectionState.                               *)
(*                                                                         *)
(* An open connection is healthy or not; whether joining works is up to    *)
(* the Discord client, which DiscordClient composes with this module.      *)
(* The monitor samples the health once a second, and seconds are its ticks. *)
(***************************************************************************)
EXTENDS ConnectionStatus, Naturals

CONSTANT SafetyTimeout   (* seconds; 30 in the code                           *)

ASSUME TimeoutAssumption == SafetyTimeout \in Nat

VARIABLES
  reachable,         (* the client is ready and its gateway up: joining may   *)
                     (* work                                                  *)
  healthy,           (* isConnectionHealthy of an open connection             *)
  voiceConn,         (* "none" or "open"                                      *)
  status, loop,      (* the status; where mainConnectionLoop is               *)
  wasHealthy,        (* of monitorConnection                                  *)
  unhealthyFor,      (* seconds since unhealthySince                          *)
  ctxDone, stop      (* the context is cancelled; where Stop is               *)

netVars     == <<reachable, healthy>>
monitorVars == <<wasHealthy, unhealthyFor>>
callVars    == <<ctxDone, stop>>
vars == <<netVars, voiceConn, status, loop, monitorVars, callVars>>

TypeOK ==
  /\ reachable \in BOOLEAN /\ healthy \in BOOLEAN
  /\ voiceConn \in {"none", "open"} /\ status \in Status
  /\ loop \in {"top", "joining", "opening", "opened", "pause", "monitor", "leaving", "done"}
  /\ wasHealthy \in BOOLEAN /\ unhealthyFor \in 0 .. SafetyTimeout
  /\ ctxDone \in BOOLEAN /\ stop \in {"idle", "base", "stopped"}

Init ==
  /\ reachable = FALSE /\ healthy = TRUE
  /\ voiceConn = "none" /\ status = "Disconnected" /\ loop = "top"
  /\ wasHealthy = TRUE /\ unhealthyFor = 0
  /\ ctxDone = FALSE /\ stop = "idle"

SetStatus(new) == status' = IF stop = "idle" THEN new ELSE status

-------------------------------------------------------------------------------
(* Discord.                                                                *)

HealthChanges ==
  /\ voiceConn = "open"
  /\ healthy' = ~healthy
  /\ UNCHANGED <<reachable, voiceConn, status, loop, monitorVars, callVars>>

-------------------------------------------------------------------------------
(* mainConnectionLoop and connectOnce.                                     *)

LoopTop ==
  /\ loop = "top"
  /\ IF ctxDone
     THEN voiceConn' = "none" /\ loop' = "done" /\ UNCHANGED status
     ELSE SetStatus("Connecting") /\ loop' = "joining" /\ UNCHANGED voiceConn
  /\ UNCHANGED <<netVars, monitorVars, callVars>>

(* waitForClientReady, CreateVoiceConnection and Open ...                  *)
JoinSucceeds ==
  /\ loop = "joining" /\ reachable
  /\ loop' = "opening"
  /\ UNCHANGED <<netVars, voiceConn, status, monitorVars, callVars>>

(* ... each of which may fail at any time.                                 *)
JoinFails ==
  /\ loop = "joining"
  /\ SetStatus("Failed")
  /\ loop' = "pause"
  /\ UNCHANGED <<netVars, voiceConn, monitorVars, callVars>>

(* The connection is stored, although Stop may have been called by now ... *)
Open ==
  /\ loop = "opening"
  /\ voiceConn' = "open"
  /\ loop' = "opened"
  /\ UNCHANGED <<netVars, status, monitorVars, callVars>>

(* ... and monitored.                                                      *)
SetConnected ==
  /\ loop = "opened"
  /\ SetStatus("Connected")
  /\ loop' = "monitor"
  /\ UNCHANGED <<netVars, voiceConn, monitorVars, callVars>>

(* Two seconds, or the context.                                            *)
Pause ==
  /\ loop = "pause"
  /\ \/ loop' = "top"
     \/ ctxDone /\ loop' = "done"
  /\ UNCHANGED <<netVars, voiceConn, status, monitorVars, callVars>>

-------------------------------------------------------------------------------
(* monitorConnection.                                                      *)

IsConnectionHealthy == voiceConn = "open" /\ healthy

(* Mutant of TickHealthy: a recovery is not reported.                      *)
TickHealthySilent ==
  /\ loop = "monitor" /\ IsConnectionHealthy
  /\ wasHealthy' = TRUE
  /\ unhealthyFor' = 0
  /\ UNCHANGED <<netVars, voiceConn, status, loop, callVars>>

TickHealthy ==
  /\ loop = "monitor" /\ IsConnectionHealthy
  /\ SetStatus("Connected")
  /\ wasHealthy' = TRUE
  /\ unhealthyFor' = 0
  /\ UNCHANGED <<netVars, voiceConn, loop, callVars>>

(* Mutant of TickUnhealthy: wasHealthy stays, every tick starts afresh.    *)
TickUnhealthyAfresh ==
  /\ loop = "monitor" /\ ~IsConnectionHealthy
  /\ SetStatus("Reconnecting")
  /\ unhealthyFor' = 0
  /\ UNCHANGED <<netVars, voiceConn, loop, wasHealthy, callVars>>

(* The first unhealthy tick notes the time, and the one that finds more    *)
(* than SafetyTimeout passed gives the connection up.                      *)
TickUnhealthy ==
  /\ loop = "monitor" /\ ~IsConnectionHealthy
  /\ IF wasHealthy
     THEN SetStatus("Reconnecting") /\ unhealthyFor' = 0 /\ UNCHANGED loop
     ELSE /\ IF unhealthyFor + 1 > SafetyTimeout
             THEN loop' = "leaving" /\ UNCHANGED unhealthyFor
             ELSE unhealthyFor' = unhealthyFor + 1 /\ UNCHANGED loop
          /\ UNCHANGED status
  /\ wasHealthy' = FALSE
  /\ UNCHANGED <<netVars, voiceConn, callVars>>

MonitorCancelled ==
  /\ loop = "monitor" /\ ctxDone
  /\ loop' = "leaving"
  /\ UNCHANGED <<netVars, voiceConn, status, monitorVars, callVars>>

(* disconnectInternal.  The next monitorConnection begins afresh.          *)
Leave ==
  /\ loop = "leaving"
  /\ voiceConn' = "none"
  /\ wasHealthy' = TRUE /\ unhealthyFor' = 0
  /\ loop' = "top"
  /\ UNCHANGED <<netVars, status, callVars>>

-------------------------------------------------------------------------------
(* The session cancels the context, and later calls Stop.                  *)

Cancel ==
  /\ ~ctxDone
  /\ ctxDone' = TRUE
  /\ UNCHANGED <<netVars, voiceConn, status, loop, monitorVars, stop>>

StopBase ==
  /\ ctxDone /\ stop = "idle"
  /\ stop' = "base"
  /\ UNCHANGED <<netVars, voiceConn, status, loop, monitorVars, ctxDone>>

StopConnection ==
  /\ stop = "base"
  /\ voiceConn' = "none"
  /\ stop' = "stopped"
  /\ UNCHANGED <<netVars, status, loop, monitorVars, ctxDone>>

-------------------------------------------------------------------------------

Loop ==
  \/ LoopTop \/ JoinSucceeds \/ JoinFails \/ Open \/ SetConnected \/ Pause
  \/ TickHealthy \/ TickUnhealthy \/ MonitorCancelled \/ Leave

VoiceStep == HealthChanges \/ Loop \/ Cancel \/ StopBase \/ StopConnection

-------------------------------------------------------------------------------
(* Properties.                                                             *)

(* Whoever reads Connected finds a connection, until the session cancels   *)
(* the loop (which then closes it without a status) or calls Stop.         *)
ConnectedIsOpen == status = "Connected" /\ ~ctxDone => voiceConn = "open"

(* An Open that succeeds while Stop runs leaves no connection behind.      *)
NoConnectionLeft == loop = "done" /\ stop = "stopped" => voiceConn = "none"

(* A connection that stays unhealthy is given up, and joined afresh.       *)
UnhealthyReplaced == <>[](~healthy /\ ~ctxDone) => []<>(loop = "top")

===============================================================================
