----------------------------- MODULE DiscordClient -----------------------------
(***************************************************************************)
(* The shared Discord client with its session monitor                      *)
(* (pkg/bridgelib/discord.go) over DisgoClient                             *)
(* (internal/discord/disgo_client.go), and the voice connection manager    *)
(* that needs it.  The disgo library (external) holds the gateway: it      *)
(* announces a session with a Ready event, and may bring a gateway that    *)
(* went down up again, or not.                                             *)
(*                                                                         *)
(* The monitor's loop samples IsReady, and when it was FALSE for long      *)
(* resets the session: Disconnect and Connect.  A stop does not wait for   *)
(* the loop, which reads the field ctx anew in every round.                *)
(***************************************************************************)
EXTENDS DiscordVoice

CONSTANTS
  MaxStarts,    (* bound: calls of Connect that start a monitor               *)
  ResetAfter    (* ticks (15 s) in the ten minutes before a reset             *)

ASSUME ClientAssumption == MaxStarts \in Nat \ {0} /\ ResetAfter \in Nat

VARIABLES
  gateway,            (* disgo's gateway: closed, up, or down                 *)
  readyEvent,         (* onReady is to be called                              *)
  ready,              (* of DisgoClient                                       *)
  monitoringEnabled,
  ctx,                (* the context in the field: that of the ctx-th start   *)
  ctxCancelled,       (* the starts whose context is cancelled                *)
  monitor,            (* where the loop of each start is                      *)
  watches,            (* the context in its select                            *)
  unhealthy,          (* ticks since unhealthySince                           *)
  caller              (* where the host's call of Connect or Disconnect is    *)

gatewayVars == <<gateway, readyEvent, ready>>
monitorLoopVars == <<monitor, watches, unhealthy>>
startVars   == <<monitoringEnabled, ctx, ctxCancelled>>
voiceVars   == <<healthy, voiceConn, status, loop, monitorVars, callVars>>
clientVars  == <<gatewayVars, monitorLoopVars, startVars, caller>>
allVars     == <<vars, clientVars>>

Monitor == 1 .. MaxStarts

ClientTypeOK ==
  /\ TypeOK
  /\ gateway \in {"closed", "up", "down"} /\ readyEvent \in BOOLEAN /\ ready \in BOOLEAN
  /\ monitoringEnabled \in BOOLEAN /\ ctx \in 0 .. MaxStarts /\ ctxCancelled \subseteq Monitor
  /\ monitor \in [Monitor -> {"off", "top", "select", "close", "clear", "open", "gone"}]
  /\ watches \in [Monitor -> 0 .. MaxStarts] /\ unhealthy \in [Monitor -> 0 .. ResetAfter]
  /\ caller \in {"idle", "starting", "closing", "clearing"}

ClientInit ==
  /\ Init
  /\ gateway = "closed" /\ readyEvent = FALSE /\ ready = FALSE
  /\ monitoringEnabled = FALSE /\ ctx = 0 /\ ctxCancelled = {}
  /\ monitor = [m \in Monitor |-> "off"] /\ watches = [m \in Monitor |-> 0]
  /\ unhealthy = [m \in Monitor |-> 0]
  /\ caller = "idle"

(* Joining may work with a ready client whose gateway is up.               *)
Reachable == ready /\ gateway = "up"

-------------------------------------------------------------------------------
(* Discord and disgo.                                                      *)

GatewayDrops ==
  /\ gateway = "up"
  /\ gateway' = "down"
  /\ UNCHANGED <<readyEvent, ready, monitorLoopVars, startVars, caller>>

(* disgo reconnects, resuming the session or with a new one.               *)
Reconnects ==
  /\ gateway = "down"
  /\ gateway' = "up" /\ readyEvent' \in {readyEvent, TRUE}
  /\ UNCHANGED <<ready, monitorLoopVars, startVars, caller>>

(* onReady.  Nothing clears ready but Disconnect.                          *)
OnReady ==
  /\ readyEvent
  /\ readyEvent' = FALSE /\ ready' = TRUE
  /\ UNCHANGED <<gateway, monitorLoopVars, startVars, caller>>

(* DisgoClient.Connect may fail, and fails with a gateway that is open.    *)
Opens ==
  /\ gateway = "closed"
  /\ gateway' = "up" /\ readyEvent' = TRUE
  /\ UNCHANGED ready

(* DisgoClient.Disconnect closes the gateway and then clears ready.        *)
CloseGateway == gateway' = "closed" /\ UNCHANGED <<readyEvent, ready>>

ClearReady == ready' = FALSE /\ UNCHANGED <<gateway, readyEvent>>

-------------------------------------------------------------------------------
(* Connect and Disconnect of SharedDiscordClient, called by the host.  An  *)
(* error of the client is returned, and no monitor started.                *)

Connect ==
  /\ caller = "idle" /\ ctx < MaxStarts
  /\ Opens
  /\ caller' = "starting"
  /\ UNCHANGED <<monitorLoopVars, startVars>>

(* Mutant of StartSessionMonitoring: the context of the first is used.     *)
StartWithOldContext ==
  /\ caller = "starting"
  /\ caller' = "idle"
  /\ IF monitoringEnabled
     THEN UNCHANGED <<startVars, monitor>>
     ELSE /\ monitoringEnabled' = TRUE /\ ctx' = ctx + 1
          /\ ctxCancelled' = IF ctx > 0 THEN ctxCancelled \cup {ctx + 1} ELSE ctxCancelled
          /\ monitor' = [monitor EXCEPT ![ctx + 1] = "top"]
  /\ UNCHANGED <<gatewayVars, watches, unhealthy>>

StartSessionMonitoring ==
  /\ caller = "starting"
  /\ caller' = "idle"
  /\ IF monitoringEnabled
     THEN UNCHANGED <<startVars, monitor>>
     ELSE /\ monitoringEnabled' = TRUE /\ ctx' = ctx + 1
          /\ monitor' = [monitor EXCEPT ![ctx + 1] = "top"]
          /\ UNCHANGED ctxCancelled
  /\ UNCHANGED <<gatewayVars, watches, unhealthy>>

(* Mutant of StopSessionMonitoring: the context is not cancelled.          *)
StopWithoutCancel ==
  /\ caller = "idle" /\ ctx > 0
  /\ caller' = "closing"
  /\ monitoringEnabled' = FALSE
  /\ UNCHANGED <<gatewayVars, monitorLoopVars, ctx, ctxCancelled>>

StopSessionMonitoring ==
  /\ caller = "idle" /\ ctx > 0
  /\ caller' = "closing"
  /\ monitoringEnabled' = FALSE
  /\ ctxCancelled' = IF monitoringEnabled THEN ctxCancelled \cup {ctx} ELSE ctxCancelled
  /\ UNCHANGED <<gatewayVars, monitorLoopVars, ctx>>

DisconnectClient ==
  /\ \/ caller = "closing" /\ CloseGateway /\ caller' = "clearing"
     \/ caller = "clearing" /\ ClearReady /\ caller' = "idle"
  /\ UNCHANGED <<monitorLoopVars, startVars>>

-------------------------------------------------------------------------------
(* sessionMonitorLoop of the m-th start.                                   *)

Goes(m, where) == monitor' = [monitor EXCEPT ![m] = where]

MonitorSelect(m) ==
  /\ monitor[m] = "top"
  /\ Goes(m, "select") /\ watches' = [watches EXCEPT ![m] = ctx]
  /\ UNCHANGED <<gatewayVars, unhealthy, startVars, caller>>

MonitorExit(m) ==
  /\ monitor[m] = "select" /\ watches[m] \in ctxCancelled
  /\ Goes(m, "gone")
  /\ watches' = [watches EXCEPT ![m] = 0] /\ unhealthy' = [unhealthy EXCEPT ![m] = 0]
  /\ UNCHANGED <<gatewayVars, startVars, caller>>

(* Mutant of MonitorTick: what is closed already is not reset.             *)
MonitorTickSparesClosed(m) ==
  /\ monitor[m] = "select"
  /\ IF ready
     THEN unhealthy' = [unhealthy EXCEPT ![m] = 0] /\ Goes(m, "top")
     ELSE IF unhealthy[m] < ResetAfter
     THEN unhealthy' = [unhealthy EXCEPT ![m] = @ + 1] /\ Goes(m, "top")
     ELSE /\ unhealthy' = [unhealthy EXCEPT ![m] = 0]
          /\ Goes(m, IF gateway = "closed" THEN "top" ELSE "close")
  /\ watches' = [watches EXCEPT ![m] = 0]
  /\ UNCHANGED <<gatewayVars, startVars, caller>>

(* A tick: the time since IsReady is FALSE is kept, and too much of it     *)
(* leads to the reset.                                                     *)
MonitorTick(m) ==
  /\ monitor[m] = "select"
  /\ IF ready
     THEN unhealthy' = [unhealthy EXCEPT ![m] = 0] /\ Goes(m, "top")
     ELSE IF unhealthy[m] < ResetAfter
     THEN unhealthy' = [unhealthy EXCEPT ![m] = @ + 1] /\ Goes(m, "top")
     ELSE unhealthy' = [unhealthy EXCEPT ![m] = 0] /\ Goes(m, "close")
  /\ watches' = [watches EXCEPT ![m] = 0]
  /\ UNCHANGED <<gatewayVars, startVars, caller>>

(* lastResortSessionReset.                                                 *)
LastResort(m) ==
  /\ \/ monitor[m] = "close" /\ CloseGateway /\ Goes(m, "clear")
     \/ monitor[m] = "clear" /\ ClearReady /\ Goes(m, "open")
     \/ monitor[m] = "open" /\ (Opens \/ UNCHANGED gatewayVars) /\ Goes(m, "top")
  /\ UNCHANGED <<watches, unhealthy, startVars, caller>>

-------------------------------------------------------------------------------

Host == StartSessionMonitoring \/ DisconnectClient

MonitorStep(m) == MonitorSelect(m) \/ MonitorExit(m) \/ MonitorTick(m) \/ LastResort(m)

ClientStep ==
  /\ \/ GatewayDrops \/ Reconnects \/ OnReady
     \/ Connect \/ StopSessionMonitoring \/ Host
     \/ \E m \in Monitor : MonitorStep(m)
  /\ reachable' = Reachable'
  /\ UNCHANGED voiceVars

ClientNext == ClientStep \/ (VoiceStep /\ UNCHANGED clientVars)

ClientSpec == ClientInit /\ [][ClientNext]_allVars

(* Every goroutine of the program goes on, and events are delivered.       *)
(* (disgo may fail to reconnect for ever.)  Joining a reachable channel    *)
(* does not fail for ever.                                                 *)
Taken(step) == step /\ reachable' = Reachable' /\ UNCHANGED voiceVars
FairClientSpec ==
  /\ ClientSpec
  /\ WF_allVars(Loop /\ UNCHANGED clientVars)
  /\ SF_allVars(JoinSucceeds /\ UNCHANGED clientVars)
  /\ WF_allVars(Taken(OnReady)) /\ WF_allVars(Taken(Host))
  /\ \A m \in Monitor :
       WF_allVars(Taken(MonitorStep(m))) /\ SF_allVars(Taken(MonitorExit(m)))

-------------------------------------------------------------------------------
(* Properties.                                                             *)

(* While monitoring is enabled there is a loop that will go on, although   *)
(* stops and starts do not wait for loops.                                 *)
MonitorAlive ==
  monitoringEnabled =>
    \E m \in Monitor :
      /\ monitor[m] \notin {"off", "gone"}
      /\ monitor[m] = "select" => watches[m] \notin ctxCancelled

(* The voice manager's invariants hold over this client.                   *)
DiscordInv == ClientTypeOK /\ ConnectedIsOpen /\ NoConnectionLeft /\ MonitorAlive

(* Once monitoring is stopped for good every loop leaves, also one that    *)
(* was in a reset, or went on under a later context.                       *)
MonitorsLeave ==
  <>[](~monitoringEnabled) => <>[](\A m \in Monitor : monitor[m] \in {"off", "gone"})

Resetting == \E m \in Monitor : monitor[m] = "close"

(* A client that does not get ready is reset, and again.                   *)
UnreadyReset == <>[](~ready /\ monitoringEnabled) => []<>Resetting

(* With a gateway that stays up and a healthy connection, the bot is       *)
(* connected in the end, whatever resets and reconnections went before.    *)
StaysConnected ==
  <>[](gateway = "up" /\ healthy /\ ~ctxDone /\ monitoringEnabled /\ caller = "idle")
    => <>[](status = "Connected")

(* "Called after 10+ minutes of unhealthy state when the library's own     *)
(* reconnection has failed persistently" (pkg/bridgelib/discord.go).       *)
LastResortComes == <>[](gateway = "down" /\ monitoringEnabled) => []<>Resetting

===============================================================================
