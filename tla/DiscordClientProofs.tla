-------------------------- MODULE DiscordClientProofs --------------------------
(***************************************************************************)
(* The safety of the Discord voice connection manager and of the session   *)
(* monitor it depends on, for any safety timeout, any number of starts and *)
(* any time before a reset.                                                *)
(***************************************************************************)
EXTENDS DiscordClient, TLAPS

(* Until Stop silences SetStatus, the status tells where the loop is; a    *)
(* loop whose context is cancelled may leave the monitor as it was.        *)
StatusOfLoop ==
  stop = "idle" =>
    /\ loop = "top" => status \in {"Disconnected", "Failed", "Reconnecting"} \/ ctxDone
    /\ loop \in {"joining", "opening", "opened"} => status = "Connecting"
    /\ loop = "pause" => status = "Failed"
    /\ loop = "monitor" => status = IF wasHealthy THEN "Connected" ELSE "Reconnecting"
    /\ loop = "leaving" => status = "Reconnecting" \/ ctxDone
    /\ loop = "done" => ctxDone

StopIsLate == stop # "idle" => ctxDone

(* The loop holds a connection from Open to Leave, unless Stop takes it.   *)
OpenWhileWatched ==
  /\ loop \in {"top", "joining", "opening", "pause", "done"} => voiceConn = "none"
  /\ loop \in {"opened", "monitor"} /\ ~ctxDone => voiceConn = "open"

(* Each monitorConnection begins with wasHealthy.                          *)
MonitorAfresh == loop \notin {"monitor", "leaving"} => wasHealthy

VoiceInv == TypeOK /\ StatusOfLoop /\ StopIsLate /\ OpenWhileWatched /\ MonitorAfresh

(* Loops are started one context after the other, and each watches its own *)
(* or a later one; the latest is not cancelled while monitoring is on.     *)
LatestWatches ==
  /\ caller = "starting" => ctx < MaxStarts
  /\ ctxCancelled \subseteq 1 .. ctx
  /\ \A m \in Monitor :
       /\ m <= ctx <=> monitor[m] # "off"
       /\ watches[m] <= ctx
       /\ monitor[m] = "select" => watches[m] >= m
  /\ monitoringEnabled =>
       ctx \in Monitor /\ ctx \notin ctxCancelled /\ monitor[ctx] # "gone"

ClientInv == ClientTypeOK /\ LatestWatches

IInv == VoiceInv /\ ClientInv

(* The invariant holds at first.                                           *)
LEMMA InitIInv == ClientInit => IInv
  <1> SUFFICES ASSUME ClientInit PROVE IInv
    OBVIOUS
  <1> USE TimeoutAssumption, ClientAssumption DEF TimeoutAssumption, ClientAssumption,
        ClientInit, Init
  <1>1. TypeOK
    <2>1. unhealthyFor \in 0 .. SafetyTimeout /\ status \in Status
      BY DEF Status
    <2> QED
      BY <2>1, Zenon DEF TypeOK
  <1>2. StatusOfLoop /\ StopIsLate /\ OpenWhileWatched /\ MonitorAfresh
    BY DEF StatusOfLoop, StopIsLate, OpenWhileWatched, MonitorAfresh
  <1>3. ClientTypeOK
    <2>1. monitor \in [Monitor -> {"off", "top", "select", "close", "clear", "open", "gone"}]
      OBVIOUS
    <2>2. watches \in [Monitor -> 0 .. MaxStarts] /\ unhealthy \in [Monitor -> 0 .. ResetAfter]
          /\ ctx \in 0 .. MaxStarts
      OBVIOUS
    <2> QED
      BY <1>1, <2>1, <2>2 DEF ClientTypeOK
  <1>4. LatestWatches
    BY DEF LatestWatches, Monitor
  <1> QED
    BY <1>1, <1>2, <1>3, <1>4 DEF IInv, VoiceInv, ClientInv

-------------------------------------------------------------------------------
(* The voice manager.                                                      *)

(* mainConnectionLoop and monitorConnection, and what they report.         *)
LEMMA LoopStep ==
  ASSUME VoiceInv, Loop
  PROVE  VoiceInv' /\ (status' # status => <<status, status'>> \in DiscordChange)
  <1> USE TimeoutAssumption DEF TimeoutAssumption, VoiceInv, TypeOK, StatusOfLoop, StopIsLate,
        OpenWhileWatched, MonitorAfresh, SetStatus, Status, DiscordChange,
        netVars, monitorVars, callVars
  <1>1. CASE LoopTop
    BY <1>1 DEF LoopTop
  <1>2. CASE JoinSucceeds \/ JoinFails
    BY <1>2 DEF JoinSucceeds, JoinFails
  <1>3. CASE Open
    BY <1>3 DEF Open
  <1>4. CASE SetConnected
    BY <1>4 DEF SetConnected
  <1>5. CASE Pause
    BY <1>5 DEF Pause
  <1>6. CASE TickHealthy
    BY <1>6 DEF TickHealthy, IsConnectionHealthy
  <1>7. CASE TickUnhealthy
    <2>1. CASE wasHealthy
      <3>1. /\ wasHealthy' = FALSE /\ unhealthyFor' = 0
            /\ status' = IF stop = "idle" THEN "Reconnecting" ELSE status
            /\ loop = "monitor" /\ UNCHANGED <<loop, netVars, voiceConn, callVars>>
        BY <1>7, <2>1 DEF TickUnhealthy
      <3>2. wasHealthy' \in BOOLEAN
        BY <3>1, Zenon
      <3>3. unhealthyFor' \in 0 .. SafetyTimeout
        BY <3>1
      <3>5. TypeOK'
        BY <3>1, <3>2, <3>3
      <3>4. stop = "idle" => status = "Connected"
        BY <2>1, <3>1
      <3> QED
        BY <3>1, <3>4, <3>5
    <2>2. CASE ~wasHealthy
      <3>1. status' = status /\ wasHealthy' = FALSE /\ UNCHANGED <<netVars, voiceConn, callVars>>
        BY <1>7, <2>2 DEF TickUnhealthy
      <3>2. \/ loop' = "leaving" /\ unhealthyFor' = unhealthyFor
            \/ loop' = "monitor" /\ unhealthyFor' = unhealthyFor + 1
               /\ ~(unhealthyFor + 1 > SafetyTimeout)
        BY <1>7, <2>2 DEF TickUnhealthy
      <3>3. unhealthyFor' \in 0 .. SafetyTimeout
        BY <3>2
      <3>4. stop = "idle" => status = "Reconnecting"
        BY <1>7, <2>2 DEF TickUnhealthy
      <3>5. OpenWhileWatched'
        BY <1>7, <3>1, <3>2 DEF TickUnhealthy
      <3>6. wasHealthy' \in BOOLEAN
        BY <3>1
      <3>7. TypeOK'
        BY <3>1, <3>2, <3>3, <3>6
      <3> QED
        BY <3>1, <3>2, <3>4, <3>5, <3>7
    <2> QED
      BY <2>1, <2>2
  <1>8. CASE MonitorCancelled
    BY <1>8 DEF MonitorCancelled
  <1>9. CASE Leave
    BY <1>9 DEF Leave
  <1> QED
    BY <1>1, <1>2, <1>3, <1>4, <1>5, <1>6, <1>7, <1>8, <1>9 DEF Loop

(* What happens around the loop: health, the session's cancel, and Stop.   *)
LEMMA VoiceAround ==
  ASSUME VoiceInv, HealthChanges \/ Cancel \/ StopBase \/ StopConnection
  PROVE  VoiceInv' /\ status' = status
  <1> USE DEF VoiceInv, TypeOK, StatusOfLoop, StopIsLate, OpenWhileWatched, MonitorAfresh,
        netVars, monitorVars, callVars
  <1>1. CASE HealthChanges
    <2>1. healthy' \in BOOLEAN
      BY <1>1, Zenon DEF HealthChanges
    <2> QED
      BY <1>1, <2>1 DEF HealthChanges
  <1>2. CASE Cancel
    BY <1>2 DEF Cancel
  <1>3. CASE StopBase
    BY <1>3 DEF StopBase
  <1>4. CASE StopConnection
    BY <1>4 DEF StopConnection
  <1> QED
    BY <1>1, <1>2, <1>3, <1>4

-------------------------------------------------------------------------------
(* The client.                                                             *)

(* A step of disgo, of the host or of a monitor leaves the voice manager   *)
(* as it is, but for what it finds of the client.                          *)
LEMMA ClientStepVoice ==
  ASSUME VoiceInv, reachable' = Reachable', UNCHANGED voiceVars
  PROVE  VoiceInv' /\ status' = status
  <1>1. reachable' \in BOOLEAN
    BY Zenon DEF Reachable
  <1> QED
    BY <1>1 DEF VoiceInv, TypeOK, StatusOfLoop, StopIsLate, OpenWhileWatched, MonitorAfresh,
       voiceVars, monitorVars, callVars

(* disgo's events, and the calls of the host.                              *)
LEMMA HostStep ==
  ASSUME IInv, TypeOK',
         \/ GatewayDrops \/ Reconnects \/ OnReady \/ Connect
         \/ StopSessionMonitoring \/ StartSessionMonitoring \/ DisconnectClient
  PROVE  ClientInv'
  <1> USE ClientAssumption DEF ClientAssumption, IInv, ClientInv, ClientTypeOK, LatestWatches,
        Monitor, gatewayVars, monitorLoopVars, startVars
  <1>1. CASE GatewayDrops
    BY <1>1 DEF GatewayDrops
  <1>2. CASE Reconnects
    <2>1. readyEvent' \in BOOLEAN
      BY <1>2, Zenon DEF Reconnects
    <2> QED
      BY <1>2, <2>1 DEF Reconnects
  <1>3. CASE OnReady
    BY <1>3 DEF OnReady
  <1>4. CASE Connect
    BY <1>4 DEF Connect, Opens
  <1>5. CASE StopSessionMonitoring
    <2>1. /\ UNCHANGED <<gatewayVars, monitorLoopVars, ctx>> /\ ctx > 0
          /\ caller' = "closing" /\ monitoringEnabled' = FALSE
      BY <1>5 DEF StopSessionMonitoring
    <2>2. ctxCancelled' \subseteq 1 .. ctx
      BY <1>5, <2>1 DEF StopSessionMonitoring
    <2>3. monitoringEnabled' \in BOOLEAN
      BY <2>1, Zenon
    <2>4. ClientTypeOK'
      BY <2>1, <2>2, <2>3
    <2>5. LatestWatches'
      BY <2>1, <2>2
    <2> HIDE DEF ClientTypeOK, LatestWatches
    <2> QED
      BY <2>4, <2>5
  <1>6. CASE StartSessionMonitoring
    <2>1. CASE monitoringEnabled
      <3>1. caller' = "idle" /\ UNCHANGED <<startVars, monitor, gatewayVars, watches, unhealthy>>
        BY <1>6, <2>1 DEF StartSessionMonitoring
      <3>2. ClientTypeOK'
        BY <3>1
      <3>3. LatestWatches'
        BY <3>1
      <3> HIDE DEF ClientTypeOK, LatestWatches
      <3> QED
        BY <3>2, <3>3
    <2>2. CASE ~monitoringEnabled
      <3>1. /\ caller' = "idle" /\ monitoringEnabled' = TRUE /\ ctx' = ctx + 1
            /\ monitor' = [monitor EXCEPT ![ctx + 1] = "top"] /\ ctxCancelled' = ctxCancelled
            /\ UNCHANGED <<gatewayVars, watches, unhealthy>>
        BY <1>6, <2>2 DEF StartSessionMonitoring
      <3>2. ctx + 1 \in Monitor /\ ctx + 1 \notin ctxCancelled
        BY <1>6 DEF StartSessionMonitoring
      <3>3. monitoringEnabled' \in BOOLEAN
        BY <3>1, Zenon
      <3>4. monitor' \in [Monitor -> {"off", "top", "select", "close", "clear", "open", "gone"}]
        BY <3>1
      <3>5. ClientTypeOK'
        BY <3>1, <3>2, <3>3, <3>4
      <3>6. LatestWatches'
        BY <3>1, <3>2
      <3> QED
        BY <3>5, <3>6
    <2> QED
      BY <2>1, <2>2
  <1>7. CASE DisconnectClient
    BY <1>7 DEF DisconnectClient, CloseGateway, ClearReady
  <1> QED
    BY <1>1, <1>2, <1>3, <1>4, <1>5, <1>6, <1>7

(* sessionMonitorLoop, and the reset it ends in.                           *)
LEMMA MonitorLoopStep ==
  ASSUME IInv, TypeOK', NEW m \in Monitor, MonitorStep(m)
  PROVE  ClientInv'
  <1> USE ClientAssumption DEF ClientAssumption, IInv, ClientInv, ClientTypeOK, LatestWatches,
        Monitor, gatewayVars, monitorLoopVars, startVars, Goes
  <1>1. CASE MonitorSelect(m)
    <2>1. ClientTypeOK'
      BY <1>1 DEF MonitorSelect
    <2>2. LatestWatches'
      BY <1>1 DEF MonitorSelect
    <2> HIDE DEF ClientTypeOK, LatestWatches
    <2> QED
      BY <2>1, <2>2
  <1>2. CASE MonitorExit(m)
    <2>1. ClientTypeOK'
      BY <1>2 DEF MonitorExit
    <2>2. monitoringEnabled => m # ctx
      BY <1>2 DEF MonitorExit
    <2>3. LatestWatches'
      BY <1>2, <2>2 DEF MonitorExit
    <2> HIDE DEF ClientTypeOK, LatestWatches
    <2> QED
      BY <2>1, <2>3
  <1>3. CASE MonitorTick(m)
    <2>1. \E w \in {"top", "close"}, n \in 0 .. ResetAfter :
            /\ monitor' = [monitor EXCEPT ![m] = w]
            /\ unhealthy' = [unhealthy EXCEPT ![m] = n]
      <3>1. unhealthy[m] \in 0 .. ResetAfter /\ 0 \in 0 .. ResetAfter
        OBVIOUS
      <3>2. unhealthy[m] < ResetAfter => unhealthy[m] + 1 \in 0 .. ResetAfter
        BY <3>1
      <3> HIDE DEF IInv
      <3> QED
        BY <1>3, <3>1, <3>2 DEF MonitorTick
    <2>2. PICK w \in {"top", "close"}, n \in 0 .. ResetAfter :
            /\ monitor' = [monitor EXCEPT ![m] = w]
            /\ unhealthy' = [unhealthy EXCEPT ![m] = n]
      BY <2>1
    <2>3. /\ watches' = [watches EXCEPT ![m] = 0] /\ UNCHANGED <<gatewayVars, startVars, caller>>
          /\ monitor[m] = "select"
      BY <1>3 DEF MonitorTick
    <2>4. ClientTypeOK'
      BY <2>2, <2>3
    <2>5. LatestWatches'
      BY <2>2, <2>3
    <2> HIDE DEF ClientTypeOK, LatestWatches
    <2> QED
      BY <2>4, <2>5
  <1>4. CASE LastResort(m)
    <2>1. gateway' \in {"closed", "up", "down"} /\ readyEvent' \in BOOLEAN /\ ready' \in BOOLEAN
      <3>1. UNCHANGED gatewayVars \/ Opens \/ CloseGateway \/ ClearReady
        BY <1>4 DEF LastResort
      <3> QED
        BY <3>1, Zenon DEF Opens, CloseGateway, ClearReady
    <2>2. monitor' \in [Monitor -> {"off", "top", "select", "close", "clear", "open", "gone"}]
          /\ (\A n \in Monitor : n # m => monitor'[n] = monitor[n])
          /\ monitor'[m] \in {"clear", "open", "top"}
      BY <1>4 DEF LastResort
    <2>3. /\ UNCHANGED <<watches, unhealthy, startVars, caller>>
          /\ monitor[m] \in {"close", "clear", "open"}
      BY <1>4 DEF LastResort
    <2>4. ClientTypeOK'
      BY <2>1, <2>2, <2>3
    <2>5. LatestWatches'
      BY <2>2, <2>3
    <2> HIDE DEF ClientTypeOK, LatestWatches
    <2> QED
      BY <2>4, <2>5
  <1> QED
    BY <1>1, <1>2, <1>3, <1>4 DEF MonitorStep

-------------------------------------------------------------------------------
(* The two together.                                                       *)

(* Each step.                                                              *)
LEMMA NextStep ==
  ASSUME IInv, ClientNext
  PROVE  IInv' /\ (status' # status => <<status, status'>> \in DiscordChange)
  <1>1. CASE ClientStep
    <2>1. VoiceInv' /\ status' = status
      BY <1>1, ClientStepVoice DEF ClientStep, IInv
    <2>2. TypeOK'
      BY <2>1 DEF VoiceInv
    <2>3. ClientInv'
      BY <1>1, <2>2, HostStep, MonitorLoopStep DEF ClientStep, Host
    <2> QED
      BY <2>1, <2>3 DEF IInv
  <1>2. CASE VoiceStep /\ UNCHANGED clientVars
    <2>1. VoiceInv' /\ (status' # status => <<status, status'>> \in DiscordChange)
      BY <1>2, LoopStep, VoiceAround DEF VoiceStep, IInv
    <2>2. TypeOK'
      BY <2>1 DEF VoiceInv
    <2>3. ClientInv'
      BY <1>2, <2>2 DEF IInv, ClientInv, ClientTypeOK, LatestWatches, clientVars, gatewayVars,
         monitorLoopVars, startVars
    <2> QED
      BY <2>1, <2>3 DEF IInv
  <1> QED
    BY <1>1, <1>2 DEF ClientNext

(* A step that changes nothing.                                            *)
LEMMA StutterStep ==
  ASSUME IInv, UNCHANGED allVars
  PROVE  IInv' /\ status' = status
  <1>1. VoiceInv' /\ status' = status
    BY DEF IInv, VoiceInv, TypeOK, StatusOfLoop, StopIsLate, OpenWhileWatched, MonitorAfresh,
       allVars, vars, netVars, monitorVars, callVars
  <1>2. TypeOK'
    BY <1>1 DEF VoiceInv
  <1>3. ClientInv'
    BY <1>2 DEF IInv, ClientInv, ClientTypeOK, LatestWatches, allVars, clientVars,
       gatewayVars, monitorLoopVars, startVars
  <1> QED
    BY <1>1, <1>3 DEF IInv

(* The inductive invariant: the parts above hold in every state.           *)
THEOREM IInvCorrect == ClientSpec => []IInv
  <1>1. IInv /\ [ClientNext]_allVars => IInv'
    BY NextStep, StutterStep
  <1> QED
    BY <1>1, InitIInv, PTL DEF ClientSpec

(* A status of Connected stands for an open connection, one that opens     *)
(* while Stop runs is closed again, and as long as monitoring is enabled   *)
(* the latest sessionMonitorLoop goes on, whatever earlier ones do.        *)
THEOREM ClientSafe == ClientSpec => []DiscordInv
  <1>1. VoiceInv => ConnectedIsOpen /\ NoConnectionLeft
    BY DEF VoiceInv, TypeOK, StatusOfLoop, StopIsLate, OpenWhileWatched, ConnectedIsOpen,
       NoConnectionLeft
  <1>2. ClientInv => MonitorAlive
    <2> SUFFICES ASSUME ClientInv, monitoringEnabled PROVE MonitorAlive
      BY DEF MonitorAlive
    <2>1. ctx \in Monitor /\ ctx \notin ctxCancelled /\ monitor[ctx] \notin {"off", "gone"}
      BY DEF ClientInv, ClientTypeOK, LatestWatches
    <2>2. monitor[ctx] = "select" => watches[ctx] = ctx
      BY <2>1 DEF ClientInv, ClientTypeOK, LatestWatches
    <2> QED
      BY <2>1, <2>2 DEF MonitorAlive
  <1>3. IInv => DiscordInv
    BY <1>1, <1>2 DEF IInv, ClientInv, DiscordInv
  <1> QED
    BY <1>3, IInvCorrect, PTL

(* The status changes that ConnectionState takes from the Discord manager  *)
(* are all that there are.                                                 *)
THEOREM ReportsAreKnown ==
  ClientSpec => [][status' # status => <<status, status'>> \in DiscordChange]_allVars
  <1>1. IInv /\ [ClientNext]_allVars
          => [status' # status => <<status, status'>> \in DiscordChange]_allVars
    BY NextStep
  <1> QED
    BY <1>1, IInvCorrect, PTL DEF ClientSpec

===============================================================================
