-------------------------- MODULE MumbleForwarderProofs --------------------------
(***************************************************************************)
(* The safety of the Mumble connection manager and of the forwarder over   *)
(* it, for any number of channels, of clients of earlier sessions, and of  *)
(* disconnects to be reported.                                             *)
(***************************************************************************)
EXTENDS MumbleForwarder, TLAPS

(* Until Stop silences SetStatus, the status tells where the loop is.      *)
StatusOfLoop ==
  stop = "idle" =>
    /\ loop = "top" => status \in {"Disconnected", "Reconnecting", "Failed"}
    /\ loop = "connecting" => status \in {"Disconnected", "Reconnecting"}
    /\ loop \in {"dialing", "dialed", "failed", "connected"} => status = "Connecting"
    /\ loop = "pause" => status = "Reconnecting"
    /\ loop = "waiting" => status = "Connected"

StopIsLate == stop # "idle" => ctxDone

(* From the dial on, a client that has gone leaves a trace.                *)
LossIsKnown ==
  loop \in {"dialed", "connected", "waiting"} /\ client # "live" =>
    disconnectCh # "empty" \/ ctxDone \/ \E t \in EventType : reporting[t] > 0

DoneIsAlone == loop = "done" => client = "none"

ManagerInv == StatusOfLoop /\ StopIsLate /\ LossIsKnown /\ DoneIsAlone

IInv == ForwarderTypeOK /\ ManagerInv /\ ChannelsIntact

(* A report is one more of its type.                                       *)
LEMMA ReportCounts ==
  ASSUME TypeOK, NEW t \in EventType, Report(t)
  PROVE  /\ reporting' \in [EventType -> 0 .. MaxEvents]
         /\ \E u \in EventType : reporting'[u] > 0
  BY ClientsAssumption DEF ClientsAssumption, TypeOK, Report

(* disconnectInternal loses no client without a report.                    *)
LEMMA DisconnectInternalSafe ==
  ASSUME TypeOK, DisconnectInternal
  PROVE  /\ client' = "none" /\ audioOutgoing' = "nil"
         /\ reporting' \in [EventType -> 0 .. MaxEvents]
         /\ client = "live" => \E u \in EventType : reporting'[u] > 0
         /\ client # "live" => reporting' = reporting
         /\ UNCHANGED <<others, serverUp, disconnectCh>>
  BY ReportCounts DEF DisconnectInternal, TypeOK, EventType

(* The invariant holds at first.                                           *)
LEMMA InitIInv == ForwarderInit => IInv
  <1> SUFFICES ASSUME ForwarderInit PROVE IInv
    OBVIOUS
  <1>1. reporting \in [EventType -> 0 .. MaxEvents]
    BY ClientsAssumption, EnoughAssumption DEF ClientsAssumption, EnoughAssumption,
       ForwarderInit, Init
  <1>2. ForwarderTypeOK
    BY <1>1 DEF ForwarderInit, Init, ForwarderTypeOK, TypeOK, Status
  <1>3. ManagerInv /\ ChannelsIntact
    BY DEF ForwarderInit, Init, ManagerInv, StatusOfLoop, StopIsLate, LossIsKnown,
       DoneIsAlone, ChannelsIntact
  <1> QED
    BY <1>2, <1>3 DEF IInv

(* connectionLoop, step by step.                                           *)
LEMMA LoopStep ==
  ASSUME TypeOK, ManagerInv, Loop
  PROVE  /\ TypeOK' /\ ManagerInv'
         /\ status' # status => <<status, status'>> \in MumbleChange
         /\ audioOutgoing' \in {audioOutgoing, "nil"}
  <1> USE DEF TypeOK, ManagerInv, StatusOfLoop, StopIsLate, LossIsKnown, DoneIsAlone,
        SetStatus, Status, MumbleChange, netVars, loopVars, callVars
  <1>1. CASE LoopTop
    BY <1>1 DEF LoopTop
  <1>2. CASE Connect
    BY <1>2, DisconnectInternalSafe DEF Connect
  <1>3. CASE DialFails
    BY <1>3 DEF DialFails
  <1>4. CASE SetReconnecting
    BY <1>4 DEF SetReconnecting
  <1>5. CASE Pause
    BY <1>5 DEF Pause
  <1>6. CASE CheckContext
    BY <1>6 DEF CheckContext
  <1>7. CASE SetConnected
    BY <1>7 DEF SetConnected
  <1>8. CASE Wait
    BY <1>8 DEF Wait, HandleDisconnect, EventType
  <1>9. CASE Leave
    BY <1>9, DisconnectInternalSafe DEF Leave
  <1> QED
    BY <1>1, <1>2, <1>3, <1>4, <1>5, <1>6, <1>7, <1>8, <1>9 DEF Loop

(* Everybody else.                                                         *)
LEMMA AroundStep ==
  ASSUME TypeOK, ManagerInv, Step, ~Loop
  PROVE  /\ TypeOK' /\ ManagerInv'
         /\ status' = status
         /\ audioOutgoing' \in {audioOutgoing, "nil"}
  <1> USE DEF TypeOK, ManagerInv, StatusOfLoop, StopIsLate, LossIsKnown, DoneIsAlone,
        netVars, loopVars, callVars
  <1>1. CASE Stop
    <2>1. CASE StopClient
      BY <2>1, DisconnectInternalSafe DEF StopClient
    <2>2. CASE Cancel \/ StopBase \/ StopChannel
      BY <2>2 DEF Cancel, StopBase, StopChannel
    <2> QED
      BY <1>1, <2>1, <2>2 DEF Stop
  <1>2. CASE ServerChanges
    BY <1>2 DEF ServerChanges
  <1>3. CASE UpdateAddress
    BY <1>3 DEF UpdateAddress
  <1>4. CASE UpdateDisconnects
    BY <1>4, DisconnectInternalSafe DEF UpdateDisconnects
  <1>5. ASSUME NEW t \in EventType, ServerDrops(t)
        PROVE  TypeOK' /\ ManagerInv' /\ UNCHANGED <<status, audioOutgoing>>
    BY <1>5, ReportCounts DEF ServerDrops
  <1>6. ASSUME NEW t \in EventType, OnDisconnect(t)
        PROVE  TypeOK' /\ ManagerInv' /\ UNCHANGED <<status, audioOutgoing>>
    <2>1. TypeOK'
      <3>1. reporting' \in [EventType -> 0 .. MaxEvents]
        BY <1>6, ClientsAssumption DEF ClientsAssumption, OnDisconnect
      <3>2. disconnectCh' \in {"empty"} \cup EventType
        BY <1>6 DEF OnDisconnect
      <3> QED
        BY <1>6, <3>1, <3>2 DEF OnDisconnect
    <2>2. ctxDone' \/ disconnectCh' # "empty"
      BY <1>6 DEF OnDisconnect, EventType
    <2> QED
      BY <1>6, <2>1, <2>2 DEF OnDisconnect
  <1> QED
    BY <1>1, <1>2, <1>3, <1>4, <1>5, <1>6 DEF Step

(* What a step that succeeds to dial does to the manager's part.           *)
LEMMA DialStep ==
  ASSUME TypeOK, ManagerInv, NEW c \in Channel, Dial(c)
  PROVE  TypeOK' /\ ManagerInv' /\ status' = status
  BY DEF TypeOK, ManagerInv, StatusOfLoop, StopIsLate, LossIsKnown, DoneIsAlone, Dial,
     callVars

(* Each step, of the manager and of the forwarder.                         *)
LEMMA NextStep ==
  ASSUME IInv, ForwarderNext
  PROVE  IInv' /\ (status' # status => <<status, status'>> \in MumbleChange)
  <1> USE ChannelAssumption DEF ChannelAssumption, IInv, ForwarderTypeOK
  <1>1. CASE ManagerStep
    <2>1. /\ TypeOK' /\ ManagerInv'
          /\ status' # status => <<status, status'>> \in MumbleChange
          /\ audioOutgoing' \in {audioOutgoing, "nil"}
      BY <1>1, LoopStep, AroundStep DEF ManagerStep
    <2> QED
      BY <1>1, <2>1 DEF ManagerStep, forwarderVars, ChannelsIntact
  <1>2. CASE Connected
    <2> DEFINE c == CHOOSE d \in Channel : d # mumbleOutgoing
    <2>1. c \in Channel /\ c # mumbleOutgoing
      OBVIOUS
    <2>2. Dial(c) /\ closed' = closed \ {c} /\ UNCHANGED <<mumbleOutgoing, sending>>
      BY <1>2 DEF Connected
    <2> HIDE DEF c
    <2>3. TypeOK' /\ ManagerInv' /\ status' = status
      BY <2>1, <2>2, DialStep
    <2> QED
      BY <2>1, <2>2, <2>3 DEF Dial, ChannelsIntact
  <1>3. CASE Forward \/ Sent \/ NextPipeline
    <2>1. UNCHANGED vars
      BY <1>3 DEF Forward, Sent, NextPipeline
    <2>2. TypeOK' /\ ManagerInv' /\ status' = status /\ audioOutgoing' = audioOutgoing
      BY <2>1 DEF vars, netVars, loopVars, callVars, TypeOK, ManagerInv, StatusOfLoop,
           StopIsLate, LossIsKnown, DoneIsAlone
    <2>3. sending' \in BOOLEAN
      BY <1>3, Zenon DEF Forward, Sent, NextPipeline
    <2>4. CASE Forward
      BY <2>2, <2>3, <2>4 DEF Forward, ChannelsIntact, TypeOK
    <2>5. CASE Sent \/ NextPipeline
      BY <2>2, <2>3, <2>5 DEF Sent, NextPipeline, ChannelsIntact
    <2> QED
      BY <1>3, <2>4, <2>5
  <1> QED
    BY <1>1, <1>2, <1>3 DEF ForwarderNext

(* A step that changes nothing.                                            *)
LEMMA StutterStep ==
  ASSUME IInv, UNCHANGED allVars
  PROVE  IInv' /\ status' = status
  BY DEF IInv, ForwarderTypeOK, TypeOK, ManagerInv, StatusOfLoop, StopIsLate, LossIsKnown,
     DoneIsAlone, ChannelsIntact, allVars, vars, netVars, loopVars, callVars, forwarderVars

(* The inductive invariant: the parts above hold in every state.           *)
THEOREM IInvCorrect == ForwarderSpec => []IInv
  <1>1. IInv /\ [ForwarderNext]_allVars => IInv'
    BY NextStep, StutterStep
  <1> QED
    BY <1>1, InitIInv, PTL DEF ForwarderSpec

(* The loop never waits for ever on a client that has gone, and a dial that *)
(* succeeds after Stop leaves no client behind (connectionLoop, Stop,      *)
(* UpdateAddress).                                                         *)
THEOREM LoopSafe == ForwarderSpec => []LoopInv
  <1>1. IInv => LoopInv
    BY DEF IInv, LoopInv, ManagerInv, LossIsKnown, NoSilentLoss, DoneIsAlone, NoClientLeft
  <1> QED
    BY <1>1, IInvCorrect, PTL

(* toMumbleSender never sends on a channel that is closed, although the    *)
(* manager replaces it at any time and the forwarder closes what it finds  *)
(* replaced.                                                               *)
THEOREM ChannelsSafe == ForwarderSpec => []ChannelsIntact
  BY IInvCorrect, PTL DEF IInv

(* The status changes that ConnectionState takes from the Mumble manager   *)
(* are all that there are: the assumption of one module is proved of the   *)
(* other.                                                                  *)
THEOREM ReportsAreKnown ==
  ForwarderSpec => [][status' # status => <<status, status'>> \in MumbleChange]_allVars
  <1>1. IInv /\ [ForwarderNext]_allVars
          => [status' # status => <<status, status'>> \in MumbleChange]_allVars
    BY NextStep
  <1> QED
    BY <1>1, IInvCorrect, PTL DEF ForwarderSpec

===============================================================================
