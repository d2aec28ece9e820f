---------------------------- MODULE ConnectionState ----------------------------
(***************************************************************************)
(* How a status change of a connection manager becomes the bridge's view   *)
(* of its connections (internal/bridge/connection_manager.go, bridge.go).  *)
(*                                                                         *)
(* The goroutine of each manager calls SetStatus, which stores the status, *)
(* puts an event in the manager's bounded channel, discarding the oldest   *)
(* event when it is full, and then updates the bridge's flags directly     *)
(* (EmitConnectionEvent).  The session's monitor goroutine takes events    *)
(* from both channels and updates the same flags (handle...Event).  The    *)
(* session (StartBridge) creates the managers, and on its way out cancels  *)
(* the monitor, stops both managers, sleeps and clears the flags.  The     *)
(* managers' goroutines are not waited for.                                *)
(*                                                                         *)
(* One action per lock section or channel operation.  Managers are created *)
(* afresh by each session; `late' holds what the goroutines of earlier     *)
(* managers still have to write.                                           *)
(***************************************************************************)
EXTENDS ConnectionStatus, Naturals, Sequences

CONSTANTS
  EventCap,        (* capacity of a manager's eventChan (100 in the code)     *)
  MaxPopulate,     (* bound: pending populateExistingDiscordUsers goroutines  *)
  MaxAnnounced,    (* bound of the history counter `announced'                *)
  SleepCoversEmit  (* TRUE: the 200ms sleep of stopConnectionManagers is long *)
                   (* enough for a goroutine that has sent its event to write *)
                   (* the flags                                               *)

ASSUME CapAssumption   == EventCap \in Nat \ {0}
ASSUME BoundAssumption == MaxPopulate \in Nat /\ MaxAnnounced \in Nat
ASSUME SleepAssumption == SleepCoversEmit \in BOOLEAN

VARIABLES
  (* the current managers, per service *)
  status,            (* BaseConnectionManager.status                          *)
  queue,             (* eventChan: the statuses of the events it holds        *)
  closed,            (* closedChan and eventChan are closed (or no manager)   *)
  pc,                (* where the manager's goroutine is in SetStatus         *)
  lost,              (* the newest event was not sent (the Warn branches)     *)
  late,              (* values goroutines of earlier managers will still emit *)
  (* BridgeState *)
  svcConnected,      (* DiscordConnected and MumbleConnected                  *)
  Connected, BridgeActive, presenceAnnounced,
  announced,         (* history: announcements since the session began        *)
  (* the goroutines of the session *)
  session,           (* where the body of StartBridge is                      *)
  waiting,           (* a StartBridge past its guard waits for b.lock         *)
  monitor, hand,     (* monitorConnectionEvents and the event it is handling  *)
  populating         (* pending populateExistingDiscordUsers goroutines       *)

managerVars == <<status, queue, closed, pc, lost, late>>
bridgeVars  == <<svcConnected, Connected, BridgeActive, presenceAnnounced, announced>>
sessionVars == <<session, waiting, monitor, hand, populating>>
vars        == <<managerVars, bridgeVars, sessionVars>>

(* SetStatus holds eventMutex at these points. *)
HoldsEventMutex == {"send", "full", "retry"}

(* The value of `hand' while the monitor handles no event. *)
NoEvent == <<"discord", "Disconnected">>

ManagersOK ==
  /\ status \in [Service -> Status]
  /\ queue \in [Service -> Seq(Status)]
  /\ \A s \in Service : Len(queue[s]) <= EventCap
  /\ closed \in [Service -> BOOLEAN]
  /\ pc \in [Service -> {"idle", "swapped", "sent"} \cup HoldsEventMutex]
  /\ lost \in [Service -> BOOLEAN]
  /\ late \in [Service -> SUBSET BOOLEAN]

FlagsOK ==
  /\ svcConnected \in [Service -> BOOLEAN]
  /\ Connected \in BOOLEAN /\ BridgeActive \in BOOLEAN
  /\ presenceAnnounced \in BOOLEAN

GoroutinesOK ==
  /\ session \in {"none", "running", "ending", "cancelled", "discordStopped",
                  "mumbleStopped"}
  /\ waiting \in BOOLEAN
  /\ monitor \in {"exited", "select", "handling"}
  /\ hand \in Service \X Status

CountersOK ==
  /\ announced \in 0 .. MaxAnnounced
  /\ populating \in 0 .. MaxPopulate

TypeOK == ManagersOK /\ FlagsOK /\ GoroutinesOK /\ CountersOK

Init ==
  /\ status = [s \in Service |-> "Disconnected"]
  /\ queue = [s \in Service |-> <<>>]
  /\ closed = [s \in Service |-> TRUE]
  /\ pc = [s \in Service |-> "idle"]
  /\ lost = [s \in Service |-> FALSE]
  /\ late = [s \in Service |-> {}]
  /\ svcConnected = [s \in Service |-> FALSE]
  /\ Connected = FALSE /\ BridgeActive = FALSE
  /\ presenceAnnounced = FALSE /\ announced = 0
  /\ session = "none" /\ waiting = FALSE
  /\ monitor = "exited" /\ hand = NoEvent
  /\ populating = 0

-------------------------------------------------------------------------------
(* BaseConnectionManager.SetStatus, called by the manager's own goroutine. *)

(* The first check of closedChan and the swap of the status.  A call with  *)
(* the current status, or on a stopped manager, changes nothing.           *)
SwapStatus(s, new) ==
  /\ pc[s] = "idle" /\ ~closed[s]
  /\ <<status[s], new>> \in StatusChange(s)
  /\ status' = [status EXCEPT ![s] = new]
  /\ pc' = [pc EXCEPT ![s] = "swapped"]
  /\ UNCHANGED <<queue, closed, lost, late, bridgeVars, sessionVars>>

(* Lock eventMutex, check closedChan again and return if the manager was   *)
(* stopped in between.                                                     *)
LockAndRecheck(s) ==
  /\ pc[s] = "swapped"
  /\ pc' = [pc EXCEPT ![s] = IF closed[s] THEN "idle" ELSE "send"]
  /\ UNCHANGED <<status, queue, closed, lost, late, bridgeVars, sessionVars>>

(* Mutant of TrySend: a plain non-blocking send, which gives up the newest *)
(* event.                                                                  *)
TrySendDropNewest(s) ==
  /\ pc[s] = "send"
  /\ queue' = [queue EXCEPT ![s] = IF Len(@) < EventCap THEN Append(@, status[s]) ELSE @]
  /\ pc' = [pc EXCEPT ![s] = "sent"]
  /\ UNCHANGED <<status, closed, lost, late, bridgeVars, sessionVars>>

(* The non-blocking send; eventMutex is released once the event is in.     *)
TrySend(s) ==
  /\ pc[s] = "send"
  /\ IF Len(queue[s]) < EventCap
     THEN /\ queue' = [queue EXCEPT ![s] = Append(@, status[s])]
          /\ lost' = [lost EXCEPT ![s] = FALSE]
          /\ pc' = [pc EXCEPT ![s] = "sent"]
     ELSE /\ pc' = [pc EXCEPT ![s] = "full"]
          /\ UNCHANGED <<queue, lost>>
  /\ UNCHANGED <<status, closed, late, bridgeVars, sessionVars>>

(* The channel was full: receive its oldest event.  The monitor may have   *)
(* emptied it by now, and then the new event is the one given up.          *)
DropOldest(s) ==
  /\ pc[s] = "full"
  /\ IF queue[s] # <<>>
     THEN /\ queue' = [queue EXCEPT ![s] = Tail(@)]
          /\ pc' = [pc EXCEPT ![s] = "retry"]
          /\ UNCHANGED lost
     ELSE /\ lost' = [lost EXCEPT ![s] = TRUE]
          /\ pc' = [pc EXCEPT ![s] = "sent"]
          /\ UNCHANGED queue
  /\ UNCHANGED <<status, closed, late, bridgeVars, sessionVars>>

(* The second non-blocking send, given up when the channel is still full.  *)
RetrySend(s) ==
  /\ pc[s] = "retry"
  /\ IF Len(queue[s]) < EventCap
     THEN /\ queue' = [queue EXCEPT ![s] = Append(@, status[s])]
          /\ lost' = [lost EXCEPT ![s] = FALSE]
     ELSE /\ lost' = [lost EXCEPT ![s] = TRUE]
          /\ UNCHANGED queue
  /\ pc' = [pc EXCEPT ![s] = "sent"]
  /\ UNCHANGED <<status, closed, late, bridgeVars, sessionVars>>

(* Mutant of EmitConnectionEvent: the summary is left alone.               *)
EmitFlagOnly(s, connected) ==
  /\ svcConnected' = [svcConnected EXCEPT ![s] = connected]
  /\ UNCHANGED <<Connected, BridgeActive, presenceAnnounced, announced>>

(* What EmitConnectionEvent writes, under BridgeMutex.                     *)
EmitConnectionEvent(s, connected) ==
  /\ svcConnected' = [svcConnected EXCEPT ![s] = connected]
  /\ Connected' = (svcConnected'["discord"] /\ svcConnected'["mumble"])
  /\ UNCHANGED <<BridgeActive, presenceAnnounced, announced>>

(* The end of SetStatus, after eventMutex is released.                     *)
Emit(s) ==
  /\ pc[s] = "sent"
  /\ EmitConnectionEvent(s, status[s] = "Connected")
  /\ pc' = [pc EXCEPT ![s] = "idle"]
  /\ UNCHANGED <<status, queue, closed, lost, late, sessionVars>>

(* The same step of a manager that has been replaced since.                *)
LateEmit(s, connected) ==
  /\ connected \in late[s]
  /\ EmitConnectionEvent(s, connected)
  /\ late' = [late EXCEPT ![s] = @ \ {connected}]
  /\ UNCHANGED <<status, queue, closed, pc, lost, sessionVars>>

-------------------------------------------------------------------------------
(* monitorConnectionEvents.                                                *)

(* `go sendPresenceAnnouncement()' under the latch presenceAnnounced.      *)
Announce(ready) ==
  IF ready /\ ~presenceAnnounced
  THEN /\ presenceAnnounced' = TRUE
       /\ announced' = IF announced < MaxAnnounced THEN announced + 1 ELSE announced
  ELSE UNCHANGED <<presenceAnnounced, announced>>

MonitorTake(s) ==
  /\ monitor = "select" /\ queue[s] # <<>>
  /\ hand' = <<s, Head(queue[s])>>
  /\ queue' = [queue EXCEPT ![s] = Tail(@)]
  /\ monitor' = "handling"
  /\ UNCHANGED <<status, closed, pc, lost, late, bridgeVars, session, waiting, populating>>

(* Mutant of MonitorHandle: the summary is only ever cleared.              *)
MonitorHandleClears ==
  /\ monitor = "handling"
  /\ svcConnected' = [svcConnected EXCEPT ![hand[1]] = hand[2] = "Connected"]
  /\ Connected' = (Connected /\ svcConnected'["discord"] /\ svcConnected'["mumble"])
  /\ monitor' = "select" /\ hand' = NoEvent
  /\ UNCHANGED <<managerVars, BridgeActive, presenceAnnounced, announced,
                 session, waiting, populating>>

(* handleDiscordConnectionEvent and handleMumbleConnectionEvent with       *)
(* updateOverallConnectionState, and the goroutine a Discord connection    *)
(* starts.                                                                 *)
MonitorHandle ==
  /\ monitor = "handling"
  /\ LET s == hand[1]  up == hand[2] = "Connected" IN
     /\ svcConnected' = [svcConnected EXCEPT ![s] = up]
     /\ Connected' = (svcConnected'["discord"] /\ svcConnected'["mumble"])
     /\ Announce(Connected')
     /\ populating' = IF s = "discord" /\ up /\ populating < MaxPopulate
                      THEN populating + 1 ELSE populating
  /\ monitor' = "select" /\ hand' = NoEvent
  /\ UNCHANGED <<managerVars, BridgeActive, session, waiting>>

(* The monitor sees connectionCtx.Done.                                    *)
MonitorExit ==
  /\ monitor = "select" /\ session = "cancelled"
  /\ monitor' = "exited"
  /\ UNCHANGED <<managerVars, bridgeVars, session, waiting, hand, populating>>

(* The end of populateExistingDiscordUsers: an early return (no guild), or *)
(* tryPresenceAnnouncement.                                                *)
PopulateDone(found) ==
  /\ populating > 0
  /\ populating' = populating - 1
  /\ Announce(found /\ svcConnected["discord"] /\ svcConnected["mumble"])
  /\ UNCHANGED <<managerVars, svcConnected, Connected, BridgeActive,
                 session, waiting, monitor, hand>>

-------------------------------------------------------------------------------
(* StartBridge.                                                            *)

(* The guard.  Any number of callers may try; one passes.                  *)
StartBridge ==
  /\ ~Connected /\ ~BridgeActive
  /\ BridgeActive' = TRUE /\ presenceAnnounced' = FALSE
  /\ waiting' = TRUE
  /\ UNCHANGED <<managerVars, svcConnected, Connected, announced,
                 session, monitor, hand, populating>>

(* b.lock is taken, new managers are created and started, the monitor runs. *)
BeginSession ==
  /\ waiting /\ session = "none"
  /\ waiting' = FALSE /\ session' = "running" /\ monitor' = "select"
  /\ closed' = [s \in Service |-> FALSE]
  /\ announced' = 0
  /\ UNCHANGED <<status, queue, pc, lost, late, svcConnected, Connected, BridgeActive,
                 presenceAnnounced, hand, populating>>

(* An error return of initializeConnectionManagers: no manager is started,  *)
(* no monitor runs, and BridgeActive stays set.                            *)
FailInit ==
  /\ waiting /\ session = "none"
  /\ waiting' = FALSE
  /\ UNCHANGED <<managerVars, bridgeVars, session, monitor, hand, populating>>

(* Told to die, or cancelled: the session is no longer active.             *)
EndSession ==
  /\ session = "running"
  /\ Connected' = FALSE /\ BridgeActive' = FALSE
  /\ session' = "ending"
  /\ UNCHANGED <<managerVars, svcConnected, presenceAnnounced, announced,
                 waiting, monitor, hand, populating>>

(* stopConnectionManagers: connectionCancel ...                            *)
CancelConnections ==
  /\ session = "ending"
  /\ session' = "cancelled"
  /\ UNCHANGED <<managerVars, bridgeVars, waiting, monitor, hand, populating>>

(* Mutant of CloseManager: Stop closes the channels without eventMutex.    *)
CloseUnlocked(s) ==
  /\ closed' = [closed EXCEPT ![s] = TRUE]
  /\ UNCHANGED <<status, queue, pc, lost, late>>

(* BaseConnectionManager.Stop closes both channels under eventMutex.       *)
CloseManager(s) ==
  /\ pc[s] \notin HoldsEventMutex
  /\ closed' = [closed EXCEPT ![s] = TRUE]
  /\ UNCHANGED <<status, queue, pc, lost, late>>

(* ... connectionWg.Wait, and the Discord manager's Stop ...               *)
StopDiscord ==
  /\ session = "cancelled" /\ monitor = "exited"
  /\ CloseManager("discord")
  /\ session' = "discordStopped"
  /\ UNCHANGED <<bridgeVars, waiting, monitor, hand, populating>>

(* ... the Mumble manager's Stop ...                                       *)
StopMumble ==
  /\ session = "discordStopped"
  /\ CloseManager("mumble")
  /\ session' = "mumbleStopped"
  /\ UNCHANGED <<bridgeVars, waiting, monitor, hand, populating>>

(* The managers are left to their goroutines, the next session makes new   *)
(* ones.  All such a goroutine can still do is the end of a SetStatus that *)
(* had sent its event: any other step finds closedChan closed and returns. *)
(* (Bound: one such goroutine per service at a time.)                      *)
RetireManagers ==
  /\ \A s \in Service : pc[s] = "sent" => ~SleepCoversEmit /\ late[s] = {}
  /\ late' = [s \in Service |-> IF pc[s] = "sent" THEN {status[s] = "Connected"}
                                                ELSE late[s]]
  /\ status' = [s \in Service |-> "Disconnected"]
  /\ queue' = [s \in Service |-> <<>>]
  /\ pc' = [s \in Service |-> "idle"]
  /\ lost' = [s \in Service |-> FALSE]
  /\ UNCHANGED closed

(* Mutant of ClearFlags: only the summary is cleared.                      *)
ClearConnectedOnly ==
  /\ session = "mumbleStopped"
  /\ RetireManagers
  /\ Connected' = FALSE
  /\ session' = "none"
  /\ UNCHANGED <<svcConnected, BridgeActive, presenceAnnounced,
                 announced, waiting, monitor, hand, populating>>

(* ... 200ms of sleep, and the flags are cleared.  Then StartBridge        *)
(* releases b.lock and returns.                                            *)
ClearFlags ==
  /\ session = "mumbleStopped"
  /\ RetireManagers
  /\ svcConnected' = [s \in Service |-> FALSE]
  /\ Connected' = FALSE
  /\ session' = "none"
  /\ UNCHANGED <<BridgeActive, presenceAnnounced, announced,
                 waiting, monitor, hand, populating>>

-------------------------------------------------------------------------------

SetStatus(s) ==
  \/ \E new \in Status : SwapStatus(s, new)
  \/ LockAndRecheck(s) \/ TrySend(s) \/ DropOldest(s) \/ RetrySend(s) \/ Emit(s)

Monitor == (\E s \in Service : MonitorTake(s)) \/ MonitorHandle \/ MonitorExit

Session ==
  \/ StartBridge \/ BeginSession \/ FailInit \/ EndSession
  \/ CancelConnections \/ StopDiscord \/ StopMumble \/ ClearFlags

Next ==
  \/ \E s \in Service : SetStatus(s)
  \/ \E s \in Service, connected \in BOOLEAN : LateEmit(s, connected)
  \/ Monitor
  \/ \E found \in BOOLEAN : PopulateDone(found)
  \/ Session

(* A goroutine that is past a channel operation goes on, and the monitor   *)
(* keeps reading.  No service has to connect, nobody has to start or stop. *)
Fairness ==
  /\ \A s \in Service :
       WF_vars(LockAndRecheck(s) \/ TrySend(s) \/ DropOldest(s) \/ RetrySend(s) \/ Emit(s))
  /\ \A s \in Service : SF_vars(MonitorTake(s))
  /\ WF_vars(MonitorHandle)

Spec == Init /\ [][Next]_vars
FairSpec == Spec /\ Fairness

-------------------------------------------------------------------------------
(* Properties.                                                             *)

(* SetStatus never sends on a closed eventChan (a Go panic): Stop closes   *)
(* it under eventMutex, which the sender holds over its second check and   *)
(* the send.                                                               *)
NoSendOnClosed == \A s \in Service : pc[s] \in HoldsEventMutex => ~closed[s]

ChannelsInv == TypeOK /\ NoSendOnClosed

(* After the oldest event was dropped there is room for the new one: the   *)
(* warning "still full after dropping oldest event" is never logged.       *)
RetryHasRoom == \A s \in Service : pc[s] = "retry" => Len(queue[s]) < EventCap

(* stopConnectionManagers waits for the monitor before it closes a         *)
(* channel, so the monitor never leaves because one service's channel was  *)
(* closed while the other still has events.                                *)
MonitorGoneBeforeClose == (\E s \in Service : closed[s]) => monitor = "exited"

(* Connected, which gates text messages, readiness and StartBridge, is     *)
(* never ahead of the two flags it summarises.                             *)
ConnectedImpliesBoth ==
  Connected => svcConnected["discord"] /\ svcConnected["mumble"]

(* Nothing is under way for service s: no call of SetStatus, no event.     *)
Settled(s) ==
  /\ session \in {"running", "ending"}
  /\ pc[s] = "idle" /\ queue[s] = <<>> /\ late[s] = {}
  /\ ~(monitor = "handling" /\ hand[1] = s)

(* The two paths to a flag (EmitConnectionEvent and the event channel)     *)
(* race, and events are dropped, but whenever both are drained the flag    *)
(* says what the manager's status says - unless the newest event was lost: *)
(* then an older one may be the last to write, and nothing corrects it.    *)
FlagsAccurate ==
  SleepCoversEmit =>
    \A s \in Service :
      Settled(s) /\ ~lost[s] => (svcConnected[s] <=> status[s] = "Connected")

(* After a session nothing reads as connected: given that the sleep of     *)
(* stopConnectionManagers outlasts the last EmitConnectionEvent.           *)
StoppedMeansDisconnected ==
  SleepCoversEmit /\ session = "none" =>
    ~Connected /\ \A s \in Service : ~svcConnected[s]

(* A bridge that runs, or is about to, reads as active, although the one   *)
(* before it may still be tearing down when its successor passes the guard *)
(* of StartBridge.                                                         *)
ActiveCoversSession == waiting \/ session = "running" => BridgeActive

(* "Latch to fire presence announcement exactly once per bridge session"   *)
(* (bridge.go, presenceAnnounced).                                         *)
AnnouncedOncePerSession == announced <= 1

(* A session whose two services stay connected ends up Connected, whatever *)
(* events were queued before and whoever writes the flags last, unless the *)
(* newest event of a service was lost (then the direct call alone sets the *)
(* flag, and an older event may clear it for good).                        *)
BothUp ==
  session = "running" /\ \A s \in Service : status[s] = "Connected" /\ ~lost[s]
HealthyEventuallyReady == (<>[]BothUp) => <>[]Connected

===============================================================================
