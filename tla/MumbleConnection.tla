---------------------------- MODULE MumbleConnection ----------------------------
(***************************************************************************)
(* MumbleConnectionManager (internal/bridge/mumble_connection_manager.go): *)
(* the loop that dials the Mumble server and dials it again, Stop, and     *)
(* UpdateAddress (UpdateConfig does the same).  What SetStatus does with a *)
(* status is in ConnectionState.                                           *)
(*                                                                         *)
(* gumble (external) runs a goroutine per client, which tells every        *)
(* manager attached to the shared config when its client has gone.  The    *)
(* event does not say which client, and the managers of earlier sessions   *)
(* stay attached: a manager also hears of clients it never had.            *)
(*                                                                         *)
(* The types of event are "error" (also the unknown ones), "user" (this    *)
(* side disconnected) and "kicked" (also banned).                          *)
(***************************************************************************)
EXTENDS ConnectionStatus, Naturals

CONSTANTS
  Channel,      (* identities of audio channels, taken again when not in use *)
  OtherClients, (* bound: clients of earlier sessions that have yet to go    *)
  MaxEvents     (* bound: disconnects gumble has yet to report, per type      *)

ASSUME ClientsAssumption == OtherClients \in Nat /\ MaxEvents \in Nat \ {0}
ASSUME EnoughAssumption  == OtherClients <= MaxEvents
ASSUME ChannelAssumption ==
  "nil" \notin Channel /\ \A c \in Channel \cup {"nil"} : \E d \in Channel : d # c

VARIABLES
  others,            (* clients of earlier sessions there were at first       *)
  serverUp,          (* the server accepts connections                        *)
  client,            (* m.client: none, live, or dropped by the server        *)
  audioOutgoing,     (* the channel of that client, or "nil"                  *)
  reporting,         (* disconnects gumble's goroutines have yet to report    *)
  disconnectCh,      (* "empty", or the type of the event it holds            *)
  status, loop,      (* the status; where connectionLoop is                   *)
  ctxDone, stop,     (* the context is cancelled; where Stop is               *)
  update,            (* where UpdateAddress is                                *)
  panic

netVars  == <<others, serverUp, client, audioOutgoing, reporting, disconnectCh>>
loopVars == <<status, loop>>
callVars == <<ctxDone, stop, update>>
vars == <<netVars, loopVars, callVars, panic>>

EventType == {"error", "user", "kicked"}

TypeOK ==
  /\ others \in 0 .. OtherClients
  /\ serverUp \in BOOLEAN /\ client \in {"none", "live", "dropped"}
  /\ audioOutgoing \in Channel \cup {"nil"}
  /\ reporting \in [EventType -> 0 .. MaxEvents]
  /\ disconnectCh \in {"empty"} \cup EventType
  /\ status \in Status
  /\ loop \in {"top", "connecting", "dialing", "dialed", "connected", "waiting", "handling",
               "failed", "pause", "leaving", "done"}
  /\ ctxDone \in BOOLEAN /\ stop \in {"idle", "base", "disconnected", "closed"}
  /\ update \in {"idle", "disconnecting"} /\ panic \in BOOLEAN

Init ==
  /\ serverUp \in BOOLEAN /\ client = "none" /\ audioOutgoing = "nil"
  /\ others \in 0 .. OtherClients
  /\ reporting = [t \in EventType |-> IF t = "user" THEN others ELSE 0]
  /\ disconnectCh = "empty"
  /\ status = "Disconnected" /\ loop = "top"
  /\ ctxDone = FALSE /\ stop = "idle" /\ update = "idle" /\ panic = FALSE

-------------------------------------------------------------------------------
(* The server and gumble.                                                  *)

(* A goroutine of gumble will report that a client has gone.               *)
Report(t) ==
  /\ reporting[t] < MaxEvents
  /\ reporting' = [reporting EXCEPT ![t] = @ + 1]

ServerChanges ==
  /\ serverUp' = ~serverUp
  /\ UNCHANGED <<others, client, audioOutgoing, reporting, disconnectCh, loopVars, callVars, panic>>

(* The server goes down on a client, or kicks it.                          *)
ServerDrops(t) ==
  /\ client = "live" /\ t # "user"
  /\ t = "error" => ~serverUp
  /\ client' = "dropped"
  /\ Report(t)
  /\ UNCHANGED <<others, serverUp, audioOutgoing, disconnectCh, loopVars, callVars, panic>>

(* Mutant of OnDisconnect: an event of this side's doing is ignored.       *)
OnDisconnectNotUser(t) ==
  /\ reporting[t] > 0
  /\ reporting' = [reporting EXCEPT ![t] = @ - 1]
  /\ disconnectCh' = IF disconnectCh = "empty" /\ stop # "closed" /\ t # "user"
                     THEN t ELSE disconnectCh
  /\ UNCHANGED <<others, serverUp, client, audioOutgoing, loopVars, callVars, panic>>

(* OnDisconnect: nothing is sent to a channel that is closed or full.      *)
OnDisconnect(t) ==
  /\ reporting[t] > 0
  /\ reporting' = [reporting EXCEPT ![t] = @ - 1]
  /\ disconnectCh' = IF disconnectCh = "empty" /\ stop # "closed" THEN t ELSE disconnectCh
  /\ UNCHANGED <<others, serverUp, client, audioOutgoing, loopVars, callVars, panic>>

(* disconnectInternal; the Disconnect of a client that was dropped fails.  *)
DisconnectInternal ==
  /\ client' = "none" /\ audioOutgoing' = "nil"
  /\ IF client = "live" THEN Report("user") ELSE UNCHANGED reporting
  /\ UNCHANGED <<others, serverUp, disconnectCh>>

-------------------------------------------------------------------------------
(* connectionLoop and connect.                                             *)

SetStatus(new) == status' = IF stop = "idle" THEN new ELSE status

(* A kicked or banned client does not come back.                           *)
LoopTop ==
  /\ loop = "top"
  /\ loop' = IF status = "Failed" \/ ctxDone THEN "leaving" ELSE "connecting"
  /\ UNCHANGED <<netVars, status, callVars, panic>>

(* connect: the old client is disconnected before the dial.                *)
Connect ==
  /\ loop = "connecting"
  /\ SetStatus("Connecting")
  /\ DisconnectInternal
  /\ loop' = "dialing"
  /\ UNCHANGED <<callVars, panic>>

(* A client comes with a channel of its own, stored with it.               *)
Dial(c) ==
  /\ loop = "dialing" /\ serverUp
  /\ client' = "live" /\ audioOutgoing' = c
  /\ loop' = "dialed"
  /\ UNCHANGED <<others, serverUp, reporting, disconnectCh, status, callVars, panic>>

DialFails ==
  /\ loop = "dialing" /\ ~serverUp
  /\ loop' = "failed"
  /\ UNCHANGED <<netVars, status, callVars, panic>>

SetReconnecting ==
  /\ loop = "failed"
  /\ SetStatus("Reconnecting")
  /\ loop' = "pause"
  /\ UNCHANGED <<netVars, callVars, panic>>

(* Two seconds, or the context.                                            *)
Pause ==
  /\ loop = "pause"
  /\ \/ loop' = "top"
     \/ ctxDone /\ loop' = "leaving"
  /\ UNCHANGED <<netVars, status, callVars, panic>>

CheckContext ==
  /\ loop = "dialed"
  /\ loop' = IF ctxDone THEN "leaving" ELSE "connected"
  /\ UNCHANGED <<netVars, status, callVars, panic>>

SetConnected ==
  /\ loop = "connected"
  /\ SetStatus("Connected")
  /\ loop' = "waiting"
  /\ UNCHANGED <<netVars, callVars, panic>>

(* Mutant of HandleDisconnect: this side's own disconnect ends the loop.   *)
HandleUserLeaves(t) ==
  /\ SetStatus(IF t = "kicked" THEN "Failed" ELSE "Reconnecting")
  /\ loop' = IF t = "user" THEN "leaving" ELSE "top"

(* handleDisconnectEvent.                                                  *)
HandleDisconnect(t) ==
  /\ SetStatus(IF t = "kicked" THEN "Failed" ELSE "Reconnecting")
  /\ loop' = "top"

(* The wait for a disconnect.  A channel that Stop has closed yields nil,  *)
(* which handleDisconnectEvent dereferences.                               *)
Wait ==
  /\ loop = "waiting"
  /\ \/ /\ disconnectCh \in EventType
        /\ HandleDisconnect(disconnectCh)
        /\ disconnectCh' = "empty"
        /\ UNCHANGED panic
     \/ /\ disconnectCh = "empty" /\ stop = "closed" /\ panic' = TRUE
        /\ UNCHANGED <<disconnectCh, loopVars>>
     \/ /\ ctxDone /\ loop' = "leaving"
        /\ UNCHANGED <<disconnectCh, status, panic>>
  /\ UNCHANGED <<others, serverUp, client, audioOutgoing, reporting, callVars>>

Leave ==
  /\ loop = "leaving"
  /\ DisconnectInternal
  /\ loop' = "done"
  /\ UNCHANGED <<status, callVars, panic>>

-------------------------------------------------------------------------------
(* The session cancels the context, and later calls Stop.                  *)

Cancel ==
  /\ ~ctxDone
  /\ ctxDone' = TRUE
  /\ UNCHANGED <<netVars, loopVars, stop, update, panic>>

(* Stop of the base manager, which silences SetStatus ...                  *)
StopBase ==
  /\ ctxDone /\ stop = "idle"
  /\ stop' = "base"
  /\ UNCHANGED <<netVars, loopVars, ctxDone, update, panic>>

(* ... the client ...                                                      *)
StopClient ==
  /\ stop = "base"
  /\ DisconnectInternal
  /\ stop' = "disconnected"
  /\ UNCHANGED <<loopVars, ctxDone, update, panic>>

(* ... and the channel, under disconnectMux.                               *)
StopChannel ==
  /\ stop = "disconnected"
  /\ stop' = "closed"
  /\ UNCHANGED <<netVars, loopVars, ctxDone, update, panic>>

(* UpdateAddress: a connected client is disconnected, to be dialed again.  *)
UpdateAddress ==
  /\ update = "idle" /\ status = "Connected"
  /\ update' = "disconnecting"
  /\ UNCHANGED <<netVars, loopVars, ctxDone, stop, panic>>

UpdateDisconnects ==
  /\ update = "disconnecting"
  /\ DisconnectInternal
  /\ update' = "idle"
  /\ UNCHANGED <<loopVars, ctxDone, stop, panic>>

-------------------------------------------------------------------------------

Loop ==
  \/ LoopTop \/ Connect \/ DialFails \/ SetReconnecting \/ Pause
  \/ CheckContext \/ SetConnected \/ Wait \/ Leave

Stop == Cancel \/ StopBase \/ StopClient \/ StopChannel

(* What the manager and its environment do but for the dial that succeeds, *)
(* whose channel MumbleForwarder chooses.                                  *)
Step ==
  \/ Loop \/ Stop \/ ServerChanges \/ UpdateAddress \/ UpdateDisconnects
  \/ \E t \in EventType : ServerDrops(t) \/ OnDisconnect(t)

-------------------------------------------------------------------------------
(* Properties.                                                             *)

(* The loop never sleeps over a lost connection: while it waits with no    *)
(* live client, something is under way that wakes it.  (UpdateAddress      *)
(* takes the client away behind the loop's back, and a full channel drops  *)
(* events.)                                                                *)
NoSilentLoss ==
  loop = "waiting" /\ client # "live" =>
    disconnectCh # "empty" \/ ctxDone \/ \E t \in EventType : reporting[t] > 0

(* A dial cannot be cancelled, it may succeed after Stop: no client is     *)
(* left connected all the same.                                            *)
NoClientLeft == loop = "done" /\ stop = "closed" => client = "none"

(* With a server that stays up, nobody changing the address, no client of  *)
(* an earlier session to report, and unless it is kicked, the bot is       *)
(* connected in the end, and stays.                                        *)
ServerStays == serverUp /\ ~ctxDone /\ update = "idle"
StaysConnected ==
  others = 0 =>
    (<>[](ServerStays /\ status # "Failed") => <>[](status = "Connected" \/ panic))

===============================================================================
