---------------------------- MODULE MumblePresence ----------------------------
(***************************************************************************)
(* The mumble mode (internal/bridge/bridge.go: MumblePresenceBridge and    *)
(* what it calls).  The Mumble connection is kept all the time; the bot    *)
(* joins Discord while Mumble has users (the presence, BridgeActive), and  *)
(* runs the audio pipeline while Discord has users as well (AudioActive).  *)
(* Both are left only after a delay of two minutes.                        *)
(*                                                                         *)
(* One goroutine (main) selects on a ticker, two signals, two timers and   *)
(* AutoChanDie.  The handlers of both chats, the managers and the goroutine *)
(* that looks up who is in the Discord channel run beside it.              *)
(*                                                                         *)
(* Users are abstracted to whether there are any; what a handler makes of  *)
(* one user's event is any outcome that the others allow.  Bounds: one     *)
(* voice event, one lookup and one status report of the Discord manager    *)
(* are under way at a time.  The link command, which mumble mode does not  *)
(* refuse, is left out.                                                    *)
(***************************************************************************)
EXTENDS Naturals

CONSTANTS
  Faults,      (* what may go wrong with Discord: GetGuild and GetUser fail,  *)
               (* or the lookup of who is in the channel is "slow": users     *)
               (* leave while it asks for their names                         *)
  MumbleLinks, (* TRUE: the Mumble manager reports its connection             *)
  HostStops    (* TRUE: the instance may be stopped                           *)

ASSUME PresenceAssumption ==
  /\ Faults \subseteq {"GetGuild", "GetUser", "slow"}
  /\ MumbleLinks \in BOOLEAN /\ HostStops \in BOOLEAN

VARIABLES
  mumbleUsers,       (* MumbleUsers is not empty                              *)
  inChannel,         (* somebody is in the Discord voice channel              *)
  discordUsers,      (* DiscordUsers is not empty                             *)
  voiceEvent,        (* the voice state update: how it is handled             *)
  lookup,            (* populateExistingDiscordUsers: what it found           *)
  MumbleUserChange, DiscordUserChange,  (* the signals (channels of one)      *)
  disconnectTimer, audioStopTimer,
  BridgeActive, AudioActive, presenceAnnounced,
  DiscordConnected, MumbleConnected, Connected,
  manager,           (* the status of the Discord manager, or "off"           *)
  report,            (* the event of it that the monitor has to handle        *)
  emitting,          (* what its goroutine has to pass to EmitConnectionEvent *)
  main, dying,       (* where MumblePresenceBridge is; it took AutoChanDie    *)
  stop, panic,       (* where the instance's Stop is; how it panicked         *)
  announced,         (* history: announcements since the pipeline began       *)
  misled             (* history: who was last to look at the channel left     *)
                     (* discordUsers other than it is                         *)

userVars    == <<mumbleUsers, inChannel, discordUsers, voiceEvent, lookup, misled>>
signalVars  == <<MumbleUserChange, DiscordUserChange>>
timerVars   == <<disconnectTimer, audioStopTimer>>
activeVars  == <<BridgeActive, AudioActive>>
latchVars   == <<presenceAnnounced, announced>>
flagVars    == <<DiscordConnected, MumbleConnected, Connected>>
managerVars == <<manager, report, emitting>>
stopVars    == <<stop, panic>>
vars == <<userVars, signalVars, timerVars, activeVars, latchVars, flagVars,
          managerVars, main, dying, stopVars>>

Report == {"none", "up", "down"}
Timer  == {"none", "pending", "fired"}

TypeOK ==
  /\ mumbleUsers \in BOOLEAN /\ inChannel \in BOOLEAN /\ discordUsers \in BOOLEAN
  /\ voiceEvent \in {"none", "posted", "reconcile", "fallback"}
  /\ lookup \in {"none", "asked", "some", "nobody"} /\ misled \in BOOLEAN
  /\ MumbleUserChange \in BOOLEAN /\ DiscordUserChange \in BOOLEAN
  /\ disconnectTimer \in Timer /\ audioStopTimer \in Timer
  /\ BridgeActive \in BOOLEAN /\ AudioActive \in BOOLEAN /\ presenceAnnounced \in BOOLEAN
  /\ DiscordConnected \in BOOLEAN /\ MumbleConnected \in BOOLEAN /\ Connected \in BOOLEAN
  /\ manager \in {"off", "down", "up"} /\ report \in Report /\ emitting \in Report
  /\ main \in {"select", "checkDiscord", "announce", "stopAudio", "leave", "leaveAudio",
               "leaveManager", "leaveFlags", "leaveActive", "leaveUsers", "stopMumble",
               "ended"}
  /\ dying \in BOOLEAN
  /\ stop \in {"idle", "handshake", "read", "done"} /\ panic \in {"none", "nilWaitGroup"}
  /\ announced \in 0 .. 2

Init ==
  /\ mumbleUsers = FALSE /\ inChannel \in BOOLEAN /\ discordUsers = FALSE
  /\ voiceEvent = "none" /\ lookup = "none" /\ misled = FALSE
  /\ MumbleUserChange = FALSE /\ DiscordUserChange = FALSE
  /\ disconnectTimer = "none" /\ audioStopTimer = "none"
  /\ BridgeActive = FALSE /\ AudioActive = FALSE
  /\ presenceAnnounced = FALSE /\ announced = 0
  /\ DiscordConnected = FALSE /\ MumbleConnected = FALSE /\ Connected = FALSE
  /\ manager = "off" /\ report = "none" /\ emitting = "none"
  /\ main = "select" /\ dying = FALSE /\ stop = "idle" /\ panic = "none"

-------------------------------------------------------------------------------
(* The users, and the handlers of their coming and going.                  *)

(* updateUsers of the Mumble listener.  Its early returns (no own name, an *)
(* empty channel) clear the users without the signal.                      *)
UpdateMumbleUsers(signal) ==
  /\ mumbleUsers' = ~mumbleUsers
  /\ ~signal => ~mumbleUsers'
  /\ MumbleUserChange' = (MumbleUserChange \/ signal)
  /\ UNCHANGED <<inChannel, discordUsers, voiceEvent, lookup, misled, DiscordUserChange,
                 timerVars, activeVars, latchVars, flagVars, managerVars, main, dying, stopVars>>

(* Somebody comes, goes or changes in the guild.  The next one waits for   *)
(* the handler, which the gateway calls before it reads on; and a lookup    *)
(* that is not slow ends before its answer is out of date.                  *)
ChannelChanges ==
  /\ voiceEvent = "none"
  /\ lookup \in {"some", "nobody"} => "slow" \in Faults
  /\ inChannel' \in BOOLEAN /\ voiceEvent' = "posted"
  /\ UNCHANGED <<mumbleUsers, discordUsers, lookup, misled, signalVars, timerVars,
                 activeVars, latchVars, flagVars, managerVars, main, dying, stopVars>>

(* Who looks at the channel leaves these users.                             *)
Track(users) == discordUsers' = users /\ misled' = (users # inChannel)

(* OnVoiceStateUpdate: the guild is read without the lock.  Its cache is    *)
(* empty when nobody is in any voice channel.                               *)
ReadGuild ==
  /\ voiceEvent = "posted"
  /\ \/ voiceEvent' = "reconcile"
     \/ voiceEvent' = "fallback" /\ (~inChannel \/ "GetGuild" \in Faults)
  /\ UNCHANGED <<mumbleUsers, inChannel, discordUsers, lookup, misled, signalVars, timerVars,
                 activeVars, latchVars, flagVars, managerVars, main, dying, stopVars>>

VoiceStateHandled ==
  /\ voiceEvent' = "none" /\ DiscordUserChange' = TRUE
  /\ UNCHANGED <<mumbleUsers, inChannel, lookup, MumbleUserChange, timerVars, activeVars,
                 latchVars, flagVars, managerVars, main, dying, stopVars>>

(* Mutant of Reconcile: those who left are not removed.                     *)
ReconcileAddsOnly ==
  /\ voiceEvent = "reconcile"
  /\ discordUsers' = (discordUsers \/ inChannel) /\ misled' = FALSE
  /\ VoiceStateHandled

(* The users become those of the guild's cache, but for the new ones whose  *)
(* names GetUser does not find.                                             *)
Reconcile ==
  /\ voiceEvent = "reconcile"
  /\ \/ Track(inChannel)
     \/ "GetUser" \in Faults /\ Track(FALSE)
  /\ VoiceStateHandled

(* Only the user of the event is added (that needs a name) or removed (the  *)
(* last one known, or not); the others stay as they are.                    *)
Fallback ==
  /\ voiceEvent = "fallback"
  /\ \/ inChannel /\ Track(TRUE)
     \/ Track(discordUsers)
     \/ Track(FALSE)
  /\ VoiceStateHandled

(* OnGuildCreate: those in the channel whose names are found are added.     *)
OnGuildCreate ==
  /\ voiceEvent = "none" /\ inChannel
  /\ Track(TRUE)
  /\ UNCHANGED <<mumbleUsers, inChannel, voiceEvent, lookup, signalVars, timerVars,
                 activeVars, latchVars, flagVars, managerVars, main, dying, stopVars>>

(* tryPresenceAnnouncement in mumble mode.                                 *)
TryAnnounce ==
  IF DiscordConnected /\ MumbleConnected /\ ~presenceAnnounced /\ AudioActive
  THEN presenceAnnounced' = TRUE /\ announced' = (IF announced < 2 THEN announced + 1 ELSE 2)
  ELSE UNCHANGED latchVars

(* populateExistingDiscordUsers, first pass: who is in the channel, not     *)
(* tracked yet, and has a name ...                                          *)
LookUp ==
  /\ lookup = "asked"
  /\ \/ lookup' = (IF inChannel THEN "some" ELSE "nobody") /\ UNCHANGED misled
     \/ discordUsers /\ lookup' = "nobody" /\ UNCHANGED misled
     \/ "GetGuild" \in Faults /\ lookup' = "none" /\ misled' = (misled \/ inChannel)
     \/ Faults \cap {"GetGuild", "GetUser"} # {} /\ lookup' = "nobody"
           /\ misled' = (misled \/ inChannel)
  /\ UNCHANGED <<mumbleUsers, inChannel, discordUsers, voiceEvent, signalVars, timerVars,
                 activeVars, latchVars, flagVars, managerVars, main, dying, stopVars>>

(* ... second pass: they are added.                                         *)
AddFound ==
  /\ lookup \in {"some", "nobody"}
  /\ IF lookup = "some" THEN Track(TRUE) ELSE UNCHANGED <<discordUsers, misled>>
  /\ lookup' = "none"
  /\ TryAnnounce
  /\ UNCHANGED <<mumbleUsers, inChannel, voiceEvent, signalVars, timerVars, activeVars,
                 flagVars, managerVars, main, dying, stopVars>>

-------------------------------------------------------------------------------
(* The connections.  The flags have two writers, see ConnectionState.      *)

(* The Mumble manager reports, through both paths.                         *)
MumbleReports(up) ==
  /\ MumbleLinks /\ main # "ended" /\ up # MumbleConnected
  /\ MumbleConnected' = up /\ Connected' = (DiscordConnected /\ up)
  /\ UNCHANGED <<userVars, signalVars, timerVars, activeVars, latchVars, DiscordConnected,
                 managerVars, main, dying, stopVars>>

(* The Discord manager's status changes; its event is sent.                *)
DiscordReports(status) ==
  /\ manager # "off" /\ report = "none" /\ emitting = "none"
  /\ ~(manager = "up" /\ status = "up")
  /\ manager' = status /\ report' = status /\ emitting' = status
  /\ UNCHANGED <<userVars, signalVars, timerVars, activeVars, latchVars, flagVars,
                 main, dying, stopVars>>

DiscordFlag(up) ==
  /\ DiscordConnected' = up /\ Connected' = (up /\ MumbleConnected)
  /\ UNCHANGED MumbleConnected

(* EmitConnectionEvent, at the end of SetStatus: by then the manager may   *)
(* have been stopped.                                                      *)
Emit ==
  /\ emitting # "none"
  /\ DiscordFlag(emitting = "up")
  /\ emitting' = "none"
  /\ UNCHANGED <<userVars, signalVars, timerVars, activeVars, latchVars, manager, report,
                 main, dying, stopVars>>

(* Mutant of HandleReport: nobody asks who was in the channel before.      *)
HandleReportNoLookup ==
  /\ report # "none" /\ lookup = "none"
  /\ DiscordFlag(report = "up")
  /\ report' = "none"
  /\ UNCHANGED <<userVars, signalVars, timerVars, activeVars, latchVars, manager, emitting,
                 main, dying, stopVars>>

(* handleDiscordConnectionEvent: a connection starts the lookup.           *)
HandleReport ==
  /\ report # "none" /\ lookup = "none"
  /\ DiscordFlag(report = "up")
  /\ lookup' = IF report = "up" THEN "asked" ELSE lookup
  /\ report' = "none"
  /\ UNCHANGED <<mumbleUsers, inChannel, discordUsers, voiceEvent, misled, signalVars,
                 timerVars, activeVars, latchVars, manager, emitting, main, dying, stopVars>>

DisconnectTimerFires ==
  /\ disconnectTimer = "pending"
  /\ disconnectTimer' = "fired"
  /\ UNCHANGED <<userVars, signalVars, audioStopTimer, activeVars, latchVars, flagVars,
                 managerVars, main, dying, stopVars>>

AudioStopTimerFires ==
  /\ audioStopTimer = "pending"
  /\ audioStopTimer' = "fired"
  /\ UNCHANGED <<userVars, signalVars, disconnectTimer, activeVars, latchVars, flagVars,
                 managerVars, main, dying, stopVars>>

-------------------------------------------------------------------------------
(* MumblePresenceBridge: checkMumbleUsers and checkDiscordUsers.           *)

(* StartDiscordPresence: a new manager for Discord.                        *)
StartDiscordPresence ==
  /\ BridgeActive' = TRUE /\ presenceAnnounced' = FALSE
  /\ manager' = "down" /\ report' = "none"
  /\ UNCHANGED <<AudioActive, announced, emitting>>

CheckMumble ==
  /\ IF mumbleUsers /\ ~BridgeActive
     THEN StartDiscordPresence
     ELSE UNCHANGED <<activeVars, latchVars, managerVars>>
  /\ disconnectTimer' = IF mumbleUsers THEN "none"
                        ELSE IF BridgeActive /\ disconnectTimer = "none" THEN "pending"
                        ELSE disconnectTimer
  /\ UNCHANGED audioStopTimer

(* startAudioPipeline, up to its announcement.                             *)
StartAudioPipeline ==
  /\ AudioActive' = TRUE
  /\ presenceAnnounced' = FALSE /\ announced' = 0
  /\ main' = "announce"

(* Mutant of CheckDiscord: a pipeline starts with the old timer.           *)
CheckDiscordKeepTimer ==
  /\ IF BridgeActive /\ discordUsers /\ ~AudioActive
     THEN StartAudioPipeline
     ELSE main' = "select" /\ UNCHANGED <<AudioActive, latchVars>>
  /\ audioStopTimer' = IF ~BridgeActive THEN audioStopTimer
                       ELSE IF discordUsers /\ AudioActive THEN "none"
                       ELSE IF AudioActive /\ audioStopTimer = "none" THEN "pending"
                       ELSE audioStopTimer
  /\ UNCHANGED <<BridgeActive, disconnectTimer, managerVars>>

CheckDiscord ==
  /\ IF BridgeActive /\ discordUsers /\ ~AudioActive
     THEN StartAudioPipeline
     ELSE main' = "select" /\ UNCHANGED <<AudioActive, latchVars>>
  /\ audioStopTimer' = IF ~BridgeActive THEN audioStopTimer
                       ELSE IF discordUsers THEN "none"
                       ELSE IF AudioActive /\ audioStopTimer = "none" THEN "pending"
                       ELSE audioStopTimer
  /\ UNCHANGED <<BridgeActive, disconnectTimer, managerVars>>

(* Mutant of Tick: Mumble is left to the signals.                          *)
TickDiscordOnly ==
  /\ main = "select"
  /\ main' = "checkDiscord"
  /\ UNCHANGED <<userVars, signalVars, timerVars, activeVars, latchVars, flagVars,
                 managerVars, dying, stopVars>>

(* A tick checks both sides, a signal one.                                 *)
Tick ==
  /\ main = "select"
  /\ CheckMumble
  /\ main' = "checkDiscord"
  /\ UNCHANGED <<userVars, signalVars, flagVars, dying, stopVars>>

MumbleSignal ==
  /\ main = "select" /\ MumbleUserChange
  /\ MumbleUserChange' = FALSE
  /\ CheckMumble
  /\ UNCHANGED <<userVars, DiscordUserChange, flagVars, main, dying, stopVars>>

DiscordCheck ==
  /\ \/ main = "checkDiscord" /\ UNCHANGED DiscordUserChange
     \/ main = "select" /\ DiscordUserChange /\ DiscordUserChange' = FALSE
  /\ CheckDiscord
  /\ UNCHANGED <<userVars, MumbleUserChange, flagVars, dying, stopVars>>

(* The end of startAudioPipeline.                                          *)
AnnouncePipeline ==
  /\ main = "announce"
  /\ TryAnnounce
  /\ main' = "select"
  /\ UNCHANGED <<userVars, signalVars, timerVars, activeVars, flagVars, managerVars,
                 dying, stopVars>>

-------------------------------------------------------------------------------
(* Leaving.                                                                *)

(* Mutant of BeginStopAudio: nobody waits for the goroutines.              *)
BeginStopUnwaited(from, to) ==
  /\ main' = from
  /\ AudioActive' = FALSE

(* stopAudioPipeline: AudioActive is cleared first, then the goroutines    *)
(* are cancelled and waited for.                                           *)
BeginStopAudio(from, to) ==
  /\ main' = IF AudioActive THEN to ELSE from
  /\ AudioActive' = FALSE

AudioTimeout ==
  /\ main = "select" /\ audioStopTimer = "fired"
  /\ audioStopTimer' = "none"
  /\ BeginStopAudio("select", "stopAudio")
  /\ UNCHANGED <<userVars, signalVars, disconnectTimer, BridgeActive, latchVars, flagVars,
                 managerVars, dying, stopVars>>

DisconnectTimeout ==
  /\ main = "select" /\ disconnectTimer = "fired"
  /\ disconnectTimer' = "none"
  /\ main' = "leave"
  /\ UNCHANGED <<userVars, signalVars, audioStopTimer, activeVars, latchVars, flagVars,
                 managerVars, dying, stopVars>>

(* Mutant of StopDiscordPresence: the audio pipeline is forgotten.         *)
LeaveAudioRunning ==
  /\ main = "leave"
  /\ main' = "leaveManager"
  /\ UNCHANGED <<userVars, signalVars, timerVars, activeVars, latchVars, flagVars,
                 managerVars, dying, stopVars>>

(* StopDiscordPresence: the audio pipeline ...                             *)
StopDiscordPresence ==
  /\ main = "leave"
  /\ BeginStopAudio("leaveManager", "leaveAudio")
  /\ UNCHANGED <<userVars, signalVars, timerVars, BridgeActive, latchVars, flagVars,
                 managerVars, dying, stopVars>>

AudioStopped ==
  /\ \/ main = "stopAudio" /\ main' = "select"
     \/ main = "leaveAudio" /\ main' = "leaveManager"
  /\ UNCHANGED <<userVars, signalVars, timerVars, activeVars, latchVars, flagVars,
                 managerVars, dying, stopVars>>

(* ... stopDiscordConnectionManager: the monitor is waited for and the     *)
(* manager stopped (its goroutine may still have to emit) ...              *)
StopDiscordManager ==
  /\ main = "leaveManager"
  /\ manager' = "off" /\ report' = "none"
  /\ main' = "leaveFlags"
  /\ UNCHANGED <<userVars, signalVars, timerVars, activeVars, latchVars, flagVars, emitting,
                 dying, stopVars>>

(* ... and clears its flags; ...                                           *)
ClearFlags ==
  /\ main = "leaveFlags"
  /\ DiscordFlag(FALSE)
  /\ main' = "leaveActive"
  /\ UNCHANGED <<userVars, signalVars, timerVars, activeVars, latchVars, managerVars, dying,
                 stopVars>>

(* ... the presence ...                                                    *)
ClearActive ==
  /\ main = "leaveActive"
  /\ BridgeActive' = FALSE /\ Connected' = FALSE
  /\ main' = "leaveUsers"
  /\ UNCHANGED <<userVars, signalVars, timerVars, AudioActive, latchVars, DiscordConnected,
                 MumbleConnected, managerVars, dying, stopVars>>

(* ... and the Discord users, who are looked up again by the next presence. *)
ClearDiscordUsers ==
  /\ main = "leaveUsers"
  /\ discordUsers' = FALSE
  /\ main' = IF dying THEN "stopMumble" ELSE "select"
  /\ UNCHANGED <<mumbleUsers, inChannel, voiceEvent, lookup, misled, signalVars, timerVars,
                 activeVars, latchVars, flagVars, managerVars, dying, stopVars>>

(* The end of the mode: Mumble is disconnected.  The sleep of 200 ms before *)
(* the flags are cleared is taken to cover the manager's last report.      *)
StopMumble ==
  /\ main = "stopMumble"
  /\ MumbleConnected' = FALSE /\ Connected' = FALSE
  /\ main' = "ended"
  /\ UNCHANGED <<userVars, signalVars, timerVars, activeVars, latchVars, DiscordConnected,
                 managerVars, dying, stopVars>>

-------------------------------------------------------------------------------
(* The Stop of the instance (pkg/bridgelib/bridge.go).                     *)

HostStop ==
  /\ HostStops /\ stop = "idle"
  /\ stop' = "handshake"
  /\ UNCHANGED <<userVars, signalVars, timerVars, activeVars, latchVars, flagVars,
                 managerVars, main, dying, panic>>

(* AutoChanDie is unbuffered: main takes it from its select.               *)
Handshake ==
  /\ stop = "handshake" /\ main = "select"
  /\ stop' = "read" /\ dying' = TRUE
  /\ main' = IF BridgeActive THEN "leave" ELSE "stopMumble"
  /\ UNCHANGED <<userVars, signalVars, timerVars, activeVars, latchVars, flagVars,
                 managerVars, panic>>

(* A bridge that looks active is signalled, which is skipped (BridgeDie is *)
(* nil), and waited for with WaitExit, which mumble mode never sets.       *)
ReadActive ==
  /\ stop = "read"
  /\ stop' = "done"
  /\ panic' = IF Connected \/ BridgeActive THEN "nilWaitGroup" ELSE "none"
  /\ UNCHANGED <<userVars, signalVars, timerVars, activeVars, latchVars, flagVars,
                 managerVars, main, dying>>

-------------------------------------------------------------------------------

Users == (\E signal \in BOOLEAN : UpdateMumbleUsers(signal)) \/ ChannelChanges

OnVoiceStateUpdate == ReadGuild \/ Reconcile \/ Fallback

Handlers ==
  \/ OnVoiceStateUpdate \/ OnGuildCreate \/ LookUp \/ AddFound \/ HandleReport \/ Emit

Managers ==
  \/ \E up \in BOOLEAN : MumbleReports(up)
  \/ \E status \in {"down", "up"} : DiscordReports(status)

Leaving ==
  \/ StopDiscordPresence \/ AudioStopped \/ StopDiscordManager
  \/ ClearFlags \/ ClearActive \/ ClearDiscordUsers \/ StopMumble

Main ==
  \/ Tick \/ MumbleSignal \/ DiscordCheck \/ AnnouncePipeline
  \/ AudioTimeout \/ DisconnectTimeout \/ Leaving

Next ==
  /\ panic = "none"
  /\ \/ Users \/ Handlers \/ Managers \/ Main
     \/ DisconnectTimerFires \/ AudioStopTimerFires
     \/ HostStop \/ Handshake \/ ReadActive

(* Goroutines that can go on do; the select picks any of the cases that    *)
(* are ready again and again.  Nobody has to stop the instance.            *)
Fairness ==
  /\ WF_vars(panic = "none" /\ OnVoiceStateUpdate)
  /\ WF_vars(panic = "none" /\ (LookUp \/ AddFound))
  /\ WF_vars(panic = "none" /\ HandleReport)
  /\ WF_vars(panic = "none" /\ DisconnectTimerFires)
  /\ WF_vars(panic = "none" /\ AudioStopTimerFires)
  /\ WF_vars(panic = "none" /\ (main # "select" /\ Main))
  /\ SF_vars(panic = "none" /\ Tick)
  /\ SF_vars(panic = "none" /\ AudioTimeout)
  /\ SF_vars(panic = "none" /\ DisconnectTimeout)

Spec == Init /\ [][Next]_vars
FairSpec == Spec /\ Fairness

-------------------------------------------------------------------------------
(* Properties.                                                             *)

(* The audio pipeline never outlives the voice connection it plays to.     *)
AudioWithinPresence == AudioActive => BridgeActive /\ manager # "off"

(* "Bridge connected." is announced once per pipeline, although the start  *)
(* of the pipeline and the end of a lookup both try.                       *)
AnnouncedOncePerPipeline == announced <= 1

(* The parts of the invariant.                                             *)
PresenceInv == TypeOK /\ AudioWithinPresence /\ AnnouncedOncePerPipeline

(* A delay that began for earlier users never ends a later pipeline: the   *)
(* timer may survive the pipeline (StopDiscordPresence does not stop it),  *)
(* but not the start of the next.                                          *)
NoInheritedTimer == [][~AudioActive /\ AudioActive' => audioStopTimer' = "none"]_vars

(* The presence as its users see it.  Which goroutine moved it, and what   *)
(* the timers, signals, lookups and flags did meanwhile, is not seen.      *)
Level ==
  IF manager = "off" THEN "away"
  ELSE IF AudioActive THEN "bridging"
  ELSE IF main \in {"stopAudio", "leaveAudio"} THEN "ending"
  ELSE "present"

Lifecycle == INSTANCE PresenceLifecycle WITH active <- BridgeActive, level <- Level

(* Every step of the mode, its handlers and a Stop of the instance is a    *)
(* step of PresenceLifecycle: no pipeline begins before the last is down,  *)
(* and the goodbye of stopAudioPipeline is said while the bot is there.    *)
RefinesPresence == Lifecycle!Spec

(* The bot is in Discord in the end if and only if Mumble has users, also  *)
(* when a signal was lost or a timer fired too late to be cancelled.       *)
PresenceFollowsMumble ==
  /\ <>[](mumbleUsers /\ ~dying) => <>[]BridgeActive
  /\ <>[](~mumbleUsers /\ ~dying) => <>[]~BridgeActive

(* The same for the pipeline and the users in the Discord channel, while   *)
(* the bot is there, and once the handler, the lookup or OnGuildCreate that *)
(* last looked at the channel was not misled (GetUser found no name,        *)
(* GetGuild no guild or no voice states, the lookup's answer was            *)
(* overtaken).  What a presence forgets when it ends, the next one looks up. *)
Present == BridgeActive /\ manager = "up" /\ ~dying
AudioFollowsDiscord == <>[](Present /\ inChannel /\ ~misled) => <>[]AudioActive

(* "Delayed audio stop: when Discord empties, wait before stopping audio   *)
(* pipeline" (bridge.go): it does stop, on the same condition.             *)
AudioStopsWhenEmpty == <>[](Present /\ ~inChannel /\ ~misled) => <>[]~AudioActive

===============================================================================
