------------------------- MODULE MumblePresenceProofs -------------------------
(***************************************************************************)
(* The safety of MumblePresence, whatever the lookups do and whether or    *)
(* not the instance is stopped, and that it implements PresenceLifecycle.  *)
(***************************************************************************)
EXTENDS MumblePresence, TLAPS

(* What the place of the mode's goroutine says of the presence.  Only it   *)
(* writes BridgeActive, AudioActive and whether there is a manager.        *)
PlacesAgree ==
  /\ main \in {"select", "checkDiscord", "announce", "stopAudio"} =>
       (BridgeActive <=> manager # "off")
  /\ main \in {"leave", "leaveAudio", "leaveManager"} => BridgeActive /\ manager # "off"
  /\ main \in {"leaveFlags", "leaveActive"} => BridgeActive /\ manager = "off"
  /\ main \in {"leaveUsers", "stopMumble", "ended"} => ~BridgeActive /\ manager = "off"
  /\ AudioActive => BridgeActive /\ main \in {"select", "checkDiscord", "announce", "leave"}

(* A pending disconnect is one of the presence there is: DisconnectTimeout *)
(* leaves without another look at BridgeActive.                            *)
TimersAgree ==
  /\ dying => main \notin {"select", "checkDiscord", "announce", "stopAudio"}
  /\ disconnectTimer # "none" /\ ~dying =>
       BridgeActive /\ main \in {"select", "checkDiscord", "announce", "stopAudio"}

(* The latch of a pipeline that runs tells whether it was announced; that  *)
(* of one that is over may be open again (StartDiscordPresence).           *)
LatchAgrees ==
  /\ announced <= 1
  /\ AudioActive /\ ~presenceAnnounced => announced = 0

IInv == TypeOK /\ PlacesAgree /\ TimersAgree /\ LatchAgrees

(* The types, of what concerns the users, the presence and the links.      *)
UsersTyped ==
  /\ mumbleUsers \in BOOLEAN /\ inChannel \in BOOLEAN /\ discordUsers \in BOOLEAN
  /\ voiceEvent \in {"none", "posted", "reconcile", "fallback"}
  /\ lookup \in {"none", "asked", "some", "nobody"} /\ misled \in BOOLEAN
  /\ MumbleUserChange \in BOOLEAN /\ DiscordUserChange \in BOOLEAN

PresenceTyped ==
  /\ disconnectTimer \in Timer /\ audioStopTimer \in Timer
  /\ BridgeActive \in BOOLEAN /\ AudioActive \in BOOLEAN /\ presenceAnnounced \in BOOLEAN
  /\ main \in {"select", "checkDiscord", "announce", "stopAudio", "leave", "leaveAudio",
               "leaveManager", "leaveFlags", "leaveActive", "leaveUsers", "stopMumble",
               "ended"}
  /\ dying \in BOOLEAN

LinksTyped ==
  /\ DiscordConnected \in BOOLEAN /\ MumbleConnected \in BOOLEAN /\ Connected \in BOOLEAN
  /\ manager \in {"off", "down", "up"} /\ report \in Report /\ emitting \in Report
  /\ stop \in {"idle", "handshake", "read", "done"} /\ panic \in {"none", "nilWaitGroup"}

LEMMA TypeParts ==
  /\ TypeOK <=> UsersTyped /\ PresenceTyped /\ announced \in 0 .. 2 /\ LinksTyped
  /\ TypeOK' <=> UsersTyped' /\ PresenceTyped' /\ announced' \in 0 .. 2 /\ LinksTyped'
  BY Zenon DEF TypeOK, UsersTyped, PresenceTyped, LinksTyped

(* The invariant holds at first.                                           *)
LEMMA InitIInv == Init => IInv
  <1> SUFFICES ASSUME Init PROVE IInv
    OBVIOUS
  <1>1. UsersTyped
    BY DEF Init, UsersTyped
  <1>2. PresenceTyped
    BY DEF Init, PresenceTyped, Timer
  <1>3. LinksTyped
    BY DEF Init, LinksTyped, Report
  <1>4. announced \in 0 .. 2
    BY DEF Init
  <1>5. PlacesAgree /\ TimersAgree /\ LatchAgrees
    BY DEF Init, PlacesAgree, TimersAgree, LatchAgrees
  <1> QED
    BY <1>1, <1>2, <1>3, <1>4, <1>5, TypeParts DEF IInv

(* Each step keeps the types.                                              *)
LEMMA TypeStep ==
  ASSUME TypeOK, [Next]_vars
  PROVE  TypeOK'
  <1>a. UsersTyped
    BY TypeParts
  <1>b. PresenceTyped
    BY TypeParts
  <1>c. LinksTyped
    BY TypeParts
  <1>d. announced \in 0 .. 2
    BY TypeParts
  <1> USE DEF Report, Timer, userVars, signalVars, timerVars, activeVars, latchVars,
        flagVars, managerVars, stopVars
  <1>1. ASSUME NEW signal \in BOOLEAN, UpdateMumbleUsers(signal) PROVE TypeOK'
    BY <1>1 DEF TypeOK, UpdateMumbleUsers
  <1>2. CASE ChannelChanges
    BY <1>2 DEF TypeOK, ChannelChanges
  <1>3. CASE OnVoiceStateUpdate
    <2>1. UsersTyped'
      BY <1>a, <1>3 DEF UsersTyped, OnVoiceStateUpdate, ReadGuild, Reconcile, Fallback,
                        VoiceStateHandled, Track
    <2>2. PresenceTyped'
      BY <1>b, <1>3 DEF PresenceTyped, OnVoiceStateUpdate, ReadGuild, Reconcile, Fallback,
                        VoiceStateHandled
    <2>3. LinksTyped'
      BY <1>c, <1>3 DEF LinksTyped, OnVoiceStateUpdate, ReadGuild, Reconcile, Fallback,
                        VoiceStateHandled
    <2>4. announced' \in 0 .. 2
      BY <1>d, <1>3 DEF OnVoiceStateUpdate, ReadGuild, Reconcile, Fallback,
                        VoiceStateHandled
    <2> QED
      BY <2>1, <2>2, <2>3, <2>4, TypeParts
  <1>4. CASE LookUp
    BY <1>4 DEF TypeOK, LookUp
  <1>5. CASE AddFound
    <2>1. UsersTyped'
      BY <1>a, <1>5 DEF UsersTyped, AddFound, Track, TryAnnounce
    <2>2. PresenceTyped'
      BY <1>b, <1>5 DEF PresenceTyped, AddFound, TryAnnounce
    <2>3. LinksTyped'
      BY <1>c, <1>5 DEF LinksTyped, AddFound, TryAnnounce
    <2>4. announced' \in 0 .. 2
      BY <1>d, <1>5 DEF AddFound, TryAnnounce
    <2> QED
      BY <2>1, <2>2, <2>3, <2>4, TypeParts
  <1>6. CASE HandleReport
    BY <1>6 DEF TypeOK, HandleReport, DiscordFlag
  <1>7. CASE Emit
    BY <1>7 DEF TypeOK, Emit, DiscordFlag
  <1>8. ASSUME NEW up \in BOOLEAN, MumbleReports(up) PROVE TypeOK'
    BY <1>8 DEF TypeOK, MumbleReports
  <1>9. ASSUME NEW status \in {"down", "up"}, DiscordReports(status) PROVE TypeOK'
    BY <1>9 DEF TypeOK, DiscordReports
  <1>10. CASE Tick
    <2>1. UsersTyped'
      BY <1>a, <1>10 DEF UsersTyped, Tick, CheckMumble, StartDiscordPresence
    <2>2. PresenceTyped'
      BY <1>b, <1>10 DEF PresenceTyped, Tick, CheckMumble, StartDiscordPresence
    <2>3. LinksTyped'
      BY <1>c, <1>10 DEF LinksTyped, Tick, CheckMumble, StartDiscordPresence
    <2>4. announced' \in 0 .. 2
      BY <1>d, <1>10 DEF Tick, CheckMumble, StartDiscordPresence
    <2> QED
      BY <2>1, <2>2, <2>3, <2>4, TypeParts
  <1>11. CASE MumbleSignal
    <2>1. UsersTyped'
      BY <1>a, <1>11 DEF UsersTyped, MumbleSignal, CheckMumble, StartDiscordPresence
    <2>2. PresenceTyped'
      BY <1>b, <1>11 DEF PresenceTyped, MumbleSignal, CheckMumble, StartDiscordPresence
    <2>3. LinksTyped'
      BY <1>c, <1>11 DEF LinksTyped, MumbleSignal, CheckMumble, StartDiscordPresence
    <2>4. announced' \in 0 .. 2
      BY <1>d, <1>11 DEF MumbleSignal, CheckMumble, StartDiscordPresence
    <2> QED
      BY <2>1, <2>2, <2>3, <2>4, TypeParts
  <1>12. CASE DiscordCheck
    <2>1. UsersTyped'
      BY <1>a, <1>12 DEF UsersTyped, DiscordCheck, CheckDiscord, StartAudioPipeline
    <2>2. PresenceTyped'
      BY <1>b, <1>12 DEF PresenceTyped, DiscordCheck, CheckDiscord, StartAudioPipeline
    <2>3. LinksTyped'
      BY <1>c, <1>12 DEF LinksTyped, DiscordCheck, CheckDiscord, StartAudioPipeline
    <2>4. announced' \in 0 .. 2
      BY <1>d, <1>12 DEF DiscordCheck, CheckDiscord, StartAudioPipeline
    <2> QED
      BY <2>1, <2>2, <2>3, <2>4, TypeParts
  <1>13. CASE AnnouncePipeline
    <2>1. UsersTyped'
      BY <1>a, <1>13 DEF UsersTyped, AnnouncePipeline, TryAnnounce
    <2>2. PresenceTyped'
      BY <1>b, <1>13 DEF PresenceTyped, AnnouncePipeline, TryAnnounce
    <2>3. LinksTyped'
      BY <1>c, <1>13 DEF LinksTyped, AnnouncePipeline, TryAnnounce
    <2>4. announced' \in 0 .. 2
      BY <1>d, <1>13 DEF AnnouncePipeline, TryAnnounce
    <2> QED
      BY <2>1, <2>2, <2>3, <2>4, TypeParts
  <1>14. CASE AudioTimeout
    <2>1. UsersTyped'
      BY <1>a, <1>14 DEF UsersTyped, AudioTimeout, BeginStopAudio
    <2>2. PresenceTyped'
      BY <1>b, <1>14 DEF PresenceTyped, AudioTimeout, BeginStopAudio
    <2>3. LinksTyped'
      BY <1>c, <1>14 DEF LinksTyped, AudioTimeout, BeginStopAudio
    <2>4. announced' \in 0 .. 2
      BY <1>d, <1>14 DEF AudioTimeout, BeginStopAudio
    <2> QED
      BY <2>1, <2>2, <2>3, <2>4, TypeParts
  <1>15. CASE DisconnectTimeout
    BY <1>15 DEF TypeOK, DisconnectTimeout
  <1>16. CASE StopDiscordPresence
    <2>1. UsersTyped'
      BY <1>a, <1>16 DEF UsersTyped, StopDiscordPresence, BeginStopAudio
    <2>2. PresenceTyped'
      BY <1>b, <1>16 DEF PresenceTyped, StopDiscordPresence, BeginStopAudio
    <2>3. LinksTyped'
      BY <1>c, <1>16 DEF LinksTyped, StopDiscordPresence, BeginStopAudio
    <2>4. announced' \in 0 .. 2
      BY <1>d, <1>16 DEF StopDiscordPresence, BeginStopAudio
    <2> QED
      BY <2>1, <2>2, <2>3, <2>4, TypeParts
  <1>17. CASE AudioStopped
    BY <1>17 DEF TypeOK, AudioStopped
  <1>18. CASE StopDiscordManager
    BY <1>18 DEF TypeOK, StopDiscordManager
  <1>19. CASE ClearFlags
    <2>1. UsersTyped'
      BY <1>a, <1>19 DEF UsersTyped, ClearFlags, DiscordFlag
    <2>2. PresenceTyped'
      BY <1>b, <1>19 DEF PresenceTyped, ClearFlags, DiscordFlag
    <2>3. LinksTyped'
      BY <1>c, <1>19 DEF LinksTyped, ClearFlags, DiscordFlag
    <2>4. announced' \in 0 .. 2
      BY <1>d, <1>19 DEF ClearFlags, DiscordFlag
    <2> QED
      BY <2>1, <2>2, <2>3, <2>4, TypeParts
  <1>20. CASE ClearActive
    <2>1. UsersTyped'
      BY <1>a, <1>20 DEF UsersTyped, ClearActive
    <2>2. PresenceTyped'
      BY <1>b, <1>20 DEF PresenceTyped, ClearActive
    <2>3. LinksTyped'
      BY <1>c, <1>20 DEF LinksTyped, ClearActive
    <2>4. announced' \in 0 .. 2
      BY <1>d, <1>20 DEF ClearActive
    <2> QED
      BY <2>1, <2>2, <2>3, <2>4, TypeParts
  <1>21. CASE ClearDiscordUsers
    <2>1. UsersTyped'
      BY <1>a, <1>21 DEF UsersTyped, ClearDiscordUsers
    <2>2. PresenceTyped'
      BY <1>b, <1>21 DEF PresenceTyped, ClearDiscordUsers
    <2>3. LinksTyped'
      BY <1>c, <1>21 DEF LinksTyped, ClearDiscordUsers
    <2>4. announced' \in 0 .. 2
      BY <1>d, <1>21 DEF ClearDiscordUsers
    <2> QED
      BY <2>1, <2>2, <2>3, <2>4, TypeParts
  <1>22. CASE StopMumble
    <2>1. UsersTyped'
      BY <1>a, <1>22 DEF UsersTyped, StopMumble
    <2>2. PresenceTyped'
      BY <1>b, <1>22 DEF PresenceTyped, StopMumble
    <2>3. LinksTyped'
      BY <1>c, <1>22 DEF LinksTyped, StopMumble
    <2>4. announced' \in 0 .. 2
      BY <1>d, <1>22 DEF StopMumble
    <2> QED
      BY <2>1, <2>2, <2>3, <2>4, TypeParts
  <1>23. CASE DisconnectTimerFires
    BY <1>23 DEF TypeOK, DisconnectTimerFires
  <1>24. CASE AudioStopTimerFires
    BY <1>24 DEF TypeOK, AudioStopTimerFires
  <1>25. CASE HostStop
    BY <1>25 DEF TypeOK, HostStop
  <1>26. CASE Handshake
    BY <1>26 DEF TypeOK, Handshake
  <1>27. CASE ReadActive
    BY <1>27 DEF TypeOK, ReadActive
  <1>28. CASE UNCHANGED vars
    BY <1>28 DEF TypeOK, vars
  <1>29. CASE OnGuildCreate
    BY <1>29 DEF TypeOK, OnGuildCreate, Track
  <1> QED
    BY <1>1, <1>2, <1>3, <1>4, <1>5, <1>6, <1>7, <1>8, <1>9, <1>10, <1>11,
       <1>12, <1>13, <1>14, <1>15, <1>16, <1>17, <1>18, <1>19, <1>20, <1>21,
       <1>22, <1>23, <1>24, <1>25, <1>26, <1>27, <1>28, <1>29
       DEF Next, Users, Handlers, Managers, Main, Leaving

(* The handler of voice states leaves the presence to main.                *)
LEMMA HandlerLeavesPresence ==
  ASSUME OnVoiceStateUpdate
  PROVE  UNCHANGED <<timerVars, activeVars, latchVars, managerVars, main, dying>>
  <1>1. CASE ReadGuild
    BY <1>1 DEF ReadGuild
  <1>2. CASE VoiceStateHandled
    BY <1>2 DEF VoiceStateHandled
  <1> QED
    BY <1>1, <1>2 DEF OnVoiceStateUpdate, Reconcile, Fallback

(* Each step keeps the goroutine's place and the presence in agreement.    *)
LEMMA PlacesStep ==
  ASSUME TypeOK, PlacesAgree, TimersAgree, [Next]_vars
  PROVE  PlacesAgree' /\ TimersAgree'
  <1> USE DEF TypeOK, PlacesAgree, TimersAgree, userVars, signalVars, timerVars, activeVars,
        latchVars, flagVars, managerVars, stopVars
  <1>1. ASSUME NEW signal \in BOOLEAN, UpdateMumbleUsers(signal) PROVE PlacesAgree' /\ TimersAgree'
    BY <1>1 DEF UpdateMumbleUsers
  <1>2. CASE ChannelChanges
    BY <1>2 DEF ChannelChanges
  <1>3. CASE OnVoiceStateUpdate
    BY <1>3, HandlerLeavesPresence
  <1>4. CASE LookUp
    BY <1>4 DEF LookUp
  <1>5. CASE AddFound
    BY <1>5 DEF AddFound, TryAnnounce
  <1>6. CASE HandleReport
    BY <1>6 DEF HandleReport, DiscordFlag
  <1>7. CASE Emit
    BY <1>7 DEF Emit, DiscordFlag
  <1>8. ASSUME NEW up \in BOOLEAN, MumbleReports(up) PROVE PlacesAgree' /\ TimersAgree'
    BY <1>8 DEF MumbleReports
  <1>9. ASSUME NEW status \in {"down", "up"}, DiscordReports(status) PROVE PlacesAgree' /\ TimersAgree'
    BY <1>9 DEF DiscordReports
  <1>10. CASE Tick
    BY <1>10 DEF Tick, CheckMumble, StartDiscordPresence
  <1>11. CASE MumbleSignal
    BY <1>11 DEF MumbleSignal, CheckMumble, StartDiscordPresence
  <1>12. CASE DiscordCheck
    BY <1>12 DEF DiscordCheck, CheckDiscord, StartAudioPipeline
  <1>13. CASE AnnouncePipeline
    BY <1>13 DEF AnnouncePipeline, TryAnnounce
  <1>14. CASE AudioTimeout
    BY <1>14 DEF AudioTimeout, BeginStopAudio
  <1>15. CASE DisconnectTimeout
    BY <1>15 DEF DisconnectTimeout
  <1>16. CASE StopDiscordPresence
    BY <1>16 DEF StopDiscordPresence, BeginStopAudio
  <1>17. CASE AudioStopped
    BY <1>17 DEF AudioStopped
  <1>18. CASE StopDiscordManager
    BY <1>18 DEF StopDiscordManager
  <1>19. CASE ClearFlags
    BY <1>19 DEF ClearFlags, DiscordFlag
  <1>20. CASE ClearActive
    BY <1>20 DEF ClearActive
  <1>21. CASE ClearDiscordUsers
    BY <1>21 DEF ClearDiscordUsers
  <1>22. CASE StopMumble
    BY <1>22 DEF StopMumble
  <1>23. CASE DisconnectTimerFires
    BY <1>23 DEF DisconnectTimerFires
  <1>24. CASE AudioStopTimerFires
    BY <1>24 DEF AudioStopTimerFires
  <1>25. CASE HostStop
    BY <1>25 DEF HostStop
  <1>26. CASE Handshake
    BY <1>26 DEF Handshake
  <1>27. CASE ReadActive
    BY <1>27 DEF ReadActive
  <1>28. CASE UNCHANGED vars
    BY <1>28 DEF vars
  <1>29. CASE OnGuildCreate
    BY <1>29 DEF OnGuildCreate
  <1> QED
    BY <1>1, <1>2, <1>3, <1>4, <1>5, <1>6, <1>7, <1>8, <1>9, <1>10, <1>11,
       <1>12, <1>13, <1>14, <1>15, <1>16, <1>17, <1>18, <1>19, <1>20, <1>21,
       <1>22, <1>23, <1>24, <1>25, <1>26, <1>27, <1>28, <1>29
       DEF Next, Users, Handlers, Managers, Main, Leaving

(* Each step keeps the latch.                                              *)
LEMMA LatchStep ==
  ASSUME TypeOK, PlacesAgree, LatchAgrees, [Next]_vars
  PROVE  LatchAgrees'
  <1> USE DEF TypeOK, PlacesAgree, LatchAgrees, userVars, signalVars, timerVars, activeVars,
        latchVars, flagVars, managerVars, stopVars
  <1>1. ASSUME NEW signal \in BOOLEAN, UpdateMumbleUsers(signal) PROVE LatchAgrees'
    BY <1>1 DEF UpdateMumbleUsers
  <1>2. CASE ChannelChanges
    BY <1>2 DEF ChannelChanges
  <1>3. CASE OnVoiceStateUpdate
    BY <1>3, HandlerLeavesPresence
  <1>4. CASE LookUp
    BY <1>4 DEF LookUp
  <1>5. CASE AddFound
    BY <1>5 DEF AddFound, TryAnnounce
  <1>6. CASE HandleReport
    BY <1>6 DEF HandleReport, DiscordFlag
  <1>7. CASE Emit
    BY <1>7 DEF Emit, DiscordFlag
  <1>8. ASSUME NEW up \in BOOLEAN, MumbleReports(up) PROVE LatchAgrees'
    BY <1>8 DEF MumbleReports
  <1>9. ASSUME NEW status \in {"down", "up"}, DiscordReports(status) PROVE LatchAgrees'
    BY <1>9 DEF DiscordReports
  <1>10. CASE Tick
    BY <1>10 DEF Tick, CheckMumble, StartDiscordPresence
  <1>11. CASE MumbleSignal
    BY <1>11 DEF MumbleSignal, CheckMumble, StartDiscordPresence
  <1>12. CASE DiscordCheck
    BY <1>12 DEF DiscordCheck, CheckDiscord, StartAudioPipeline
  <1>13. CASE AnnouncePipeline
    BY <1>13 DEF AnnouncePipeline, TryAnnounce
  <1>14. CASE AudioTimeout
    BY <1>14 DEF AudioTimeout, BeginStopAudio
  <1>15. CASE DisconnectTimeout
    BY <1>15 DEF DisconnectTimeout
  <1>16. CASE StopDiscordPresence
    BY <1>16 DEF StopDiscordPresence, BeginStopAudio
  <1>17. CASE AudioStopped
    BY <1>17 DEF AudioStopped
  <1>18. CASE StopDiscordManager
    BY <1>18 DEF StopDiscordManager
  <1>19. CASE ClearFlags
    BY <1>19 DEF ClearFlags, DiscordFlag
  <1>20. CASE ClearActive
    BY <1>20 DEF ClearActive
  <1>21. CASE ClearDiscordUsers
    BY <1>21 DEF ClearDiscordUsers
  <1>22. CASE StopMumble
    BY <1>22 DEF StopMumble
  <1>23. CASE DisconnectTimerFires
    BY <1>23 DEF DisconnectTimerFires
  <1>24. CASE AudioStopTimerFires
    BY <1>24 DEF AudioStopTimerFires
  <1>25. CASE HostStop
    BY <1>25 DEF HostStop
  <1>26. CASE Handshake
    BY <1>26 DEF Handshake
  <1>27. CASE ReadActive
    BY <1>27 DEF ReadActive
  <1>28. CASE UNCHANGED vars
    BY <1>28 DEF vars
  <1>29. CASE OnGuildCreate
    BY <1>29 DEF OnGuildCreate
  <1> QED
    BY <1>1, <1>2, <1>3, <1>4, <1>5, <1>6, <1>7, <1>8, <1>9, <1>10, <1>11,
       <1>12, <1>13, <1>14, <1>15, <1>16, <1>17, <1>18, <1>19, <1>20, <1>21,
       <1>22, <1>23, <1>24, <1>25, <1>26, <1>27, <1>28, <1>29
       DEF Next, Users, Handlers, Managers, Main, Leaving

(* The inductive invariant: the parts above hold in every state.           *)
THEOREM IInvCorrect == Spec => []IInv
  <1>1. IInv /\ [Next]_vars => IInv'
    BY TypeStep, PlacesStep, LatchStep DEF IInv
  <1> QED
    BY <1>1, InitIInv, PTL DEF Spec

(* The audio pipeline never outlives the voice connection it plays to, and *)
(* "Bridge connected." is announced once for it, whoever comes first, its  *)
(* start or the end of a lookup (StopDiscordPresence, startAudioPipeline,  *)
(* populateExistingDiscordUsers).                                          *)
THEOREM PresenceSafe == Spec => []PresenceInv
  <1>1. IInv => PresenceInv
    BY DEF IInv, TypeOK, PlacesAgree, LatchAgrees, PresenceInv, AudioWithinPresence,
       AnnouncedOncePerPipeline
  <1> QED
    BY <1>1, IInvCorrect, PTL

(* A pipeline starts without a timer that would end it: only               *)
(* checkDiscordUsers starts one, and it stops the timer in the same turn.  *)
THEOREM NoTimerInherited == Spec => NoInheritedTimer
  <1>1. TypeOK /\ [Next]_vars => [~AudioActive /\ AudioActive' => audioStopTimer' = "none"]_vars
    <2> SUFFICES ASSUME TypeOK, Next, ~AudioActive, AudioActive'
                 PROVE  audioStopTimer' = "none"
      OBVIOUS
    <2>1. DiscordCheck
      BY HandlerLeavesPresence
         DEF Next, Users, Handlers, Managers, Main, Leaving, activeVars, UpdateMumbleUsers,
         ChannelChanges, OnGuildCreate, LookUp, AddFound, HandleReport, Emit,
         MumbleReports, DiscordReports, Tick, MumbleSignal, CheckMumble, StartDiscordPresence,
         AnnouncePipeline, AudioTimeout, DisconnectTimeout, StopDiscordPresence, BeginStopAudio,
         AudioStopped, StopDiscordManager, ClearFlags, ClearActive, ClearDiscordUsers,
         StopMumble, DisconnectTimerFires, AudioStopTimerFires, HostStop, Handshake, ReadActive
    <2> QED
      BY <2>1 DEF DiscordCheck, CheckDiscord
  <1>2. IInv => TypeOK
    BY DEF IInv
  <1> QED
    BY <1>1, <1>2, IInvCorrect, PTL DEF Spec, NoInheritedTimer

-------------------------------------------------------------------------------
(* PresenceLifecycle.                                                      *)

(* Every step is a step of PresenceLifecycle or leaves its variables alone. *)
LEMMA LifecycleStep ==
  ASSUME IInv, [Next]_vars
  PROVE  [Lifecycle!Next]_(Lifecycle!vars)
  <1> DEFINE Goal == Lifecycle!Next \/ UNCHANGED Lifecycle!vars
  <1> USE DEF IInv, TypeOK, PlacesAgree, LatchAgrees, Level, Lifecycle!vars, Lifecycle!Next,
        userVars, signalVars, timerVars, activeVars, latchVars, flagVars, managerVars, stopVars
  <1>1. ASSUME NEW signal \in BOOLEAN, UpdateMumbleUsers(signal) PROVE Goal
    BY <1>1 DEF UpdateMumbleUsers
  <1>2. CASE ChannelChanges
    BY <1>2 DEF ChannelChanges
  <1>3. CASE OnVoiceStateUpdate
    BY <1>3, HandlerLeavesPresence
  <1>4. CASE LookUp
    BY <1>4 DEF LookUp
  <1>5. CASE AddFound
    BY <1>5 DEF AddFound, TryAnnounce, Lifecycle!Announce
  <1>6. CASE HandleReport
    BY <1>6 DEF HandleReport, DiscordFlag
  <1>7. CASE Emit
    BY <1>7 DEF Emit, DiscordFlag
  <1>8. ASSUME NEW up \in BOOLEAN, MumbleReports(up) PROVE Goal
    BY <1>8 DEF MumbleReports
  <1>9. ASSUME NEW status \in {"down", "up"}, DiscordReports(status) PROVE Goal
    BY <1>9 DEF DiscordReports
  <1>10. CASE Tick
    BY <1>10 DEF Tick, CheckMumble, StartDiscordPresence, Lifecycle!Join
  <1>11. CASE MumbleSignal
    BY <1>11 DEF MumbleSignal, CheckMumble, StartDiscordPresence, Lifecycle!Join
  <1>12. CASE DiscordCheck
    BY <1>12 DEF DiscordCheck, CheckDiscord, StartAudioPipeline, Lifecycle!Begin
  <1>13. CASE AnnouncePipeline
    BY <1>13 DEF AnnouncePipeline, TryAnnounce, Lifecycle!Announce
  <1>14. CASE AudioTimeout
    BY <1>14 DEF AudioTimeout, BeginStopAudio, Lifecycle!End
  <1>15. CASE DisconnectTimeout
    BY <1>15 DEF DisconnectTimeout
  <1>16. CASE StopDiscordPresence
    BY <1>16 DEF StopDiscordPresence, BeginStopAudio, Lifecycle!End
  <1>17. CASE AudioStopped
    BY <1>17 DEF AudioStopped, Lifecycle!Finish
  <1>18. CASE StopDiscordManager
    BY <1>18 DEF StopDiscordManager, Lifecycle!Leave
  <1>19. CASE ClearFlags
    BY <1>19 DEF ClearFlags, DiscordFlag
  <1>20. CASE ClearActive
    BY <1>20 DEF ClearActive, Lifecycle!Clear
  <1>21. CASE ClearDiscordUsers
    BY <1>21 DEF ClearDiscordUsers
  <1>22. CASE StopMumble
    BY <1>22 DEF StopMumble
  <1>23. CASE DisconnectTimerFires
    BY <1>23 DEF DisconnectTimerFires
  <1>24. CASE AudioStopTimerFires
    BY <1>24 DEF AudioStopTimerFires
  <1>25. CASE HostStop
    BY <1>25 DEF HostStop
  <1>26. CASE Handshake
    BY <1>26 DEF Handshake
  <1>27. CASE ReadActive
    BY <1>27 DEF ReadActive
  <1>28. CASE UNCHANGED vars
    BY <1>28 DEF vars
  <1>29. CASE OnGuildCreate
    BY <1>29 DEF OnGuildCreate
  <1> QED
    BY <1>1, <1>2, <1>3, <1>4, <1>5, <1>6, <1>7, <1>8, <1>9, <1>10, <1>11,
       <1>12, <1>13, <1>14, <1>15, <1>16, <1>17, <1>18, <1>19, <1>20, <1>21,
       <1>22, <1>23, <1>24, <1>25, <1>26, <1>27, <1>28, <1>29
       DEF Next, Users, Handlers, Managers, Main, Leaving

(* The mode's presence, whatever its users, timers, lookups and a Stop of  *)
(* the instance do, is that of PresenceLifecycle.                          *)
THEOREM Refinement == Spec => RefinesPresence
  <1>1. Init => Lifecycle!Init
    BY DEF Init, Lifecycle!Init, Level
  <1>2. IInv /\ [Next]_vars => [Lifecycle!Next]_(Lifecycle!vars)
    BY LifecycleStep
  <1> QED
    BY <1>1, <1>2, IInvCorrect, PTL DEF Spec, RefinesPresence, Lifecycle!Spec

===============================================================================
