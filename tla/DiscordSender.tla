----------------------------- MODULE DiscordSender -----------------------------
(***************************************************************************)
(* Mumble's audio on its way to Discord (internal/bridge/discord_duplex.go, *)
(* toDiscordOpusMixer and toDiscordSender): every 10 ms the mixer asks     *)
(* MixOneChunk for a chunk and makes a frame of two of them, every 20 ms   *)
(* the sender takes a frame from the jitter buffer, or sends silence.  The *)
(* sender tells Discord when a spurt of speech begins and ends.            *)
(*                                                                         *)
(* Time is the two tickers.  SleepNextTarget keeps their targets a fixed   *)
(* distance apart, so only the lateness of the goroutines lets one run     *)
(* ahead of the other: lead, the mixer's ticks less twice the sender's,    *)
(* stays within Skew.  Frames are counted, what they hold is left out, and *)
(* so are the encoder's errors.                                            *)
(***************************************************************************)
EXTENDS Integers

CONSTANTS
  BufferSize,     (* toDiscordJitterBufferSize                                *)
  GraceTicks,     (* noDataGraceTicks                                         *)
  SilenceFrames,  (* silenceFrameCount                                        *)
  Skew            (* bound: ticks of 10 ms by which one ticker leads          *)

ASSUME SenderAssumption ==
  BufferSize \in Nat /\ GraceTicks \in Nat \ {0} /\ SilenceFrames \in Nat \ {0}
  /\ Skew \in Nat \ {0}

VARIABLES
  talking,        (* MixOneChunk finds audio                                  *)
  ready,          (* GetVoiceConnection returns a connection ...              *)
  told,           (* ... which was last told that the bot speaks              *)
  refused,        (* history: the last setSpeaking on it failed               *)
  cancelled,      (* the pipeline's context                                   *)
  lead,
  pending,        (* the mixer has a first chunk that waits for its second    *)
  queue,          (* frames in opusBuffer                                     *)
  sender,         (* where toDiscordSender is                                 *)
  streaming, noDataTicks,
  silence,        (* frames of silence it has sent at the end of a spurt      *)
  closeSince      (* history: it has ended a spurt since it last found the    *)
                  (* buffer empty                                             *)

envVars    == <<talking, ready, cancelled>>
mixerVars  == <<pending, queue>>
senderVars == <<sender, streaming, noDataTicks, silence, closeSince>>
speakingVars == <<told, refused>>
toDiscordVars == <<envVars, speakingVars, lead, mixerVars, senderVars>>

SenderTypeOK ==
  /\ talking \in BOOLEAN /\ ready \in BOOLEAN /\ cancelled \in BOOLEAN
  /\ told \in BOOLEAN /\ refused \in BOOLEAN
  /\ lead \in -Skew .. Skew
  /\ pending \in BOOLEAN /\ queue \in 0 .. BufferSize
  /\ sender \in {"tick", "begin", "send", "closing", "end", "gone"}
  /\ streaming \in BOOLEAN /\ noDataTicks \in 0 .. GraceTicks
  /\ silence \in 0 .. SilenceFrames /\ closeSince \in BOOLEAN

SenderInit ==
  /\ talking = FALSE /\ ready \in BOOLEAN /\ cancelled = FALSE
  /\ told = FALSE /\ refused = FALSE
  /\ lead = 0 /\ pending = FALSE /\ queue = 0
  /\ sender = "tick" /\ streaming = FALSE /\ noDataTicks = 0 /\ silence = 0
  /\ closeSince = FALSE

-------------------------------------------------------------------------------
(* The speakers, the voice connection and the pipeline.                    *)

SpeechChanges ==
  /\ talking' = ~talking
  /\ UNCHANGED <<ready, cancelled, speakingVars, lead, mixerVars, senderVars>>

(* A connection that is lost is replaced: the next one was told nothing.   *)
VoiceChanges ==
  /\ ready' = ~ready /\ told' = FALSE /\ refused' = FALSE
  /\ UNCHANGED <<talking, cancelled, lead, mixerVars, senderVars>>

CancelSender ==
  /\ ~cancelled
  /\ cancelled' = TRUE
  /\ UNCHANGED <<talking, ready, speakingVars, lead, mixerVars, senderVars>>

-------------------------------------------------------------------------------
(* toDiscordOpusMixer: a tick.  A lone first chunk is completed with       *)
(* silence, and a frame for which there is no room is dropped.             *)

MixerMayTick == ~cancelled /\ lead < Skew

(* Mutant of MixTick: a lone chunk waits for the next spurt.               *)
MixTickKeeps ==
  /\ MixerMayTick
  /\ lead' = lead + 1
  /\ pending' = IF talking THEN ~pending ELSE pending
  /\ queue' = IF pending /\ talking /\ queue < BufferSize THEN queue + 1 ELSE queue
  /\ UNCHANGED <<envVars, speakingVars, senderVars>>

MixTick ==
  /\ MixerMayTick
  /\ lead' = lead + 1
  /\ pending' = (talking /\ ~pending)
  /\ queue' = IF pending /\ queue < BufferSize THEN queue + 1 ELSE queue
  /\ UNCHANGED <<envVars, speakingVars, senderVars>>

-------------------------------------------------------------------------------
(* toDiscordSender.                                                        *)

(* (Once the pipeline is cancelled there is no mixer to keep up with.)     *)
SenderTicks ==
  IF cancelled THEN UNCHANGED lead ELSE lead - 2 >= -Skew /\ lead' = lead - 2

(* Mutant of TickFrame: the frame that begins a spurt costs a tick.        *)
TickFrameLate ==
  /\ sender = "tick" /\ ~cancelled /\ SenderTicks /\ queue > 0
  /\ queue' = IF streaming THEN queue - 1 ELSE queue
  /\ noDataTicks' = 0
  /\ sender' = IF streaming THEN "send" ELSE "begin"
  /\ UNCHANGED <<envVars, speakingVars, pending, streaming, silence, closeSince>>

(* A tick that finds a frame.                                              *)
TickFrame ==
  /\ sender = "tick" /\ ~cancelled /\ SenderTicks /\ queue > 0
  /\ queue' = queue - 1 /\ noDataTicks' = 0
  /\ sender' = IF streaming THEN "send" ELSE "begin"
  /\ UNCHANGED <<envVars, speakingVars, pending, streaming, silence, closeSince>>

(* setSpeaking does nothing without a connection.  The call on one may fail *)
(* or panic: that is logged, and whoever called goes on as if it had not.  *)
SetSpeaking(speaking) ==
  \/ ready /\ told' = speaking /\ refused' = FALSE
  \/ ready /\ refused' = TRUE /\ UNCHANGED told
  \/ ~ready /\ UNCHANGED speakingVars

Begin ==
  /\ sender = "begin"
  /\ SetSpeaking(TRUE)
  /\ streaming' = TRUE /\ sender' = "send"
  /\ UNCHANGED <<envVars, lead, mixerVars, noDataTicks, silence, closeSince>>

(* internalSend, on the connection there is now.                           *)
SendFrame ==
  /\ sender = "send"
  /\ sender' = "tick"
  /\ UNCHANGED <<envVars, speakingVars, lead, mixerVars, streaming, noDataTicks, silence, closeSince>>

Grace == noDataTicks + 1 >= GraceTicks

(* A tick that finds none: a frame of silence while nothing is streamed,   *)
(* and after the grace the first of those that end the spurt.              *)
TickNothing ==
  /\ sender = "tick" /\ ~cancelled /\ SenderTicks /\ queue = 0
  /\ noDataTicks' = IF streaming THEN noDataTicks + 1 ELSE noDataTicks
  /\ IF streaming /\ Grace THEN sender' = "closing" /\ silence' = 1
                           ELSE UNCHANGED <<sender, silence>>
  /\ closeSince' = FALSE
  /\ UNCHANGED <<envVars, speakingVars, mixerVars, streaming>>

(* Mutant of TickSilence: a frame that comes meanwhile is thrown away.     *)
TickSilenceFlushes ==
  /\ sender = "closing" /\ SenderTicks
  /\ IF silence < SilenceFrames THEN silence' = silence + 1 /\ UNCHANGED sender
                                ELSE silence' = 0 /\ sender' = "end"
  /\ queue' = 0 /\ closeSince' = TRUE
  /\ UNCHANGED <<envVars, speakingVars, pending, streaming, noDataTicks>>

TickSilence ==
  /\ sender = "closing" /\ SenderTicks
  /\ IF silence < SilenceFrames THEN silence' = silence + 1 /\ UNCHANGED sender
                                ELSE silence' = 0 /\ sender' = "end"
  /\ closeSince' = TRUE
  /\ UNCHANGED <<envVars, speakingVars, mixerVars, streaming, noDataTicks>>

(* Mutant of End: the spurt ends, and Discord is not told.                 *)
EndSilent ==
  /\ sender = "end"
  /\ streaming' = FALSE /\ noDataTicks' = 0 /\ sender' = "tick"
  /\ UNCHANGED <<envVars, speakingVars, lead, mixerVars, silence, closeSince>>

End ==
  /\ sender = "end"
  /\ SetSpeaking(FALSE)
  /\ streaming' = FALSE /\ noDataTicks' = 0 /\ sender' = "tick"
  /\ UNCHANGED <<envVars, lead, mixerVars, silence, closeSince>>

(* The context is looked at between two ticks only.                        *)
SenderLeaves ==
  /\ sender = "tick" /\ cancelled
  /\ sender' = "gone"
  /\ UNCHANGED <<envVars, speakingVars, lead, mixerVars, streaming, noDataTicks, silence, closeSince>>

-------------------------------------------------------------------------------

Sender == TickFrame \/ TickNothing \/ TickSilence \/ Begin \/ SendFrame \/ End \/ SenderLeaves

SenderNext == SpeechChanges \/ VoiceChanges \/ CancelSender \/ MixTick \/ Sender

(* Both tickers go on.                                                     *)
SenderFairness == WF_toDiscordVars(MixTick) /\ WF_toDiscordVars(Sender)

SenderSpec == SenderInit /\ [][SenderNext]_toDiscordVars
FairSenderSpec == SenderSpec /\ SenderFairness

-------------------------------------------------------------------------------
(* Properties.                                                             *)

(* The connection shows the bot speaking in a spurt only, whenever         *)
(* connections came and went: one that comes in the middle of a spurt was  *)
(* told nothing, and one that is there at its end is told.  A call that    *)
(* fails at the end of a spurt is not repeated, and until the end of the   *)
(* next the bot is shown speaking: nothing else leaves it so.              *)
NotSpeakingInSilence == told => streaming \/ refused

SenderInv == SenderTypeOK /\ NotSpeakingInSilence

(* When the speakers fall silent and the connection stays, what they said  *)
(* is sent to its last chunk, the spurt is ended, and Discord is told so,  *)
(* unless that very call fails.                                            *)
SpeechEnds ==
  <>[](~talking /\ ready /\ ~cancelled)
    => <>[](~pending /\ queue = 0 /\ ~streaming /\ (told => refused))

DropsFrame == pending /\ queue = BufferSize /\ lead' = lead + 1

(* A frame finds the jitter buffer full only if speech resumed while the   *)
(* sender was busy with the silence that ends a spurt, and the buffer was  *)
(* never found empty since: however the speakers start and stop and the    *)
(* tickers drift within Skew, the sender keeps up otherwise.               *)
DropsAfterCloseOnly == [][DropsFrame => closeSince]_toDiscordVars

(* Speech that goes on is one spurt in the end, and none of it is lost:    *)
(* while each ticker keeps within Skew of the other, the jitter buffer     *)
(* takes the frames of a mixer that runs ahead, and holds enough for a     *)
(* sender that does.                                                       *)
SpeechFlows ==
  <>[](talking /\ ~cancelled) => <>[]streaming /\ <>[][~DropsFrame]_toDiscordVars

===============================================================================
