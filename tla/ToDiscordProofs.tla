----------------------------- MODULE ToDiscordProofs -----------------------------
(***************************************************************************)
(* The path of Mumble's audio to Discord: the streams that the mixer mixes *)
(* (MumbleStreams) and the mixer's frames with the sender that takes them  *)
(* (DiscordSender).  The two modules share no variable; each is proved for *)
(* itself, for any number of streams, any sizes of channels, buffer and    *)
(* packet, any grace and any number of silence frames.                     *)
(***************************************************************************)
EXTENDS MumbleStreams, DiscordSender, TLAPS

-------------------------------------------------------------------------------
(* The streams: nobody sends on a closed channel, and the mixer's receives *)
(* neither wait nor find a closed one.                                     *)


(* A reader that holds streamMutex has a chunk to send.                    *)
SendersHaveChunks == \A s \in Stream : reader[s] = "sending" => left[s] > 0

StreamsIInv == StreamsInv /\ SendersHaveChunks

(* What is to be taken is there to be taken.                               *)
LEMMA ToTakeFits ==
  ASSUME NEW n \in 0 .. StreamCap
  PROVE  ToTake(n) \in 0 .. n
  BY StreamsAssumption DEF StreamsAssumption, ToTake

(* The invariant holds at first.                                           *)
LEMMA StreamsInitIInv == Init => StreamsIInv
  BY StreamsAssumption DEF StreamsAssumption, Init, StreamsIInv, StreamsInv, TypeOK, NoSendOnClosed,
     ReceivesFindAudio, StreamsTended, SendersHaveChunks

(* The goroutine that gumble's announcement starts, at each of its steps.  *)
LEMMA ReaderStep ==
  ASSUME StreamsIInv, NEW s \in Stream,
         \/ Announce(s) \/ OnAudioStream(s) \/ Packet(s) \/ StreamEnds(s)
         \/ SendChunk(s) \/ HearDone(s) \/ Leave(s)
  PROVE  StreamsIInv'
  <1> USE StreamsAssumption DEF StreamsAssumption, StreamsIInv, StreamsInv, TypeOK, NoSendOnClosed,
        ReceivesFindAudio, StreamsTended, SendersHaveChunks, Goes,
        lockVars, listVars, closeVars, mixVars
  <1>1. CASE Announce(s)
    BY <1>1 DEF Announce
  <1>2. CASE OnAudioStream(s)
    BY <1>2 DEF OnAudioStream
  <1>3. CASE Packet(s)
    BY <1>3 DEF Packet
  <1>4. CASE StreamEnds(s)
    BY <1>4 DEF StreamEnds
  <1>5. CASE SendChunk(s)
    BY <1>5 DEF SendChunk
  <1>6. CASE HearDone(s)
    BY <1>6 DEF HearDone
  <1>7. CASE Leave(s)
    BY <1>7 DEF Leave
  <1> QED
    BY <1>1, <1>2, <1>3, <1>4, <1>5, <1>6, <1>7

(* One chunk mixed: readers may have sent more since a channel's length    *)
(* was looked at, and nobody else takes.                                   *)
LEMMA MixStep ==
  ASSUME StreamsIInv, Mix
  PROVE  StreamsIInv'
  <1> USE StreamsAssumption DEF StreamsAssumption, StreamsIInv, StreamsInv, TypeOK, NoSendOnClosed,
        ReceivesFindAudio, StreamsTended, SendersHaveChunks,
        lockVars, listVars, closeVars, mixVars
  <1>1. CASE MixBegin
    BY <1>1 DEF MixBegin
  <1>2. ASSUME NEW s \in Stream, MixLook(s) PROVE StreamsIInv'
    <2>1. ToTake(depth[s]) \in 0 .. depth[s]
      BY ToTakeFits
    <2> QED
      BY <1>2, <2>1 DEF MixLook
  <1>3. ASSUME NEW s \in Stream, MixTake(s) PROVE StreamsIInv'
    BY <1>3 DEF MixTake
  <1>4. CASE MixEnd
    BY <1>4 DEF MixEnd
  <1> QED
    BY <1>1, <1>2, <1>3, <1>4 DEF Mix

(* The end of the pipeline, with or without the mixer still ticking.       *)
LEMMA TearDownStep ==
  ASSUME StreamsIInv, Cancel \/ TearDown \/ \E s \in Stream : CloseStream(s)
  PROVE  StreamsIInv'
  <1> USE StreamsAssumption DEF StreamsAssumption, StreamsIInv, StreamsInv, TypeOK, NoSendOnClosed,
        ReceivesFindAudio, StreamsTended, SendersHaveChunks,
        lockVars, listVars, closeVars, mixVars
  <1>1. CASE Cancel
    BY <1>1 DEF Cancel
  <1>2. CASE MixerExits
    BY <1>2 DEF MixerExits
  <1>3. CASE Detach
    BY <1>3 DEF Detach
  <1>4. CASE CleanupStreams
    BY <1>4 DEF CleanupStreams
  <1>5. CASE CleanupEnds
    BY <1>5 DEF CleanupEnds
  <1>6. ASSUME NEW s \in Stream, CloseStream(s) PROVE StreamsIInv'
    BY <1>6 DEF CloseStream
  <1> QED
    BY <1>1, <1>2, <1>3, <1>4, <1>5, <1>6 DEF TearDown

(* The inductive invariant: the parts above hold in every state.           *)
THEOREM StreamsIInvCorrect == Spec => []StreamsIInv
  <1>1. StreamsIInv /\ [Next]_vars => StreamsIInv'
    <2> SUFFICES ASSUME StreamsIInv, [Next]_vars PROVE StreamsIInv'
      OBVIOUS
    <2>1. CASE Next
      BY <2>1, ReaderStep, MixStep, TearDownStep DEF Next
    <2>2. CASE UNCHANGED vars
      BY <2>2 DEF StreamsIInv, StreamsInv, TypeOK, NoSendOnClosed, ReceivesFindAudio, StreamsTended,
           SendersHaveChunks, vars, lockVars, listVars, closeVars, mixVars
    <2> QED
      BY <2>1, <2>2
  <1> QED
    BY <1>1, StreamsInitIInv, PTL DEF Spec

(* A reader never sends on the channel that Leave or CleanupStreams        *)
(* closed, a receive of MixOneChunk never blocks the mutex, and the list,  *)
(* the callbacks and the goroutines agree.                                 *)
THEOREM StreamsSafe == Spec => []StreamsInv
  BY StreamsIInvCorrect, PTL DEF StreamsIInv

-------------------------------------------------------------------------------
(* The sender.                                                             *)


(* The grace is not used up before the spurt ends, frames of silence are   *)
(* counted while it ends only, and a connection that is gone shows nothing. *)
GraceKept ==
  /\ told => ready
  /\ noDataTicks = GraceTicks => sender \in {"closing", "end"}
  /\ sender \in {"closing", "end"} => streaming
  /\ sender = "send" => streaming

SenderIInv == SenderTypeOK /\ NotSpeakingInSilence /\ GraceKept

(* The invariant holds at first.                                           *)
LEMMA SenderInitIInv == SenderInit => SenderIInv
  <1> SUFFICES ASSUME SenderInit PROVE SenderIInv
    OBVIOUS
  <1>1. lead \in -Skew .. Skew /\ queue \in 0 .. BufferSize
    BY SenderAssumption DEF SenderAssumption, SenderInit
  <1>2. noDataTicks \in 0 .. GraceTicks /\ silence \in 0 .. SilenceFrames
    BY SenderAssumption DEF SenderAssumption, SenderInit
  <1>3. SenderTypeOK
    BY <1>1, <1>2 DEF SenderInit, SenderTypeOK
  <1>4. NotSpeakingInSilence /\ GraceKept
    BY SenderAssumption DEF SenderAssumption, SenderInit, NotSpeakingInSilence, GraceKept
  <1> QED
    BY <1>3, <1>4 DEF SenderIInv

(* What happens around the sender, and the mixer's tick.                   *)
LEMMA OutsideStep ==
  ASSUME SenderIInv, SpeechChanges \/ VoiceChanges \/ CancelSender \/ MixTick
  PROVE  SenderIInv'
  <1> USE SenderAssumption DEF SenderAssumption, SenderIInv, SenderTypeOK, NotSpeakingInSilence, GraceKept,
        envVars, mixerVars, senderVars, speakingVars
  <1>1. CASE SpeechChanges
    BY <1>1 DEF SpeechChanges
  <1>2. CASE VoiceChanges
    BY <1>2 DEF VoiceChanges
  <1>3. CASE CancelSender
    BY <1>3 DEF CancelSender
  <1>4. CASE MixTick
    BY <1>4 DEF MixTick, MixerMayTick
  <1> QED
    BY <1>1, <1>2, <1>3, <1>4

(* Each step of toDiscordSender.                                           *)
LEMMA SenderStep ==
  ASSUME SenderIInv, Sender
  PROVE  SenderIInv'
  <1> USE SenderAssumption DEF SenderAssumption, SenderIInv, SenderTypeOK, NotSpeakingInSilence, GraceKept,
        envVars, mixerVars, senderVars, speakingVars
  <1>1. CASE TickFrame
    BY <1>1 DEF TickFrame, SenderTicks
  <1>2. CASE TickNothing
    <2>1. lead' \in -Skew .. Skew /\ UNCHANGED <<envVars, speakingVars, mixerVars, streaming>>
      BY <1>2 DEF TickNothing, SenderTicks
    <2>2. noDataTicks' \in 0 .. GraceTicks
      BY <1>2 DEF TickNothing, Grace
    <2>3. /\ sender' \in {"tick", "closing"} /\ silence' \in 0 .. SilenceFrames
          /\ sender' = "closing" => streaming
          /\ noDataTicks' = GraceTicks => sender' = "closing"
      BY <1>2 DEF TickNothing, Grace
    <2>4. closeSince' \in BOOLEAN
      BY <1>2 DEF TickNothing
    <2> QED
      BY <2>1, <2>2, <2>3, <2>4
  <1>3. CASE TickSilence
    BY <1>3 DEF TickSilence, SenderTicks
  <1>4. CASE Begin
    <2>1. told' \in BOOLEAN /\ refused' \in BOOLEAN /\ (told' => ready)
      <3>1. CASE ready /\ told' = TRUE /\ refused' = FALSE
        BY <3>1
      <3>2. CASE ready /\ refused' = TRUE /\ UNCHANGED told
        BY <3>2
      <3>3. CASE ~ready /\ UNCHANGED speakingVars
        BY <3>3
      <3> QED
        BY <1>4, <3>1, <3>2, <3>3, Zenon DEF Begin, SetSpeaking
    <2> QED
      BY <1>4, <2>1 DEF Begin
  <1>5. CASE SendFrame
    BY <1>5 DEF SendFrame
  <1>6. CASE End
    <2>1. told' \in BOOLEAN /\ refused' \in BOOLEAN /\ (told' => ready /\ refused')
      <3>1. CASE ready /\ told' = FALSE /\ refused' = FALSE
        BY <3>1
      <3>2. CASE ready /\ refused' = TRUE /\ UNCHANGED told
        BY <3>2
      <3>3. CASE ~ready /\ UNCHANGED speakingVars
        BY <3>3
      <3> QED
        BY <1>6, <3>1, <3>2, <3>3, Zenon DEF End, SetSpeaking
    <2>2. streaming' = FALSE /\ noDataTicks' = 0 /\ sender' = "tick"
      BY <1>6 DEF End
    <2>3. UNCHANGED <<envVars, lead, mixerVars, silence, closeSince>>
      BY <1>6 DEF End
    <2>4. streaming' \in BOOLEAN
      BY <2>2, Zenon
    <2>5. noDataTicks' \in 0 .. GraceTicks
      BY <2>2
    <2>6. SenderTypeOK'
      BY <2>1, <2>2, <2>3, <2>4, <2>5
    <2>7. (NotSpeakingInSilence /\ GraceKept)'
      BY <2>1, <2>2, <2>3
    <2> QED
      BY <2>6, <2>7
  <1>7. CASE SenderLeaves
    BY <1>7 DEF SenderLeaves
  <1> QED
    BY <1>1, <1>2, <1>3, <1>4, <1>5, <1>6, <1>7 DEF Sender

(* The inductive invariant: the parts above hold in every state.           *)
THEOREM SenderIInvCorrect == SenderSpec => []SenderIInv
  <1>1. SenderIInv /\ [SenderNext]_toDiscordVars => SenderIInv'
    <2> SUFFICES ASSUME SenderIInv, [SenderNext]_toDiscordVars PROVE SenderIInv'
      OBVIOUS
    <2>1. CASE SenderNext
      BY <2>1, OutsideStep, SenderStep DEF SenderNext
    <2>2. CASE UNCHANGED toDiscordVars
      BY <2>2 DEF SenderIInv, SenderTypeOK, NotSpeakingInSilence, GraceKept, toDiscordVars,
           envVars, mixerVars, senderVars, speakingVars, speakingVars
    <2> QED
      BY <2>1, <2>2
  <1> QED
    BY <1>1, SenderInitIInv, PTL DEF SenderSpec

(* What waits to be sent, in ticks of the mixer, against the mixer's lead: *)
(* while the sender takes a frame at each of its ticks, the two rise and   *)
(* fall together.  Only the silence that ends a spurt lets the lead shrink *)
(* and the backlog stay.                                                   *)
Held == IF pending THEN 1 ELSE 0

BacklogFollowsLead == ~closeSince => 2 * queue + Held <= lead + Skew + 1

(* The backlog follows the lead at each step.                              *)
LEMMA BacklogStep ==
  ASSUME SenderTypeOK, BacklogFollowsLead, [SenderNext]_toDiscordVars
  PROVE  BacklogFollowsLead'
  <1> USE SenderAssumption DEF SenderAssumption, SenderTypeOK, BacklogFollowsLead, Held,
        envVars, mixerVars, senderVars, speakingVars
  <1>1. CASE SpeechChanges
    BY <1>1 DEF SpeechChanges
  <1>2. CASE VoiceChanges
    BY <1>2 DEF VoiceChanges
  <1>3. CASE CancelSender
    BY <1>3 DEF CancelSender
  <1>4. CASE MixTick
    <2>1. closeSince' = closeSince /\ lead' = lead + 1
      BY <1>4 DEF MixTick
    <2>2. CASE pending
      <3>1. pending' = FALSE
        BY <1>4, <2>2, Zenon DEF MixTick
      <3>2. queue' = IF queue < BufferSize THEN queue + 1 ELSE queue
        BY <1>4, <2>2 DEF MixTick
      <3> QED
        BY <2>1, <2>2, <3>1, <3>2
    <2>3. CASE ~pending
      <3>1. queue' = queue /\ Held' \in {0, 1}
        BY <1>4, <2>3 DEF MixTick
      <3> QED
        BY <2>1, <2>3, <3>1
    <2> QED
      BY <2>2, <2>3
  <1>5. CASE TickFrame
    BY <1>5 DEF TickFrame, SenderTicks
  <1>6. CASE TickNothing
    BY <1>6 DEF TickNothing, SenderTicks
  <1>7. CASE TickSilence
    BY <1>7 DEF TickSilence
  <1>8. CASE Begin
    BY <1>8 DEF Begin
  <1>9. CASE SendFrame
    BY <1>9 DEF SendFrame
  <1>10. CASE End
    BY <1>10 DEF End
  <1>11. CASE SenderLeaves
    BY <1>11 DEF SenderLeaves
  <1>12. CASE UNCHANGED toDiscordVars
    BY <1>12 DEF toDiscordVars
  <1> QED
    BY <1>1, <1>2, <1>3, <1>4, <1>5, <1>6, <1>7, <1>8, <1>9, <1>10, <1>11, <1>12
       DEF SenderNext, Sender

(* A frame finds the jitter buffer full only after the silence that ended  *)
(* a spurt, if the buffer has room for the frames by which the mixer may   *)
(* lead the sender (toDiscordOpusMixer, toDiscordSender).                  *)
THEOREM BufferHoldsSkew ==
  ASSUME BufferSize >= Skew
  PROVE  SenderSpec => DropsAfterCloseOnly
  <1>1. SenderInit => BacklogFollowsLead
    BY SenderAssumption DEF SenderAssumption, SenderInit, BacklogFollowsLead, Held
  <1>2. SenderTypeOK /\ BacklogFollowsLead /\ [SenderNext]_toDiscordVars => BacklogFollowsLead'
    BY BacklogStep
  <1>3. SenderIInv /\ BacklogFollowsLead /\ SenderIInv' /\ [SenderNext]_toDiscordVars
          => [DropsFrame => closeSince]_toDiscordVars
    <2> SUFFICES ASSUME SenderTypeOK, SenderTypeOK', BacklogFollowsLead, DropsFrame
                 PROVE  closeSince
      BY DEF SenderIInv
    <2>1. 2 * BufferSize + 1 > (Skew - 1) + Skew + 1
      BY SenderAssumption DEF SenderAssumption
    <2>2. lead + 1 <= Skew /\ 2 * queue + Held = 2 * BufferSize + 1
      BY SenderAssumption DEF SenderAssumption, DropsFrame, Held, SenderTypeOK
    <2> QED
      BY <2>1, <2>2, SenderAssumption DEF SenderAssumption, SenderTypeOK, BacklogFollowsLead
  <1>4. SenderIInv => SenderTypeOK
    BY DEF SenderIInv
  <1> QED
    BY <1>1, <1>2, <1>3, <1>4, SenderIInvCorrect, PTL DEF SenderSpec, DropsAfterCloseOnly

(* A connection shows the bot speaking outside of a spurt only if the last *)
(* call to tell it failed: connections that come and go in the middle of a *)
(* spurt, or while its silence is sent, never do it (toDiscordSender,      *)
(* setSpeaking, which logs a failure and is not repeated).                 *)
THEOREM SpeaksInSpurtsOrRefused == SenderSpec => []SenderInv
  BY SenderIInvCorrect, PTL DEF SenderIInv, SenderInv

===============================================================================
