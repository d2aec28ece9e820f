----------------------------- MODULE DiscordReceive -----------------------------
(***************************************************************************)
(* Discord's audio on its way to Mumble (internal/bridge/discord_duplex.go: *)
(* processReceivedPacket, fromDiscordMixer and cleanupStaleStreams, over   *)
(* fromDiscordMap).  Each speaker (an SSRC) has an entry with a channel of *)
(* chunks of 10 ms; the mixer starts to play one when enough chunks wait   *)
(* and stops when none is left.                                            *)
(*                                                                         *)
(* discordMutex guards the map, but a packet is decoded without it, between *)
(* two critical sections.  Chunks are counted; decoders, whose state only  *)
(* the sound depends on, and the sound are left out.  toMumbleSender, at   *)
(* the far end of toMumble, is in MumbleForwarder.                         *)
(***************************************************************************)
EXTENDS Integers

CONSTANTS
  Ssrc,           (* the speakers                                             *)
  SeqNumbers,     (* sequence numbers are below it; 65536 in the code         *)
  MaxPLC,         (* maxPLCPackets                                            *)
  PcmCap,         (* chunks a channel holds; 100 in the code                  *)
  StartCount,     (* MumbleStartStreamCount                                   *)
  SilenceFrames,  (* silenceFrameCount                                        *)
  StaleTicks      (* ticks of the cleanup in staleThreshold                   *)

ASSUME ReceiveAssumption ==
  /\ MaxPLC \in Nat \ {0} /\ SeqNumbers \in Nat /\ SeqNumbers > MaxPLC + 2
  /\ PcmCap \in Nat \ {0} /\ StartCount \in 0 .. PcmCap - 1
  /\ SilenceFrames \in Nat \ {0} /\ StaleTicks \in Nat \ {0, 1}

VARIABLES
  talking,            (* packets arrive                                       *)
  fromDiscordMap,     (* the SSRCs with an entry                              *)
  pcm,                (* chunks in each entry's channel                       *)
  receiving, streaming,   (* the entries with that flag                       *)
  lastSequence,
  age,                (* cleanup ticks since lastActivity                     *)
  decoding,           (* the SSRC whose packet is being decoded (or none)     *)
  lapse,              (* cleanup ticks since that decoding began              *)
  toMumbleStreaming,  (* of fromDiscordMixer                                  *)
  silence             (* frames of silence it has yet to send                 *)

entryVars == <<fromDiscordMap, pcm, receiving, streaming, lastSequence, age>>
vars == <<talking, entryVars, decoding, lapse, toMumbleStreaming, silence>>

TypeOK ==
  /\ talking \in BOOLEAN
  /\ fromDiscordMap \subseteq Ssrc /\ pcm \in [Ssrc -> 0 .. PcmCap]
  /\ receiving \subseteq fromDiscordMap /\ streaming \subseteq fromDiscordMap
  /\ lastSequence \in [Ssrc -> 0 .. SeqNumbers - 1] /\ age \in [Ssrc -> 0 .. StaleTicks]
  /\ decoding \subseteq Ssrc /\ lapse \in 0 .. 1
  /\ toMumbleStreaming \in BOOLEAN /\ silence \in 0 .. SilenceFrames

Init ==
  /\ talking \in BOOLEAN
  /\ fromDiscordMap = {} /\ pcm = [s \in Ssrc |-> 0] /\ receiving = {} /\ streaming = {}
  /\ lastSequence = [s \in Ssrc |-> 0] /\ age = [s \in Ssrc |-> 0]
  /\ decoding = {} /\ lapse = 0
  /\ toMumbleStreaming = FALSE /\ silence = 0

TalkChanges ==
  /\ talking' = ~talking
  /\ UNCHANGED <<entryVars, decoding, lapse, toMumbleStreaming, silence>>

-------------------------------------------------------------------------------
(* discordReceivePCM and processReceivedPacket.                            *)

(* Mutant of SequenceGap: the wrap is overlooked.                          *)
SequenceGapUnwrapped(current, last) == current - last - 1

(* The packets lost between two sequence numbers.                          *)
SequenceGap(current, last) ==
  (IF current < last THEN current - last + SeqNumbers ELSE current - last) - 1

(* A send that finds the channel full drops the chunk.                     *)
Filled(n, chunks) == IF n + chunks > PcmCap THEN PcmCap ELSE n + chunks

Concealed(gap) == IF gap \in 1 .. MaxPLC THEN gap ELSE 0

(* The first section, for a packet that is ahead of the last by step, which *)
(* is 0 for a duplicate and less for a packet that was overtaken: lost     *)
(* packets are concealed, until the decoder fails.                         *)
Accept(s, step) ==
  LET sequence == (lastSequence[s] + step) % SeqNumbers
      lost     == IF s \in receiving THEN SequenceGap(sequence, lastSequence[s]) ELSE 0
  IN  /\ \E frames \in 0 .. Concealed(lost) : pcm' = [pcm EXCEPT ![s] = Filled(@, 2 * frames)]
      /\ lastSequence' = [lastSequence EXCEPT ![s] = sequence]
      /\ receiving' = receiving \cup {s}

(* An entry is made if there is none, and lastActivity is now.             *)
Refresh(s) ==
  /\ fromDiscordMap' = fromDiscordMap \cup {s}
  /\ age' = [age EXCEPT ![s] = 0]

Packet(s, step) ==
  /\ talking /\ decoding = {}
  /\ Refresh(s) /\ Accept(s, step)
  /\ decoding' = {s} /\ lapse' = 0
  /\ UNCHANGED <<talking, streaming, toMumbleStreaming, silence>>

(* A packet whose timestamp stands still, with any other sequence number,  *)
(* is no audio.                                                            *)
FrozenPacket(s) ==
  /\ talking /\ decoding = {} /\ s \in receiving
  /\ Refresh(s)
  /\ \E sequence \in 0 .. SeqNumbers - 1 :
       sequence # lastSequence[s] /\ lastSequence' = [lastSequence EXCEPT ![s] = sequence]
  /\ UNCHANGED <<talking, pcm, receiving, streaming, decoding, lapse, toMumbleStreaming,
                 silence>>

(* The second section: the two chunks of the packet, if its entry is still *)
(* there (the channel of an entry that is not is nil, and never ready).    *)
Push(s) ==
  /\ decoding = {s}
  /\ pcm' = IF s \in fromDiscordMap THEN [pcm EXCEPT ![s] = Filled(@, 2)] ELSE pcm
  /\ decoding' = {} /\ lapse' = 0
  /\ UNCHANGED <<talking, fromDiscordMap, receiving, streaming, lastSequence, age,
                 toMumbleStreaming, silence>>

(* Or the packet cannot be decoded.                                        *)
DecodeFails(s) ==
  /\ decoding = {s}
  /\ receiving' = receiving \ {s}
  /\ decoding' = {} /\ lapse' = 0
  /\ UNCHANGED <<talking, fromDiscordMap, pcm, streaming, lastSequence, age,
                 toMumbleStreaming, silence>>

-------------------------------------------------------------------------------
(* fromDiscordMixer.  What it sends to toMumble arrives or times out.      *)

Playing == {s \in fromDiscordMap :
              IF s \in streaming THEN pcm[s] > 0 ELSE pcm[s] > StartCount}

(* A tick, in one critical section, and the send that follows.             *)
MixTick ==
  /\ silence = 0
  /\ pcm' = [s \in Ssrc |-> IF s \in Playing THEN pcm[s] - 1 ELSE pcm[s]]
  /\ streaming' = Playing
  /\ receiving' = receiving \ (streaming \ Playing)
  /\ toMumbleStreaming' = (toMumbleStreaming \/ Playing # {})
  /\ silence' = IF toMumbleStreaming /\ Playing = {} THEN SilenceFrames ELSE 0
  /\ UNCHANGED <<talking, fromDiscordMap, lastSequence, age, decoding, lapse>>

(* The frames of silence at the end, a tick apart.                         *)
SilenceTick ==
  /\ silence > 0
  /\ silence' = silence - 1
  /\ toMumbleStreaming' = (toMumbleStreaming /\ silence > 1)
  /\ UNCHANGED <<talking, entryVars, decoding, lapse>>

-------------------------------------------------------------------------------
(* cleanupStaleStreams.  Time is its ticks; bound: a packet is decoded     *)
(* within two of them.                                                     *)

(* Mutant of Stale: a speaker whose last words wait is still heard.        *)
StaleIdle == {s \in fromDiscordMap \ (streaming \cup receiving) : age[s] = StaleTicks}

Stale == {s \in fromDiscordMap \ streaming : age[s] = StaleTicks}

CleanupTick ==
  /\ decoding # {} => lapse < 1
  /\ lapse' = IF decoding # {} THEN lapse + 1 ELSE 0
  /\ fromDiscordMap' = fromDiscordMap \ Stale
  /\ receiving' = receiving \ Stale
  /\ pcm' = [s \in Ssrc |-> IF s \in Stale THEN 0 ELSE pcm[s]]
  /\ lastSequence' = [s \in Ssrc |-> IF s \in Stale THEN 0 ELSE lastSequence[s]]
  /\ age' = [s \in Ssrc |->
       IF s \notin fromDiscordMap \ Stale THEN 0
       ELSE IF age[s] < StaleTicks THEN age[s] + 1 ELSE age[s]]
  /\ UNCHANGED <<talking, streaming, decoding, toMumbleStreaming, silence>>

-------------------------------------------------------------------------------

Mixer == MixTick \/ SilenceTick

Next ==
  \/ TalkChanges \/ Mixer \/ CleanupTick
  \/ \E s \in Ssrc :
       \/ FrozenPacket(s) \/ Push(s) \/ DecodeFails(s)
       \/ \E step \in -1 .. MaxPLC + 2 : Packet(s, step)

(* Both tickers go on, and a decoder returns.                              *)
Fairness ==
  /\ WF_vars(Mixer) /\ WF_vars(CleanupTick)
  /\ \A s \in Ssrc : WF_vars(Push(s) \/ DecodeFails(s))

Spec == Init /\ [][Next]_vars
FairSpec == Spec /\ Fairness

-------------------------------------------------------------------------------
(* Properties.                                                             *)

(* For packets that arrive in their order the gap is what was lost, across *)
(* the wrap too, as far as losses are concealed.                           *)
GapIsLoss ==
  \A s \in receiving : \A step \in 1 .. MaxPLC + 1 :
    SequenceGap((lastSequence[s] + step) % SeqNumbers, lastSequence[s]) = step - 1

(* A packet's entry is there when it has been decoded, although the cleanup *)
(* does not know of the decoding.                                          *)
PacketFindsEntry == decoding \subseteq fromDiscordMap

(* Nothing plays outside a spurt that Mumble will be told the end of.      *)
PlayingIsSpurt == streaming # {} => toMumbleStreaming

ReceiveInv == TypeOK /\ GapIsLoss /\ PacketFindsEntry /\ PlayingIsSpurt

(* When Discord falls silent, everything ends: what waited is played or    *)
(* thrown away, the entries are removed, and the spurt is closed.          *)
QuietEnds == <>[](~talking) => <>[](fromDiscordMap = {} /\ ~toMumbleStreaming)

===============================================================================
