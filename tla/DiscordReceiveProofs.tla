--------------------------- MODULE DiscordReceiveProofs ---------------------------
(***************************************************************************)
(* The safety of DiscordReceive, for any number of speakers, every range   *)
(* of sequence numbers and every size of a channel.                        *)
(***************************************************************************)
EXTENDS DiscordReceive, TLAPS

(* The packet that is being decoded refreshed its entry.                   *)
DecodingIsFresh ==
  /\ \A s, t \in decoding : s = t
  /\ \A s \in decoding : age[s] <= lapse

(* The silence that ends a spurt is sent when nothing plays.               *)
SilenceIsQuiet == silence > 0 => streaming = {}

IInv == TypeOK /\ PacketFindsEntry /\ PlayingIsSpurt /\ DecodingIsFresh /\ SilenceIsQuiet

(* Sequence numbers wrap once at most between two packets.                 *)
LEMMA Wrap ==
  ASSUME NEW n \in Nat, NEW x \in Int, -n <= x, x < 2 * n
  PROVE  x % n = IF x < 0 THEN x + n ELSE IF x < n THEN x ELSE x - n
  OBVIOUS

(* The gap of packets in order is what was lost between them: arithmetic   *)
(* of the sequence numbers, whatever they are.                             *)
THEOREM GapIsLossAlways == TypeOK => GapIsLoss
  <1> SUFFICES ASSUME TypeOK, NEW s \in receiving, NEW step \in 1 .. MaxPLC + 1
               PROVE  SequenceGap((lastSequence[s] + step) % SeqNumbers, lastSequence[s]) = step - 1
    BY DEF GapIsLoss
  <1> DEFINE last == lastSequence[s]
             next == (last + step) % SeqNumbers
  <1>1. last \in 0 .. SeqNumbers - 1 /\ step \in 1 .. SeqNumbers - 1 /\ SeqNumbers \in Nat
    BY ReceiveAssumption DEF ReceiveAssumption, TypeOK
  <1> HIDE DEF last
  <1>2. next = IF last + step < SeqNumbers THEN last + step ELSE last + step - SeqNumbers
    <2> DEFINE x == last + step
    <2>1. x \in Int /\ -SeqNumbers <= x /\ ~(x < 0) /\ x < 2 * SeqNumbers
      BY <1>1
    <2>2. x % SeqNumbers = IF x < 0 THEN x + SeqNumbers
                           ELSE IF x < SeqNumbers THEN x ELSE x - SeqNumbers
      <3> HIDE DEF x
      <3> QED
        BY <1>1, <2>1, Wrap
    <2> QED
      BY <1>1, <2>1, <2>2
  <1> HIDE DEF next
  <1>3. SequenceGap(next, last) = step - 1
    BY <1>1, <1>2 DEF SequenceGap
  <1> QED
    BY <1>3 DEF last, next

(* The invariant holds at first.                                           *)
LEMMA InitIInv == Init => IInv
  <1> SUFFICES ASSUME Init PROVE IInv
    OBVIOUS
  <1>1. SeqNumbers \in Nat /\ SeqNumbers > 0 /\ PcmCap \in Nat /\ SilenceFrames \in Nat
        /\ StaleTicks \in Nat
    BY ReceiveAssumption DEF ReceiveAssumption
  <1>2. TypeOK
    <2>1. pcm \in [Ssrc -> 0 .. PcmCap] /\ age \in [Ssrc -> 0 .. StaleTicks]
      BY <1>1 DEF Init
    <2>2. lastSequence \in [Ssrc -> 0 .. SeqNumbers - 1]
      BY <1>1 DEF Init
    <2>3. lapse \in 0 .. 1 /\ silence \in 0 .. SilenceFrames
      BY <1>1 DEF Init
    <2> QED
      BY <2>1, <2>2, <2>3, Zenon DEF Init, TypeOK
  <1>3. PacketFindsEntry /\ PlayingIsSpurt /\ DecodingIsFresh /\ SilenceIsQuiet
    BY DEF Init, PacketFindsEntry, PlayingIsSpurt, DecodingIsFresh, SilenceIsQuiet
  <1> QED
    BY <1>2, <1>3 DEF IInv

(* The chunks that a channel holds after a send.                           *)
LEMMA FilledFits ==
  ASSUME NEW n \in 0 .. PcmCap, NEW chunks \in Nat
  PROVE  Filled(n, chunks) \in 0 .. PcmCap
  BY ReceiveAssumption DEF ReceiveAssumption, Filled

(* The first critical section: the entry, and what a packet does to it.    *)
LEMMA PacketStep ==
  ASSUME IInv, NEW s \in Ssrc, NEW step \in -1 .. MaxPLC + 2, Packet(s, step)
  PROVE  IInv'
  <1> USE ReceiveAssumption DEF ReceiveAssumption, IInv, TypeOK
  <1> DEFINE sequence == (lastSequence[s] + step) % SeqNumbers
  <1>1. sequence \in 0 .. SeqNumbers - 1
    <2>1. lastSequence[s] + step \in Int /\ SeqNumbers \in Nat \ {0}
      OBVIOUS
    <2>2. \A x \in Int, n \in Nat \ {0} : x % n \in 0 .. n - 1
      OBVIOUS
    <2> QED
      BY <2>1, <2>2
  <1> HIDE DEF sequence
  <1>2. pcm' \in [Ssrc -> 0 .. PcmCap]
    <2> DEFINE lost == IF s \in receiving THEN SequenceGap(sequence, lastSequence[s]) ELSE 0
    <2>1. Concealed(lost) \in Nat
      BY DEF Concealed
    <2> HIDE DEF lost
    <2>2. PICK frames \in 0 .. Concealed(lost) : pcm' = [pcm EXCEPT ![s] = Filled(@, 2 * frames)]
      BY DEF Packet, Accept, lost, sequence
    <2>3. pcm[s] \in 0 .. PcmCap /\ 2 * frames \in Nat
      BY <2>1
    <2>4. Filled(pcm[s], 2 * frames) \in 0 .. PcmCap
      BY <2>3, FilledFits
    <2> QED
      BY <2>2, <2>4
  <1>3. lastSequence' = [lastSequence EXCEPT ![s] = sequence] /\ receiving' = receiving \cup {s}
    BY DEF Packet, Accept, sequence
  <1>4. TypeOK'
    BY <1>1, <1>2, <1>3 DEF Packet, Refresh
  <1>5. (PacketFindsEntry /\ PlayingIsSpurt /\ DecodingIsFresh /\ SilenceIsQuiet)'
    BY DEF Packet, Refresh, PacketFindsEntry, PlayingIsSpurt, DecodingIsFresh, SilenceIsQuiet
  <1> QED
    BY <1>4, <1>5

(* A packet that is no audio, and the second critical section.             *)
LEMMA ReceiverStep ==
  ASSUME IInv, NEW s \in Ssrc, FrozenPacket(s) \/ Push(s) \/ DecodeFails(s)
  PROVE  IInv'
  <1> USE ReceiveAssumption DEF ReceiveAssumption, IInv, TypeOK, PacketFindsEntry,
        PlayingIsSpurt, DecodingIsFresh, SilenceIsQuiet
  <1>1. CASE FrozenPacket(s)
    <2>1. PICK sequence \in 0 .. SeqNumbers - 1 :
            lastSequence' = [lastSequence EXCEPT ![s] = sequence]
      BY <1>1 DEF FrozenPacket
    <2> QED
      BY <1>1, <2>1 DEF FrozenPacket, Refresh
  <1>2. CASE Push(s)
    <2>1. Filled(pcm[s], 2) \in 0 .. PcmCap
      BY FilledFits
    <2> QED
      BY <1>2, <2>1 DEF Push
  <1>3. CASE DecodeFails(s)
    BY <1>3 DEF DecodeFails, entryVars
  <1> QED
    BY <1>1, <1>2, <1>3

(* The mixer and the cleanup, which know of no decoding.                   *)
LEMMA TickerStep ==
  ASSUME IInv, TalkChanges \/ Mixer \/ CleanupTick
  PROVE  IInv'
  <1> USE ReceiveAssumption DEF ReceiveAssumption, IInv, TypeOK, PacketFindsEntry,
        PlayingIsSpurt, DecodingIsFresh, SilenceIsQuiet
  <1>1. CASE TalkChanges
    BY <1>1 DEF TalkChanges, entryVars
  <1>2. CASE MixTick
    <2>1. Playing \subseteq fromDiscordMap /\ \A s \in Playing : pcm[s] > 0
      BY DEF Playing
    <2> HIDE DEF Playing
    <2>2. toMumbleStreaming' \in BOOLEAN /\ (Playing # {} => toMumbleStreaming')
      BY <1>2, Zenon DEF MixTick
    <2> QED
      BY <1>2, <2>1, <2>2 DEF MixTick
  <1>3. CASE SilenceTick
    <2>1. streaming' = {} /\ UNCHANGED <<talking, entryVars, decoding, lapse>>
      BY <1>3 DEF SilenceTick, entryVars
    <2>2. toMumbleStreaming' \in BOOLEAN /\ silence' \in 0 .. SilenceFrames
      BY <1>3 DEF SilenceTick
    <2> QED
      BY <2>1, <2>2 DEF entryVars
  <1>4. CASE CleanupTick
    <2>1. \A s \in decoding : s \notin Stale
      BY <1>4 DEF Stale, CleanupTick
    <2>2. Stale \subseteq fromDiscordMap \ streaming
      BY DEF Stale
    <2> HIDE DEF Stale
    <2>3. PacketFindsEntry' /\ PlayingIsSpurt' /\ SilenceIsQuiet'
      BY <1>4, <2>1 DEF CleanupTick
    <2>4. TypeOK'
      BY <1>4, <2>2 DEF CleanupTick
    <2>5. DecodingIsFresh'
      BY <1>4, <2>1 DEF CleanupTick
    <2> QED
      BY <2>3, <2>4, <2>5
  <1> QED
    BY <1>1, <1>2, <1>3, <1>4 DEF Mixer

(* The inductive invariant: the parts above hold in every state.           *)
THEOREM IInvCorrect == Spec => []IInv
  <1>1. IInv /\ [Next]_vars => IInv'
    <2> SUFFICES ASSUME IInv, [Next]_vars PROVE IInv'
      OBVIOUS
    <2>1. CASE Next
      BY <2>1, PacketStep, ReceiverStep, TickerStep DEF Next
    <2>2. CASE UNCHANGED vars
      BY <2>2 DEF IInv, TypeOK, PacketFindsEntry, PlayingIsSpurt, DecodingIsFresh,
           SilenceIsQuiet, vars, entryVars
    <2> QED
      BY <2>1, <2>2
  <1> QED
    BY <1>1, InitIInv, PTL DEF Spec

(* The cleanup never removes the entry of a packet that is being decoded   *)
(* without discordMutex, gaps are computed right across the wrap, and      *)
(* nothing plays outside a spurt whose end Mumble will be told.            *)
THEOREM ReceiveSafe == Spec => []ReceiveInv
  <1>1. IInv => ReceiveInv
    BY GapIsLossAlways DEF IInv, ReceiveInv
  <1> QED
    BY <1>1, IInvCorrect, PTL

===============================================================================
