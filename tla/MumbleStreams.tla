----------------------------- MODULE MumbleStreams -----------------------------
(***************************************************************************)
(* The audio streams of one pipeline's MumbleDuplex                        *)
(* (internal/bridge/mumble_duplex.go): OnAudioStream with the goroutine it *)
(* starts for each stream, MixOneChunk, and the tear-down's CleanupStreams. *)
(*                                                                         *)
(* Two locks matter: m.mutex, held by the mixer for a whole chunk and by   *)
(* CleanupStreams throughout, and one streamMutex per stream, held by its  *)
(* reader for a whole packet.  Audio is abstracted to how many chunks of   *)
(* 10 ms each channel holds; gumble, which announces streams, fills them   *)
(* and may end them, is the environment.                                   *)
(***************************************************************************)
EXTENDS Naturals

CONSTANTS
  Stream,        (* the streams gumble may announce                           *)
  StreamCap,     (* mumbleStreamBufferSize                                    *)
  MaxDepth,      (* mumbleMaxBufferDepth                                      *)
  PacketChunks   (* bound: chunks in one packet                               *)

ASSUME StreamsAssumption ==
  /\ MaxDepth \in Nat \ {0} /\ StreamCap \in Nat /\ MaxDepth < StreamCap
  /\ PacketChunks \in Nat \ {0}

VARIABLES
  phase,       (* of the pipeline: running, cancelled, detached, cleaned      *)
  ticking,     (* toDiscordOpusMixer has not left yet                         *)
  mutex,       (* who holds m.mutex                                           *)
  streams,     (* m.streams                                                   *)
  callbacks,   (* the keys of m.streamCleanupCallbacks                        *)
  toClose,     (* CleanupStreams: the callbacks it has yet to call            *)
  reader,      (* the goroutine of each stream                                *)
  left,        (* chunks of its packet it has yet to send                     *)
  depth,       (* len of the stream's channel                                 *)
  streamClosed, doneClosed,   (* the streams whose channel, whose done, is closed *)
  toMix,       (* MixOneChunk: the streams it has yet to look at              *)
  taking       (* the chunks it has decided to take from a stream             *)

lockVars   == <<phase, ticking, mutex>>
listVars   == <<streams, callbacks, toClose>>
closeVars  == <<streamClosed, doneClosed>>
mixVars    == <<toMix, taking>>
vars == <<lockVars, listVars, reader, left, depth, closeVars, mixVars>>

TypeOK ==
  /\ phase \in {"running", "cancelled", "detached", "cleaned"} /\ ticking \in BOOLEAN
  /\ mutex \in {"free", "mixer", "cleanup"}
  /\ streams \subseteq Stream /\ callbacks \subseteq Stream /\ toClose \subseteq Stream
  /\ reader \in [Stream -> {"none", "announced", "select", "sending", "leaving", "gone"}]
  /\ left \in [Stream -> 0 .. PacketChunks]
  /\ depth \in [Stream -> 0 .. StreamCap]
  /\ streamClosed \subseteq Stream /\ doneClosed \subseteq Stream
  /\ toMix \subseteq Stream /\ taking \in [Stream -> 0 .. StreamCap]

Init ==
  /\ phase = "running" /\ ticking = TRUE /\ mutex = "free"
  /\ streams = {} /\ callbacks = {} /\ toClose = {}
  /\ reader = [s \in Stream |-> "none"] /\ left = [s \in Stream |-> 0]
  /\ depth = [s \in Stream |-> 0]
  /\ streamClosed = {} /\ doneClosed = {}
  /\ toMix = {} /\ taking = [s \in Stream |-> 0]

Goes(s, where) == reader' = [reader EXCEPT ![s] = where]

-------------------------------------------------------------------------------
(* gumble finds the listener attached; its call of OnAudioStream may come  *)
(* after the listener was detached.                                        *)
Announce(s) ==
  /\ reader[s] = "none" /\ phase \in {"running", "cancelled"}
  /\ Goes(s, "announced")
  /\ UNCHANGED <<lockVars, listVars, left, depth, closeVars, mixVars>>

OnAudioStream(s) ==
  /\ reader[s] = "announced" /\ mutex = "free"
  /\ streams' = streams \cup {s} /\ callbacks' = callbacks \cup {s}
  /\ Goes(s, "select")
  /\ UNCHANGED <<lockVars, toClose, left, depth, closeVars, mixVars>>

-------------------------------------------------------------------------------
(* The goroutine of a stream.                                              *)

(* A packet, and streamMutex with it, which only CloseStream wants too.    *)
Packet(s) ==
  /\ reader[s] = "select"
  /\ IF s \in streamClosed
     THEN Goes(s, "leaving") /\ UNCHANGED left
     ELSE /\ Goes(s, "sending")
          /\ \E n \in 1 .. PacketChunks : left' = [left EXCEPT ![s] = n]
  /\ UNCHANGED <<lockVars, listVars, depth, closeVars, mixVars>>

(* One chunk; it is dropped if the channel is full.                        *)
SendChunk(s) ==
  /\ reader[s] = "sending"
  /\ depth' = [depth EXCEPT ![s] = IF @ < StreamCap THEN @ + 1 ELSE @]
  /\ left' = [left EXCEPT ![s] = @ - 1]
  /\ Goes(s, IF left[s] = 1 THEN "select" ELSE "sending")
  /\ UNCHANGED <<lockVars, listVars, closeVars, mixVars>>

(* gumble closed the stream's channel.                                     *)
StreamEnds(s) ==
  /\ reader[s] = "select"
  /\ Goes(s, "leaving")
  /\ UNCHANGED <<lockVars, listVars, left, depth, closeVars, mixVars>>

(* Mutant of HearDone: a stream that was torn down waits for gumble.       *)
HearDoneLive(s) ==
  /\ reader[s] = "select" /\ s \in doneClosed /\ s \in streams
  /\ Goes(s, "leaving")
  /\ UNCHANGED <<lockVars, listVars, left, depth, closeVars, mixVars>>

HearDone(s) ==
  /\ reader[s] = "select" /\ s \in doneClosed
  /\ Goes(s, "leaving")
  /\ UNCHANGED <<lockVars, listVars, left, depth, closeVars, mixVars>>

(* Under both locks: the channel is closed and forgotten.                  *)
Leave(s) ==
  /\ reader[s] = "leaving" /\ mutex = "free"
  /\ streamClosed' = streamClosed \cup {s}
  /\ streams' = streams \ {s} /\ callbacks' = callbacks \ {s}
  /\ Goes(s, "gone")
  /\ UNCHANGED <<lockVars, toClose, left, depth, doneClosed, mixVars>>

-------------------------------------------------------------------------------
(* MixOneChunk, called by toDiscordOpusMixer at every tick.                *)

MixBegin ==
  /\ ticking /\ mutex = "free"
  /\ mutex' = "mixer" /\ toMix' = streams
  /\ UNCHANGED <<phase, ticking, listVars, reader, left, depth, closeVars, taking>>

(* The length is looked at, the excess and one chunk are to be taken.      *)
ToTake(n) == IF n > MaxDepth THEN n - MaxDepth + 1 ELSE IF n > 0 THEN 1 ELSE 0

MixLook(s) ==
  /\ s \in toMix /\ taking = [t \in Stream |-> 0]
  /\ taking' = [taking EXCEPT ![s] = ToTake(depth[s])]
  /\ toMix' = IF ToTake(depth[s]) = 0 THEN toMix \ {s} ELSE toMix
  /\ UNCHANGED <<lockVars, listVars, reader, left, depth, closeVars>>

(* The receives, under the mutex.                                          *)
MixTake(s) ==
  /\ taking[s] > 0 /\ depth[s] >= taking[s]
  /\ depth' = [depth EXCEPT ![s] = @ - taking[s]]
  /\ taking' = [taking EXCEPT ![s] = 0] /\ toMix' = toMix \ {s}
  /\ UNCHANGED <<lockVars, listVars, reader, left, closeVars>>

MixEnd ==
  /\ mutex = "mixer" /\ toMix = {}
  /\ mutex' = "free"
  /\ UNCHANGED <<phase, ticking, listVars, reader, left, depth, closeVars, mixVars>>

-------------------------------------------------------------------------------
(* The tear-down.  stopAudioPipeline waits for the mixer before it cleans  *)
(* up, StartBridge cleans up first and waits then: the mixer may tick on.  *)

Cancel ==
  /\ phase = "running"
  /\ phase' = "cancelled"
  /\ UNCHANGED <<ticking, mutex, listVars, reader, left, depth, closeVars, mixVars>>

MixerExits ==
  /\ phase # "running" /\ ticking /\ mutex # "mixer"
  /\ ticking' = FALSE
  /\ UNCHANGED <<phase, mutex, listVars, reader, left, depth, closeVars, mixVars>>

Detach ==
  /\ phase = "cancelled"
  /\ phase' = "detached"
  /\ UNCHANGED <<ticking, mutex, listVars, reader, left, depth, closeVars, mixVars>>

CleanupStreams ==
  /\ phase = "detached" /\ mutex = "free"
  /\ mutex' = "cleanup" /\ toClose' = callbacks
  /\ UNCHANGED <<phase, ticking, streams, callbacks, reader, left, depth, closeVars, mixVars>>

(* Mutant of CloseStream: the callback does not take streamMutex.          *)
CloseStreamUnlocked(s) ==
  /\ mutex = "cleanup" /\ s \in toClose
  /\ streamClosed' = streamClosed \cup {s} /\ doneClosed' = doneClosed \cup {s}
  /\ toClose' = toClose \ {s}
  /\ UNCHANGED <<lockVars, streams, callbacks, reader, left, depth, mixVars>>

(* One callback, under the stream's streamMutex.                           *)
CloseStream(s) ==
  /\ mutex = "cleanup" /\ s \in toClose /\ reader[s] # "sending"
  /\ streamClosed' = streamClosed \cup {s} /\ doneClosed' = doneClosed \cup {s}
  /\ toClose' = toClose \ {s}
  /\ UNCHANGED <<lockVars, streams, callbacks, reader, left, depth, mixVars>>

CleanupEnds ==
  /\ mutex = "cleanup" /\ toClose = {}
  /\ phase' = "cleaned" /\ mutex' = "free"
  /\ streams' = {} /\ callbacks' = {}
  /\ UNCHANGED <<ticking, toClose, reader, left, depth, closeVars, mixVars>>

-------------------------------------------------------------------------------

Mix == MixBegin \/ (\E s \in Stream : MixLook(s) \/ MixTake(s)) \/ MixEnd

TearDown == MixerExits \/ Detach \/ CleanupStreams \/ CleanupEnds

Next ==
  \/ Mix \/ Cancel \/ TearDown
  \/ \E s \in Stream :
       CloseStream(s) \/ Announce(s) \/ OnAudioStream(s) \/ Packet(s) \/ StreamEnds(s) \/
       SendChunk(s) \/ HearDone(s) \/ Leave(s)

(* The mixer ticks, a tear-down goes on to its end, and so do the readers; *)
(* a Go mutex starves nobody who waits for it.                             *)
Fairness ==
  /\ WF_vars(Mix) /\ SF_vars(TearDown)
  /\ \A s \in Stream :
       /\ WF_vars(SendChunk(s)) /\ SF_vars(CloseStream(s))
       /\ SF_vars(HearDone(s)) /\ SF_vars(Leave(s))

Spec == Init /\ [][Next]_vars
FairSpec == Spec /\ Fairness

-------------------------------------------------------------------------------
(* Properties.                                                             *)

(* No chunk is sent on a closed channel, which would panic: streamMutex is *)
(* held from the look at streamClosed to the packet's last chunk.          *)
NoSendOnClosed == \A s \in Stream : reader[s] = "sending" => s \notin streamClosed

(* What MixOneChunk decided to take is there: its blocking receives, under *)
(* m.mutex, neither wait nor find a closed and empty channel, which would  *)
(* yield nil, although readers come and go between the look and the take.  *)
ReceivesFindAudio == \A s \in Stream : taking[s] <= depth[s]

(* The list and the callbacks agree, and each listed stream has a          *)
(* goroutine that will remove it.                                          *)
StreamsTended ==
  /\ streams = callbacks
  /\ \A s \in streams : reader[s] \in {"select", "sending", "leaving"}

StreamsInv == TypeOK /\ NoSendOnClosed /\ ReceivesFindAudio /\ StreamsTended

(* The goroutines of the streams that the tear-down found leave, although  *)
(* gumble says nothing of the streams' end.                                *)
ReadersLeave ==
  \A s \in Stream : (s \in toClose) ~> (reader[s] = "gone")

===============================================================================
