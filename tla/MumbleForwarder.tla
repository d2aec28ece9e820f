---------------------------- MODULE MumbleForwarder ----------------------------
(***************************************************************************)
(* toMumbleSender (internal/bridge/mumble_duplex.go), the goroutine that   *)
(* passes Discord's audio to Mumble, over the connection manager that      *)
(* replaces the client, and with it the audio channel, under its feet.     *)
(*                                                                         *)
(* disconnectInternal forgets a channel and does not close it, since the   *)
(* forwarder may be sending on it: the forwarder closes it when it finds   *)
(* another in its place.  There is one forwarder at a time; the next       *)
(* pipeline's begins without a channel.                                    *)
(***************************************************************************)
EXTENDS MumbleConnection

VARIABLES
  mumbleOutgoing,   (* the channel the forwarder holds, or "nil"              *)
  sending,          (* it is in its send (or in the 20 ms it waits for one)   *)
  closed            (* the channels that are closed                           *)

forwarderVars == <<mumbleOutgoing, sending, closed>>
allVars == <<vars, forwarderVars>>

ForwarderTypeOK ==
  /\ TypeOK
  /\ mumbleOutgoing \in Channel \cup {"nil"}
  /\ sending \in BOOLEAN /\ closed \subseteq Channel

ForwarderInit ==
  /\ Init
  /\ mumbleOutgoing = "nil" /\ sending = FALSE /\ closed = {}

-------------------------------------------------------------------------------
(* Mutant of Forward: a channel is looked for when there is none only.     *)
ForwardCached ==
  /\ ~sending
  /\ mumbleOutgoing' = IF mumbleOutgoing = "nil" THEN audioOutgoing ELSE mumbleOutgoing
  /\ sending' = (mumbleOutgoing' # "nil")
  /\ UNCHANGED <<vars, closed>>

(* A packet arrives: a channel that is not the client's any more is closed. *)
Forward ==
  /\ ~sending
  /\ closed' = IF audioOutgoing # mumbleOutgoing
               THEN closed \cup ({mumbleOutgoing} \ {"nil"}) ELSE closed
  /\ mumbleOutgoing' = audioOutgoing
  /\ sending' = (audioOutgoing # "nil")
  /\ UNCHANGED vars

(* It is sent, or dropped after 20 ms.                                     *)
Sent ==
  /\ sending
  /\ sending' = FALSE
  /\ UNCHANGED <<vars, mumbleOutgoing, closed>>

(* The pipeline ends and another begins: what was held is not closed.      *)
NextPipeline ==
  /\ ~sending
  /\ mumbleOutgoing' = "nil"
  /\ UNCHANGED <<vars, sending, closed>>

(* gumble's AudioOutgoing makes a channel: an identity nobody uses.        *)
Connected ==
  LET c == CHOOSE c \in Channel : c # mumbleOutgoing
  IN  /\ Dial(c)
      /\ closed' = closed \ {c}
      /\ UNCHANGED <<mumbleOutgoing, sending>>

(* Mutant of ManagerStep: the manager closes the channel it forgets.       *)
ManagerStepCloses ==
  /\ Step
  /\ closed' = IF audioOutgoing' # audioOutgoing THEN closed \cup {audioOutgoing} ELSE closed
  /\ UNCHANGED <<mumbleOutgoing, sending>>

ManagerStep == Step /\ UNCHANGED forwarderVars

-------------------------------------------------------------------------------

ForwarderNext == ~panic /\ (ManagerStep \/ Connected \/ Forward \/ Sent \/ NextPipeline)

(* The loop, gumble's goroutines and a send go on.  (Packets may not come.) *)
ForwarderFairness ==
  /\ WF_allVars(~panic /\ ((Loop /\ UNCHANGED forwarderVars) \/ Connected))
  /\ \A t \in EventType : WF_allVars(~panic /\ OnDisconnect(t) /\ UNCHANGED forwarderVars)
  /\ WF_allVars(~panic /\ Sent)

ForwarderSpec == ForwarderInit /\ [][ForwarderNext]_allVars
FairForwarderSpec == ForwarderSpec /\ ForwarderFairness

-------------------------------------------------------------------------------
(* Properties.                                                             *)

(* The forwarder never sends on a closed channel, which would panic, and   *)
(* never closes one twice, and the client's channel is open.               *)
ChannelsIntact ==
  /\ mumbleOutgoing \notin closed
  /\ audioOutgoing \notin closed

(* The parts of the invariant.                                             *)
LoopInv == ForwarderTypeOK /\ NoSilentLoss /\ NoClientLeft

(* A reconnection that the forwarder slept through is noticed: while the   *)
(* client stays and packets arrive, they go to its channel.                *)
AudioReachesClient ==
  WF_allVars(~panic /\ Forward) =>
    ([]<>(mumbleOutgoing = audioOutgoing) \/ []<>(client # "live") \/ <>panic)

===============================================================================
