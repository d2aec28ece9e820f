---------------------------- MODULE BridgeInstance ----------------------------
(***************************************************************************)
(* A bridge instance (pkg/bridgelib/bridge.go: Start, Stop) and the        *)
(* goroutine that drives its sessions in each mode: the loop of constant   *)
(* mode, the single start of manual mode, AutoBridge's ticker.             *)
(*                                                                         *)
(* Start and Stop hold the instance's mutex throughout, so one of them     *)
(* runs at a time.  Stop cancels the instance's context (there is one, for *)
(* the instance's whole life), shakes hands with AutoBridge, and, if the   *)
(* bridge reads as active, sends to BridgeDie without blocking and waits   *)
(* for WaitExit.                                                           *)
(***************************************************************************)
EXTENDS BridgeSession, Integers

CONSTANTS
  Modes,       (* the modes an instance may be made in                        *)
  Loop,        (* the caller that is the loop (constant), the start (manual)  *)
  MaxStarts,   (* bound: calls of Start                                       *)
  MaxStops,    (* bound: calls of Stop                                        *)
  Commands,    (* the modes in which the chat commands are used               *)
  MaxUsers,    (* bound: users on the Mumble server, the bot apart            *)
  MumbleBotFlag (* TRUE: the server leaves bots out of what it counts         *)

ASSUME InstanceAssumption ==
  /\ Modes \subseteq {"constant", "manual", "auto"}
  /\ AutoMode = ("auto" \in Modes) /\ Loop \in Caller
  /\ MaxStarts \in Nat /\ MaxStops \in Nat /\ Commands \subseteq Modes
  /\ MaxUsers \in Nat /\ MumbleBotFlag \in BOOLEAN

VARIABLES
  Mode,            (* chosen when the instance is made, and fixed            *)
  starts, stops,   (* calls of Start and Stop so far                          *)
  stopped,         (* the instance's flag                                     *)
  ctxDone,         (* the instance's context is cancelled                     *)
  loop,            (* the mode's goroutine                                    *)
  stop,            (* where the call of Stop is                               *)
  (* auto mode *)
  mumbleUsers,     (* users on the Mumble server                              *)
  bot,             (* the bridge's own client is there as well                *)
  discordSeen,     (* a tick finds users in DiscordUsers (after its refresh)  *)
  pinging,         (* MumblePingLoop runs                                     *)
  MumbleUserCount  (* what AutoBridge reads                                   *)

hostVars     == <<Mode, starts, stops, stopped, ctxDone>>
autoVars     == <<mumbleUsers, bot, discordSeen, pinging, MumbleUserCount>>
instanceVars == <<hostVars, loop, stop, autoVars>>
allVars == <<vars, instanceVars>>

InstanceTypeOK ==
  /\ TypeOK /\ Mode \in Modes
  /\ starts \in 0 .. MaxStarts /\ stops \in 0 .. MaxStops
  /\ stopped \in BOOLEAN /\ ctxDone \in BOOLEAN
  /\ loop \in {"off", "check", "calling", "inside", "pause", "ticking"}
  /\ stop \in {"idle", "handshake", "read", "signal", "wait", "waiting"}
  /\ mumbleUsers \in 0 .. MaxUsers
  /\ bot \in BOOLEAN /\ discordSeen \in BOOLEAN /\ pinging \in BOOLEAN
  /\ MumbleUserCount \in -1 .. MaxUsers + 1

InstanceInit ==
  /\ Init /\ Mode \in Modes
  /\ starts = 0 /\ stops = 0
  /\ stopped = FALSE /\ ctxDone = FALSE
  /\ loop = "off" /\ stop = "idle"
  /\ mumbleUsers = 0 /\ bot = FALSE /\ discordSeen = FALSE
  /\ pinging = FALSE /\ MumbleUserCount = 0

-------------------------------------------------------------------------------
(* Start.  (Bound: called again only after the mode's goroutine ended.)    *)
(* A MumblePingLoop that finds the context cancelled, as every one after   *)
(* the first Stop does, returns from its first select; the first one may   *)
(* not have found it yet.                                                  *)
Start ==
  /\ stop = "idle" /\ loop = "off" /\ starts < MaxStarts
  /\ starts > 0 => stopped
  /\ starts' = starts + 1
  /\ stopped' = FALSE
  /\ loop' = CASE Mode = "constant" -> "check"
               [] Mode = "manual" -> "calling"
               [] Mode = "auto" -> "ticking"
  /\ pinging' = (pinging \/ (Mode = "auto" /\ ~ctxDone))
  /\ UNCHANGED <<vars, Mode, stops, ctxDone, stop, mumbleUsers, bot, discordSeen,
                 MumbleUserCount>>

-------------------------------------------------------------------------------
(* The loop of constant mode, and the one start of manual mode.            *)

(* The context is looked at before each session.  (StopDiscordVoice, which *)
(* comes next, finds the last session's manager stopped: only the loop     *)
(* starts sessions.)                                                       *)
LoopCheck ==
  /\ loop = "check"
  /\ loop' = IF ctxDone THEN "off" ELSE "calling"
  /\ UNCHANGED <<vars, hostVars, stop, autoVars>>

LoopCall ==
  /\ loop = "calling"
  /\ Call(Loop)
  /\ loop' = "inside"
  /\ UNCHANGED <<hostVars, stop, autoVars>>

(* Mutant of LoopReturned: the loop does not come round again.             *)
LoopLeaves ==
  /\ loop = "inside" /\ pc[Loop] = "idle"
  /\ loop' = "off"
  /\ UNCHANGED <<vars, hostVars, stop, autoVars>>

LoopReturned ==
  /\ loop = "inside" /\ pc[Loop] = "idle"
  /\ loop' = IF Mode = "constant" THEN "pause" ELSE "off"
  /\ UNCHANGED <<vars, hostVars, stop, autoVars>>

(* Five seconds, or the context.                                           *)
LoopPause ==
  /\ loop = "pause"
  /\ loop' = IF ctxDone THEN "off" ELSE "check"
  /\ UNCHANGED <<vars, hostVars, stop, autoVars>>

-------------------------------------------------------------------------------
(* Auto mode: who is there, MumblePingLoop, which counts the users of the  *)
(* Mumble server, and AutoBridge, which counts on it.                      *)

UsersChange ==
  /\ Mode = "auto"
  /\ mumbleUsers' \in 0 .. MaxUsers /\ discordSeen' \in BOOLEAN
  /\ UNCHANGED <<vars, hostVars, loop, stop, bot, pinging, MumbleUserCount>>

(* The Mumble manager of a session connects, and is gone some time after   *)
(* the session (or before, when the connection is lost).                   *)
BotJoins ==
  /\ Mode = "auto"
  /\ \E c \in Caller : pc[c] \in {"started", "working", "listening", "told", "inactive"}
  /\ bot' = TRUE
  /\ UNCHANGED <<vars, hostVars, loop, stop, mumbleUsers, discordSeen, pinging,
                 MumbleUserCount>>

BotLeaves ==
  /\ bot
  /\ bot' = FALSE
  /\ UNCHANGED <<vars, hostVars, loop, stop, mumbleUsers, discordSeen, pinging,
                 MumbleUserCount>>

(* resp.ConnectedUsers                                                     *)
ConnectedUsers == mumbleUsers + IF bot /\ ~MumbleBotFlag THEN 1 ELSE 0

(* Mutant of PingAnswered: the bot is not subtracted.                      *)
PingAnsweredAll ==
  /\ pinging
  /\ MumbleUserCount' = ConnectedUsers
  /\ UNCHANGED <<vars, hostVars, loop, stop, mumbleUsers, bot, discordSeen, pinging>>

(* A ping that is answered; one that fails changes nothing.  The count is  *)
(* stored, less the bot, which is taken to be in it whenever the bridge is *)
(* active.  (One step: users and bot come and go at any time, so that what *)
(* changes between the answer and its use may as well change afterwards.   *)
(* The select of a loop whose context is cancelled may take the tick.)     *)
PingAnswered ==
  /\ pinging
  /\ MumbleUserCount' = IF BridgeActive /\ ~MumbleBotFlag
                        THEN ConnectedUsers - 1 ELSE ConnectedUsers
  /\ UNCHANGED <<vars, hostVars, loop, stop, mumbleUsers, bot, discordSeen, pinging>>

(* The loop ends with the context, and nobody counts any more.             *)
PingLoopEnds ==
  /\ pinging /\ ctxDone
  /\ pinging' = FALSE
  /\ UNCHANGED <<vars, hostVars, loop, stop, mumbleUsers, bot, discordSeen,
                 MumbleUserCount>>

(* Mutant of TickStart: the tick starts the first session only.            *)
TickStartFirst(c) ==
  /\ loop = "ticking" /\ BridgeDie = "nil" /\ MumbleUserCount > 0 /\ discordSeen
  /\ Call(c)
  /\ UNCHANGED instanceVars

(* A tick reads the users and BridgeActive under the locks.                *)
TickStart(c) ==
  /\ loop = "ticking" /\ ~BridgeActive /\ MumbleUserCount > 0 /\ discordSeen
  /\ Call(c)
  /\ UNCHANGED instanceVars

TickStop(p) ==
  /\ loop = "ticking" /\ (MumbleUserCount = 0 \/ ~discordSeen)
  /\ AutoStop(p)
  /\ UNCHANGED instanceVars

-------------------------------------------------------------------------------
(* The chat commands: link and unlink are refused in constant mode.        *)

Link(c) ==
  /\ Mode \in Commands \ {"constant"} /\ c # Loop
  /\ Call(c)
  /\ UNCHANGED instanceVars

Command(p) ==
  /\ Mode \in Commands
  /\ Restart(p) \/ (Mode # "constant" /\ Unlink(p))
  /\ UNCHANGED instanceVars

-------------------------------------------------------------------------------
(* Stop.                                                                   *)

StopBegin ==
  /\ stop = "idle" /\ starts > 0 /\ ~stopped /\ stops < MaxStops
  /\ stops' = stops + 1
  /\ ctxDone' = TRUE /\ stopped' = TRUE
  /\ stop' = IF Mode = "auto" THEN "handshake" ELSE "read"
  /\ UNCHANGED <<vars, Mode, starts, loop, autoVars>>

(* AutoChanDie is unbuffered: AutoBridge takes it between two ticks.       *)
StopHandshake ==
  /\ stop = "handshake" /\ loop = "ticking"
  /\ loop' = "off" /\ stop' = "read"
  /\ UNCHANGED <<vars, hostVars, autoVars>>

StopRead ==
  /\ stop = "read"
  /\ stop' = IF Connected \/ BridgeActive THEN "signal" ELSE "idle"
  /\ UNCHANGED <<vars, hostVars, loop, autoVars>>

(* The non-blocking send, by the state BridgeDie is in now.                *)
StopSignal ==
  /\ stop = "signal"
  /\ stop' = "wait"
  /\ \/ /\ BridgeDie = "open" /\ (\E c \in Caller : Hear(c))
        /\ UNCHANGED panic
     \/ /\ BridgeDie # "closed" /\ \A c \in Caller : pc[c] # "listening"
        /\ UNCHANGED <<sessionVars, panic>>
     \/ /\ BridgeDie = "closed" /\ panic' = "stop"
        /\ UNCHANGED sessionVars
  /\ UNCHANGED <<spc, hostVars, loop, autoVars>>

(* WaitExit.Wait returns at once on a WaitGroup that is not busy; on the   *)
(* nil pointer it panics.                                                  *)
StopWait ==
  /\ stop = "wait"
  /\ \/ WaitExit = "nil" /\ panic' = "nilWaitGroup" /\ stop' = "idle"
     \/ WaitExit = "zero" /\ stop' = "idle" /\ UNCHANGED panic
     \/ WaitExit = "busy" /\ stop' = "waiting" /\ UNCHANGED panic
  /\ UNCHANGED <<sessionVars, spc, hostVars, loop, autoVars>>

(* The end of the audio goroutines lets a Stop that waits return.          *)
Drain ==
  /\ GoroutinesExit
  /\ stop' = IF stop = "waiting" THEN "idle" ELSE stop
  /\ UNCHANGED <<hostVars, loop, autoVars>>

-------------------------------------------------------------------------------

Driver == LoopCheck \/ LoopCall \/ LoopReturned \/ LoopPause

PingLoop == PingAnswered \/ PingLoopEnds

StopStep == StopHandshake \/ StopRead \/ StopSignal \/ StopWait

InstanceNext ==
  /\ panic = "none"
  /\ \/ SessionStep /\ UNCHANGED instanceVars
     \/ Mode = "auto" /\ HealthCancel /\ UNCHANGED instanceVars
     \/ Drain
     \/ Start \/ StopBegin \/ StopStep \/ Driver
     \/ UsersChange \/ BotJoins \/ BotLeaves \/ PingLoop
     \/ \E c \in Caller : TickStart(c) \/ Link(c)
     \/ \E p \in Sender : TickStop(p) \/ Command(p)

(* Goroutines that can go on do, the tickers tick, and the Mumble server   *)
(* answers a ping from time to time.  (The bot need not come nor go.)      *)
InstanceFairness ==
  /\ \A c \in Caller : WF_allVars(panic = "none" /\ Proceed(c) /\ UNCHANGED instanceVars)
  /\ \A p \in Sender : WF_allVars(panic = "none" /\ Send(p) /\ UNCHANGED instanceVars)
  /\ WF_allVars(panic = "none" /\ Drain)
  /\ WF_allVars(panic = "none" /\ Driver)
  /\ WF_allVars(panic = "none" /\ StopStep)
  /\ SF_allVars(panic = "none" /\ PingAnswered)
  /\ WF_allVars(panic = "none" /\ PingLoopEnds)
  /\ WF_allVars(panic = "none" /\ \E c \in Caller : TickStart(c))
  /\ WF_allVars(panic = "none" /\ \E p \in Sender : TickStop(p))

InstanceSpec == InstanceInit /\ [][InstanceNext]_allVars
FairInstanceSpec == InstanceSpec /\ InstanceFairness

-------------------------------------------------------------------------------
(* Properties.                                                             *)

(* The WaitGroup that Stop waits for is that of a session on its way down  *)
(* or still up, whichever sessions came and went since Stop read the       *)
(* field: it is neither one of a session that has returned nor replaced    *)
(* by the next session's meanwhile.                                        *)
StopWaitsForSession ==
  stop = "waiting" =>
    \E c \in Caller : pc[c] \in {"working", "listening", "told"} \cup Ending

(* The parts of the invariant.                                             *)
SessionsInv == InstanceTypeOK /\ OneLive /\ WaitsEnd

Listening == \E c \in Caller : pc[c] = "listening"

(* A start that failed half way left BridgeActive set: no other is         *)
(* accepted, see the README.                                               *)
Stranded == BridgeActive /\ \A c \in Caller : pc[c] \notin Live

(* Constant mode always comes back: whatever ended a session, the loop     *)
(* starts another, as long as Stop was not called and nothing panics or    *)
(* fails to be set up.                                                     *)
ConstantComesBack ==
  <>[](Mode = "constant" /\ starts > 0 /\ stops = 0 /\ panic = "none" /\ ~Stranded)
    => []<>Listening

(* Auto mode with users on both sides has a session again and again, as    *)
(* long as Stop was not called (whose cancelled context ends the count for *)
(* good).  It need not keep it: a count that is taken while the bridge is  *)
(* active and its bot not there yet is one too low, and ends it.           *)
UsersGetBridge ==
  <>[](/\ loop = "ticking" /\ ~ctxDone /\ mumbleUsers > 0 /\ discordSeen
       /\ panic = "none" /\ ~Stranded) => []<>Listening

(* Nobody but the bot is on the Mumble server, and somebody counts.        *)
BotAlone == loop = "ticking" /\ ~ctxDone /\ mumbleUsers = 0 /\ bot /\ panic = "none"

(* Auto mode with nobody on the Discord side ends up without a session: a  *)
(* stop signal that nobody heard is sent again by a later tick.  Nor does  *)
(* a session stay on for its own bot, which the server counts.  (With the  *)
(* bot away and nobody on the server the count of an active bridge is -1,  *)
(* and no tick stops it.)                                                  *)
EmptyBridgeStops ==
  /\ <>[](loop = "ticking" /\ ~discordSeen /\ panic = "none") => <>[]~Listening
  /\ []<>~(BotAlone /\ Listening)

(* "Read state under lock, then unlock before blocking send/wait to avoid  *)
(* deadlock" (pkg/bridgelib/bridge.go): Stop returns.                      *)
StopReturns == stop # "idle" ~> stop = "idle" \/ panic # "none"

===============================================================================
