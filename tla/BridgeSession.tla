----------------------------- MODULE BridgeSession -----------------------------
(***************************************************************************)
(* The life of a bridge session and of the requests that end it            *)
(* (internal/bridge/bridge.go: StartBridge, StopBridge; the commands of    *)
(* discord_handlers.go and command_handler.go).                            *)
(*                                                                         *)
(* Any goroutine may call StartBridge (the loops of a bridge instance, the *)
(* auto mode's ticker, the link and refresh commands).  One that passes    *)
(* the guard under BridgeMutex waits for b.lock, replaces the channel      *)
(* BridgeDie and the WaitGroup WaitExit, sets the connections and the      *)
(* audio goroutines up, and listens on BridgeDie until it is told to stop. *)
(* BridgeDie is unbuffered and is closed when the call returns.  The ones  *)
(* who ask for the end read the field BridgeDie without a lock: StopBridge *)
(* sends without blocking, the commands with.                              *)
(*                                                                         *)
(* A send on a closed channel is a Go panic, which ends the process; so is *)
(* a channel that is closed while a goroutine is blocked sending on it.    *)
(***************************************************************************)
CONSTANTS
  Caller,       (* goroutines that call StartBridge                           *)
  Sender,       (* goroutines that ask for the end of a session               *)
  InitCanFail,  (* TRUE: initializeConnectionManagers may fail (its           *)
                (* certificate file cannot be read, say)                      *)
  AutoMode      (* TRUE: the bridge mode may be auto                          *)

ASSUME ModeAssumption == InitCanFail \in BOOLEAN /\ AutoMode \in BOOLEAN

VARIABLES
  pc,            (* where each caller is in StartBridge                       *)
  BridgeActive,
  Connected,     (* both services are connected, as ConnectionState has it    *)
  BridgeDie,     (* the channel in the field: none yet, open, or closed       *)
  WaitExit,      (* the WaitGroup in the field: none yet, zero, or busy       *)
  cancelled,     (* the context of the session is cancelled                   *)
  spc,           (* where each sender is                                      *)
  panic          (* what brought the process down                             *)

sessionVars == <<pc, BridgeActive, Connected, BridgeDie, WaitExit, cancelled>>
vars == <<sessionVars, spc, panic>>

(* Points of StartBridge, in order: called, before the guard; queued, past *)
(* the guard; then with b.lock held.                                       *)
Running  == {"locked", "made", "ready", "started", "working", "listening", "told"}
Ending   == {"inactive", "stopped"}
HoldsLock == Running \cup Ending

TypeOK ==
  /\ pc \in [Caller -> {"idle", "called", "queued"} \cup HoldsLock]
  /\ BridgeActive \in BOOLEAN /\ Connected \in BOOLEAN /\ cancelled \in BOOLEAN
  /\ BridgeDie \in {"nil", "open", "closed"}
  /\ WaitExit \in {"nil", "zero", "busy"}
  /\ spc \in [Sender -> {"idle", "stopping", "commanded", "sending", "stuck"}]
  /\ panic \in {"none", "stopBridge", "command", "stop", "nilWaitGroup"}

Init ==
  /\ pc = [c \in Caller |-> "idle"]
  /\ BridgeActive = FALSE /\ Connected = FALSE /\ cancelled = FALSE
  /\ BridgeDie = "nil" /\ WaitExit = "nil"
  /\ spc = [p \in Sender |-> "idle"]
  /\ panic = "none"

Goto(c, from, to) == pc[c] = from /\ pc' = [pc EXCEPT ![c] = to]

-------------------------------------------------------------------------------
(* StartBridge.                                                            *)

Call(c) ==
  /\ Goto(c, "idle", "called")
  /\ UNCHANGED <<BridgeActive, Connected, BridgeDie, WaitExit, cancelled, spc, panic>>

(* Mutant of PassGuard: the guard as it was before BridgeActive.           *)
PassGuardConnectedOnly(c) ==
  /\ ~Connected
  /\ Goto(c, "called", "queued")
  /\ BridgeActive' = TRUE
  /\ UNCHANGED <<Connected, BridgeDie, WaitExit, cancelled, spc, panic>>

(* The guard, under BridgeMutex.                                           *)
PassGuard(c) ==
  /\ ~Connected /\ ~BridgeActive
  /\ Goto(c, "called", "queued")
  /\ BridgeActive' = TRUE
  /\ UNCHANGED <<Connected, BridgeDie, WaitExit, cancelled, spc, panic>>

(* "Bridge already active, aborting start"                                 *)
Refuse(c) ==
  /\ Connected \/ BridgeActive
  /\ Goto(c, "called", "idle")
  /\ UNCHANGED <<BridgeActive, Connected, BridgeDie, WaitExit, cancelled, spc, panic>>

(* Mutant of TakeLock: the holder must also find the bridge inactive.      *)
TakeLockInactive(c) ==
  /\ ~BridgeActive
  /\ \A d \in Caller : pc[d] \notin HoldsLock
  /\ Goto(c, "queued", "locked")
  /\ UNCHANGED <<BridgeActive, Connected, BridgeDie, WaitExit, cancelled, spc, panic>>

(* b.lock is held until the call returns.                                  *)
TakeLock(c) ==
  /\ \A d \in Caller : pc[d] \notin HoldsLock
  /\ Goto(c, "queued", "locked")
  /\ UNCHANGED <<BridgeActive, Connected, BridgeDie, WaitExit, cancelled, spc, panic>>

MakeBridgeDie(c) ==
  /\ Goto(c, "locked", "made")
  /\ BridgeDie' = "open" /\ cancelled' = FALSE
  /\ UNCHANGED <<BridgeActive, Connected, WaitExit, spc, panic>>

MakeWaitExit(c) ==
  /\ Goto(c, "made", "ready")
  /\ WaitExit' = "zero"
  /\ UNCHANGED <<BridgeActive, Connected, BridgeDie, cancelled, spc, panic>>

(* The deferred close(BridgeDie): whoever is blocked sending on it panics. *)
CloseBridgeDie ==
  /\ BridgeDie' = "closed"
  /\ panic' = IF \E p \in Sender : spc[p] = "sending" THEN "command" ELSE panic

(* An error return of initializeConnectionManagers.  (The error return     *)
(* after startConnectionManagers cannot happen: neither Start fails.)      *)
FailInit(c) ==
  /\ InitCanFail
  /\ Goto(c, "ready", "idle")
  /\ CloseBridgeDie /\ cancelled' = TRUE
  /\ UNCHANGED <<BridgeActive, Connected, WaitExit, spc>>

(* The managers are created and started ...                                *)
StartManagers(c) ==
  /\ Goto(c, "ready", "started")
  /\ UNCHANGED <<BridgeActive, Connected, BridgeDie, WaitExit, cancelled, spc, panic>>

(* ... and the audio goroutines and the health monitor, counted in         *)
(* WaitExit.                                                               *)
StartAudio(c) ==
  /\ Goto(c, "started", "working")
  /\ WaitExit' = "busy"
  /\ UNCHANGED <<BridgeActive, Connected, BridgeDie, cancelled, spc, panic>>

(* The select on the context and BridgeDie is reached.                     *)
Listen(c) ==
  /\ Goto(c, "working", "listening")
  /\ UNCHANGED <<BridgeActive, Connected, BridgeDie, WaitExit, cancelled, spc, panic>>

(* The managers report a connection or the loss of one (ConnectionState).  *)
ConnectionChange ==
  /\ \E c \in Caller : pc[c] \in {"started", "working", "listening", "told", "inactive"}
  /\ Connected' = ~Connected
  /\ UNCHANGED <<pc, BridgeActive, BridgeDie, WaitExit, cancelled, spc, panic>>

(* The health monitor, in auto mode, when both connections are lost.       *)
HealthCancel ==
  /\ AutoMode /\ ~Connected /\ WaitExit = "busy"
  /\ \E c \in Caller : pc[c] \in {"working", "listening"}
  /\ cancelled' = TRUE
  /\ UNCHANGED <<pc, BridgeActive, Connected, BridgeDie, WaitExit, spc, panic>>

SeeCancel(c) ==
  /\ cancelled
  /\ Goto(c, "listening", "told")
  /\ UNCHANGED <<BridgeActive, Connected, BridgeDie, WaitExit, cancelled, spc, panic>>

(* A value is received from BridgeDie, and the context cancelled.          *)
Hear(c) ==
  /\ Goto(c, "listening", "told")
  /\ cancelled' = TRUE
  /\ UNCHANGED <<BridgeActive, Connected, BridgeDie, WaitExit>>

(* Mutant of EndSession: only Connected is reset.                          *)
EndSessionStaysActive(c) ==
  /\ Goto(c, "told", "inactive")
  /\ Connected' = FALSE
  /\ UNCHANGED <<BridgeActive, BridgeDie, WaitExit, cancelled, spc, panic>>

(* Mutant of EndSession: BridgeDie is closed as soon as it was heard.      *)
EndSessionCloses(c) ==
  /\ Goto(c, "told", "inactive")
  /\ Connected' = FALSE /\ BridgeActive' = FALSE /\ BridgeDie' = "closed"
  /\ UNCHANGED <<WaitExit, cancelled, spc, panic>>

EndSession(c) ==
  /\ Goto(c, "told", "inactive")
  /\ Connected' = FALSE /\ BridgeActive' = FALSE
  /\ UNCHANGED <<BridgeDie, WaitExit, cancelled, spc, panic>>

(* cleanupAudio and stopConnectionManagers.                                *)
StopManagers(c) ==
  /\ Goto(c, "inactive", "stopped")
  /\ Connected' = FALSE
  /\ UNCHANGED <<BridgeActive, BridgeDie, WaitExit, cancelled, spc, panic>>

(* The goroutines counted in WaitExit see the cancelled context.           *)
GoroutinesExit ==
  /\ WaitExit = "busy" /\ cancelled
  /\ WaitExit' = "zero"
  /\ UNCHANGED <<pc, BridgeActive, Connected, BridgeDie, cancelled, spc, panic>>

(* Mutant of Return: the goroutines are not waited for.                    *)
ReturnUnwaited(c) ==
  /\ Goto(c, "stopped", "idle")
  /\ CloseBridgeDie
  /\ UNCHANGED <<BridgeActive, Connected, WaitExit, cancelled, spc>>

(* wg.Wait, and the deferred calls: BridgeDie is closed, b.lock released.  *)
Return(c) ==
  /\ WaitExit = "zero"
  /\ Goto(c, "stopped", "idle")
  /\ CloseBridgeDie
  /\ UNCHANGED <<BridgeActive, Connected, WaitExit, cancelled, spc>>

-------------------------------------------------------------------------------
(* The requests to end a session.                                          *)

SGoto(p, from, to) == spc[p] = from /\ spc' = [spc EXCEPT ![p] = to]

(* AutoBridge finds a side empty and the bridge active: go StopBridge().   *)
AutoStop(p) ==
  /\ AutoMode /\ BridgeActive
  /\ SGoto(p, "idle", "stopping")
  /\ UNCHANGED <<sessionVars, panic>>

(* StopBridge's select, by the state BridgeDie is in now.  Its wait for    *)
(* WaitExit keeps nobody but its own goroutine.                            *)
StopHeard(p) ==
  /\ BridgeDie = "open" /\ \E c \in Caller : Hear(c)
  /\ SGoto(p, "stopping", "idle")
  /\ UNCHANGED panic

StopUnheard(p) ==
  /\ BridgeDie # "closed" /\ \A c \in Caller : pc[c] # "listening"
  /\ SGoto(p, "stopping", "idle")
  /\ UNCHANGED <<sessionVars, panic>>

StopOnClosed(p) ==
  /\ BridgeDie = "closed"
  /\ SGoto(p, "stopping", "idle")
  /\ panic' = "stopBridge"
  /\ UNCHANGED sessionVars

(* The restart command, from either chat: no check.                        *)
Restart(p) ==
  /\ SGoto(p, "idle", "commanded")
  /\ UNCHANGED <<sessionVars, panic>>

(* unlink and refresh check that the bridge is connected, and then look    *)
(* the guild up (another request to Discord).  The StartBridge of refresh  *)
(* is a Call.                                                              *)
Unlink(p) ==
  /\ Connected
  /\ SGoto(p, "idle", "commanded")
  /\ UNCHANGED <<sessionVars, panic>>

(* Then they send: on a nil channel for ever.                              *)
CommandSend(p) ==
  /\ \/ BridgeDie = "nil" /\ SGoto(p, "commanded", "stuck") /\ UNCHANGED panic
     \/ BridgeDie = "open" /\ SGoto(p, "commanded", "sending") /\ UNCHANGED panic
     \/ BridgeDie = "closed" /\ SGoto(p, "commanded", "idle") /\ panic' = "command"
  /\ UNCHANGED sessionVars

CommandHeard(p) ==
  /\ \E c \in Caller : Hear(c)
  /\ SGoto(p, "sending", "idle")
  /\ UNCHANGED panic

-------------------------------------------------------------------------------

(* What StartBridge does by itself, once called.                           *)
Proceed(c) ==
  \/ PassGuard(c) \/ Refuse(c) \/ TakeLock(c) \/ MakeBridgeDie(c) \/ MakeWaitExit(c)
  \/ FailInit(c) \/ StartManagers(c) \/ StartAudio(c) \/ Listen(c) \/ SeeCancel(c)
  \/ EndSession(c) \/ StopManagers(c) \/ Return(c)

Send(p) ==
  \/ StopHeard(p) \/ StopUnheard(p) \/ StopOnClosed(p) \/ CommandSend(p) \/ CommandHeard(p)

SessionStep ==
  \/ \E c \in Caller : Proceed(c)
  \/ \E p \in Sender : Send(p)
  \/ ConnectionChange

Next ==
  /\ panic = "none"
  /\ \/ SessionStep \/ HealthCancel
     \/ GoroutinesExit
     \/ \E c \in Caller : Call(c)
     \/ \E p \in Sender : AutoStop(p) \/ Restart(p) \/ Unlink(p)

(* Goroutines that can go on do: the session's, the senders', the audio    *)
(* goroutines.  Nobody has to call, connect or ask for anything.           *)
Fairness ==
  /\ \A c \in Caller : WF_vars(panic = "none" /\ Proceed(c))
  /\ \A p \in Sender : WF_vars(panic = "none" /\ Send(p))
  /\ WF_vars(panic = "none" /\ GoroutinesExit)

Spec == Init /\ [][Next]_vars
FairSpec == Spec /\ Fairness

-------------------------------------------------------------------------------
(* Properties.                                                             *)

Live == {"queued"} \cup Running

(* BridgeActive "prevents AutoBridge from queuing duplicate StartBridge()  *)
(* calls during the connection window" (bridge.go), whoever calls: of the  *)
(* calls that got past the guard, one at most is not taking down yet.      *)
OneLive == \A c, d \in Caller : pc[c] \in Live /\ pc[d] \in Live => c = d

(* A session that waits or runs reads as active, although the end of the   *)
(* session before it comes after its start was accepted.                   *)
LiveIsActive == \A c \in Caller : pc[c] \in Live => BridgeActive

(* The channel a session made is open for as long as the session has it:   *)
(* the deferred close of one session never hits the channel of the next.   *)
SessionOwnsChannel ==
  \A c \in Caller : pc[c] \in HoldsLock \ {"locked"} => BridgeDie = "open"

(* The audio goroutines StopBridge and Stop wait for belong to the session *)
(* that holds the lock: no wait outlives the session it is for.            *)
BusyHasSession ==
  WaitExit = "busy" =>
    \E c \in Caller : pc[c] \in {"working", "listening", "told"} \cup Ending

(* Whoever waits for a session waits for one that is on its way out: the   *)
(* goroutines that a session taken down waits for were told to go, and an  *)
(* accepted start never waits for a session that has yet to be told.       *)
WaitsEnd ==
  /\ \A c \in Caller : pc[c] \in {"told"} \cup Ending => cancelled /\ WaitExit # "nil"
  /\ \A c, d \in Caller : pc[c] = "queued" /\ pc[d] \in HoldsLock => pc[d] \in Ending

(* StopBridge is safe on any channel: its log line for the default branch  *)
(* says "Bridge stop signal channel full or closed" (bridge.go).           *)
StopBridgeSurvivesClose == panic # "stopBridge"

SomeCaller(places) == \E c \in Caller : pc[c] \in places

(* A session that was told to stop returns, whatever else goes on.  (One   *)
(* at a time is on its way down, so it returns where there is none.)       *)
ToldReturns == []<>(~SomeCaller({"told"} \cup Ending) \/ panic # "none")

(* A start that was accepted gets its session: it only ever waits for one  *)
(* that is being taken down.  (By OneLive one start at a time is queued.)  *)
QueuedBegins == []<>(~SomeCaller({"queued"}) \/ panic # "none")

(* Both at once.                                                           *)
SessionsMoveOn == ToldReturns /\ QueuedBegins

(* The abstract life of sessions, as seen in the callers' places.          *)
Lifecycle == INSTANCE BridgeLifecycle WITH
  active <- BridgeActive,
  queued <- SomeCaller({"queued"}),
  phase  <- IF SomeCaller(Running) THEN "running"
            ELSE IF SomeCaller(Ending) THEN "ending" ELSE "none"

(* Every step of the callers and senders is a step of BridgeLifecycle.     *)
RefinesLifecycle == Lifecycle!Spec

===============================================================================
