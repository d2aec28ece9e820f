------------------------- MODULE BridgeInstanceProofs -------------------------
(***************************************************************************)
(* Proofs about BridgeSession, for any set of callers and senders: the     *)
(* mutual exclusion of sessions, the guard's promise, the ownership of     *)
(* BridgeDie and WaitExit, and the refinement of BridgeLifecycle; then the *)
(* same of BridgeInstance, whose modes, commands and Stop are the callers  *)
(* and senders there, and of the wait of its Stop.                         *)
(***************************************************************************)
EXTENDS BridgeInstance, TLAPS

(* b.lock.                                                                 *)
OneHolder == \A c, d \in Caller : pc[c] \in HoldsLock /\ pc[d] \in HoldsLock => c = d

(* The WaitGroup of a session, from its make on.                           *)
WaitGroupMade == \A c \in Caller : pc[c] \in HoldsLock \ {"locked", "made"} => WaitExit # "nil"

(* The part of the inductive invariant the sessions rest on.               *)
Sessions ==
  /\ OneHolder /\ OneLive /\ LiveIsActive
  /\ SessionOwnsChannel /\ BusyHasSession /\ WaitGroupMade /\ WaitsEnd

(* The inductive invariant.                                                *)
IInv == TypeOK /\ Sessions

-------------------------------------------------------------------------------

(* The two ways a session learns of its end look the same to what follows. *)
Told(c) ==
  /\ Goto(c, "listening", "told")
  /\ cancelled' = TRUE
  /\ UNCHANGED <<BridgeActive, BridgeDie, WaitExit>>

(* Whatever moves no caller.                                               *)
Aside ==
  /\ UNCHANGED <<pc, BridgeActive, BridgeDie>>
  /\ WaitExit' = WaitExit \/ WaitExit' = "zero"
  /\ cancelled' = cancelled \/ cancelled' = TRUE

(* One caller moves, in one of these ways, or none.                        *)
Move ==
  \/ Aside
  \/ \E c \in Caller :
       \/ Call(c) \/ PassGuard(c) \/ Refuse(c) \/ TakeLock(c) \/ MakeBridgeDie(c)
       \/ MakeWaitExit(c) \/ FailInit(c) \/ StartManagers(c) \/ StartAudio(c)
       \/ Listen(c) \/ Told(c) \/ EndSession(c) \/ StopManagers(c) \/ Return(c)

(* What the steps of callers and senders are, with or without an instance. *)
SessionMoves ==
  \/ SessionStep \/ HealthCancel \/ GoroutinesExit
  \/ \E c \in Caller : Call(c)
  \/ \E p \in Sender : AutoStop(p) \/ Restart(p) \/ Unlink(p)

LEMMA NextMoves == [Next]_vars => SessionMoves \/ UNCHANGED vars
  BY DEF Next, SessionMoves

LEMMA HearIsTold ==
  ASSUME NEW c \in Caller, Hear(c)
  PROVE  Told(c)
  BY DEF Hear, Told

(* A step moves at most one caller, and only in one of these ways.         *)
LEMMA StepCases ==
  ASSUME cancelled \in BOOLEAN, SessionMoves \/ UNCHANGED vars
  PROVE  Move
  <1>1. ASSUME UNCHANGED vars PROVE Move
    BY <1>1 DEF Move, Aside, vars, sessionVars
  <1>2. ASSUME NEW c \in Caller, Proceed(c) PROVE Move
    <2>1. SeeCancel(c) /\ cancelled = TRUE => Told(c)
      BY DEF SeeCancel, Told
    <2>2. cancelled \in BOOLEAN /\ SeeCancel(c) => cancelled = TRUE
      BY Zenon DEF SeeCancel
    <2> QED
      BY <1>2, <2>1, <2>2 DEF Move, Proceed
  <1>3. ASSUME NEW p \in Sender, Send(p) PROVE Move
    <2>1. CASE StopHeard(p) \/ CommandHeard(p)
      BY HearIsTold, <2>1 DEF Move, StopHeard, CommandHeard
    <2>2. CASE StopUnheard(p) \/ StopOnClosed(p) \/ CommandSend(p)
      BY <2>2 DEF Move, StopUnheard, StopOnClosed, CommandSend, Aside, sessionVars
    <2> QED
      BY <1>3, <2>1, <2>2 DEF Send
  <1>4. ASSUME ConnectionChange \/ HealthCancel \/ GoroutinesExit PROVE Move
    BY <1>4 DEF Move, ConnectionChange, HealthCancel, GoroutinesExit, Aside
  <1>5. ASSUME NEW p \in Sender, AutoStop(p) \/ Restart(p) \/ Unlink(p) PROVE Move
    BY <1>5 DEF Move, AutoStop, Restart, Unlink, Aside, sessionVars
  <1>6. ASSUME NEW c \in Caller, Call(c) PROVE Move
    BY <1>6 DEF Move
  <1> QED
    BY <1>1, <1>2, <1>3, <1>4, <1>5, <1>6 DEF SessionMoves, SessionStep

Place == {"idle", "called", "queued"} \cup HoldsLock

(* What moving one caller does to the places of all.                       *)
LEMMA GotoFacts ==
  ASSUME pc \in [Caller -> Place], NEW c \in Caller, NEW from, NEW to \in Place,
         Goto(c, from, to)
  PROVE  /\ pc' \in [Caller -> Place]
         /\ pc[c] = from /\ pc'[c] = to
         /\ \A d \in Caller : d # c => pc'[d] = pc[d]
  BY DEF Goto

(* No caller is anywhere at first.                                         *)
LEMMA SessionsInit == Init => Sessions
  BY DEF Init, Sessions, OneHolder, OneLive, LiveIsActive, SessionOwnsChannel, BusyHasSession,
         WaitGroupMade, WaitsEnd, Live, HoldsLock, Running, Ending

(* Every way to move a caller keeps the sessions apart.                    *)
LEMMA SessionsStep ==
  ASSUME pc \in [Caller -> Place], Sessions, Move
  PROVE  Sessions' /\ pc' \in [Caller -> Place]
  <1> USE DEF Sessions, OneHolder, OneLive, LiveIsActive, SessionOwnsChannel, BusyHasSession,
              WaitGroupMade, WaitsEnd, Live, Place, HoldsLock, Running, Ending
  <1>1. CASE Aside
    BY <1>1 DEF Aside
  <1>2. ASSUME NEW c \in Caller, Call(c) \/ Refuse(c) PROVE Sessions' /\ pc' \in [Caller -> Place]
    <2>1. \/ Goto(c, "idle", "called")
          \/ Goto(c, "called", "idle")
      BY <1>2 DEF Call, Refuse
    <2>2. UNCHANGED <<BridgeActive, BridgeDie, WaitExit, cancelled>>
      BY <1>2 DEF Call, Refuse
    <2> QED
      BY <2>1, <2>2, GotoFacts
  <1>3. ASSUME NEW c \in Caller, PassGuard(c) PROVE Sessions' /\ pc' \in [Caller -> Place]
    BY <1>3, GotoFacts DEF PassGuard
  <1>4. ASSUME NEW c \in Caller, TakeLock(c) PROVE Sessions' /\ pc' \in [Caller -> Place]
    BY <1>4, GotoFacts DEF TakeLock
  <1>5. ASSUME NEW c \in Caller, MakeBridgeDie(c) PROVE Sessions' /\ pc' \in [Caller -> Place]
    BY <1>5, GotoFacts DEF MakeBridgeDie
  <1>6. ASSUME NEW c \in Caller, MakeWaitExit(c) PROVE Sessions' /\ pc' \in [Caller -> Place]
    BY <1>6, GotoFacts DEF MakeWaitExit
  <1>7. ASSUME NEW c \in Caller, FailInit(c) PROVE Sessions' /\ pc' \in [Caller -> Place]
    BY <1>7, GotoFacts DEF FailInit, CloseBridgeDie
  <1>8. ASSUME NEW c \in Caller, StartManagers(c) PROVE Sessions' /\ pc' \in [Caller -> Place]
    BY <1>8, GotoFacts DEF StartManagers
  <1>9. ASSUME NEW c \in Caller, StartAudio(c) PROVE Sessions' /\ pc' \in [Caller -> Place]
    BY <1>9, GotoFacts DEF StartAudio
  <1>10. ASSUME NEW c \in Caller, Listen(c) PROVE Sessions' /\ pc' \in [Caller -> Place]
    BY <1>10, GotoFacts DEF Listen
  <1>11. ASSUME NEW c \in Caller, Told(c) PROVE Sessions' /\ pc' \in [Caller -> Place]
    BY <1>11, GotoFacts DEF Told
  <1>12. ASSUME NEW c \in Caller, EndSession(c) PROVE Sessions' /\ pc' \in [Caller -> Place]
    BY <1>12, GotoFacts DEF EndSession
  <1>13. ASSUME NEW c \in Caller, StopManagers(c) PROVE Sessions' /\ pc' \in [Caller -> Place]
    BY <1>13, GotoFacts DEF StopManagers
  <1>14. ASSUME NEW c \in Caller, Return(c) PROVE Sessions' /\ pc' \in [Caller -> Place]
    BY <1>14, GotoFacts DEF Return, CloseBridgeDie
  <1> QED
    BY <1>1, <1>2, <1>3, <1>4, <1>5, <1>6, <1>7, <1>8, <1>9, <1>10, <1>11, <1>12, <1>13, <1>14
       DEF Move

-------------------------------------------------------------------------------

(* A step of StartBridge, or beside it, keeps the types.                   *)
LEMMA TypeStep ==
  ASSUME TypeOK, SessionMoves \/ UNCHANGED vars
  PROVE  TypeOK'
  <1> USE DEF TypeOK, HoldsLock, Running, Ending
  <1>1. CASE UNCHANGED vars
    BY <1>1 DEF vars, sessionVars
  <1>2. ASSUME NEW c \in Caller, Proceed(c) \/ Call(c) PROVE TypeOK'
    <2>1. CASE Call(c) \/ PassGuard(c) \/ Refuse(c) \/ TakeLock(c) \/ MakeBridgeDie(c)
      BY <2>1 DEF Call, PassGuard, Refuse, TakeLock, MakeBridgeDie, Goto
    <2>2. CASE MakeWaitExit(c) \/ FailInit(c) \/ StartManagers(c) \/ StartAudio(c) \/ Listen(c)
      BY <2>2 DEF MakeWaitExit, FailInit, CloseBridgeDie, StartManagers, StartAudio, Listen, Goto
    <2>3. CASE SeeCancel(c) \/ EndSession(c) \/ StopManagers(c) \/ Return(c)
      BY <2>3 DEF SeeCancel, EndSession, StopManagers, Return, CloseBridgeDie, Goto
    <2> QED
      BY <1>2, <2>1, <2>2, <2>3 DEF Proceed
  <1>3. ASSUME NEW p \in Sender, Send(p) PROVE TypeOK'
    <2>1. ASSUME NEW c \in Caller, Hear(c)
          PROVE  /\ pc' \in [Caller -> {"idle", "called", "queued"} \cup HoldsLock]
                 /\ cancelled' \in BOOLEAN
                 /\ UNCHANGED <<BridgeActive, Connected, BridgeDie, WaitExit>>
      BY <2>1 DEF Hear, Goto
    <2>2. CASE StopHeard(p) \/ CommandHeard(p)
      BY <2>1, <2>2 DEF StopHeard, CommandHeard, SGoto
    <2>3. CASE StopUnheard(p) \/ StopOnClosed(p) \/ CommandSend(p)
      BY <2>3 DEF StopUnheard, StopOnClosed, CommandSend, SGoto, sessionVars
    <2> QED
      BY <1>3, <2>2, <2>3 DEF Send
  <1>4. ASSUME ConnectionChange \/ HealthCancel \/ GoroutinesExit PROVE TypeOK'
    BY <1>4 DEF ConnectionChange, HealthCancel, GoroutinesExit
  <1>5. ASSUME NEW p \in Sender, AutoStop(p) \/ Restart(p) \/ Unlink(p) PROVE TypeOK'
    BY <1>5 DEF AutoStop, Restart, Unlink, SGoto, sessionVars
  <1> QED
    BY <1>1, <1>2, <1>3, <1>4, <1>5 DEF SessionMoves, SessionStep

(* The inductive invariant holds in every reachable state.                 *)
THEOREM IInvCorrect == Spec => []IInv
  <1>1. Init => IInv
    BY SessionsInit DEF Init, IInv, TypeOK
  <1>2. IInv /\ [Next]_vars => IInv'
    <2>1. TypeOK => pc \in [Caller -> Place] /\ cancelled \in BOOLEAN
      BY DEF TypeOK, Place
    <2> QED
      BY <2>1, NextMoves, StepCases, TypeStep, SessionsStep DEF IInv
  <1> QED
    BY <1>1, <1>2, PTL DEF Spec

(* Every variable of a session and of the requests to end it keeps to its  *)
(* type, the places of StartBridge among them.                             *)
THEOREM TypeCorrect == Spec => []TypeOK
  BY IInvCorrect, PTL DEF IInv

(* Of the calls of StartBridge that passed its guard, at most one is not   *)
(* taking its session down, whoever calls and whatever ends the sessions.  *)
THEOREM OneLiveSession == Spec => []OneLive
  BY IInvCorrect, PTL DEF IInv, Sessions

(* A session that waits or runs reads as active to AutoBridge.             *)
THEOREM LiveReadsActive == Spec => []LiveIsActive
  BY IInvCorrect, PTL DEF IInv, Sessions

(* The deferred close of one StartBridge never closes the channel of the   *)
(* next: b.lock covers BridgeDie from its make to its close.               *)
THEOREM ChannelOwned == Spec => []SessionOwnsChannel
  BY IInvCorrect, PTL DEF IInv, Sessions

(* A tear-down waits for goroutines that were cancelled, and an accepted   *)
(* start for a tear-down: the select's two ways out of StartBridge both    *)
(* cancel the context.                                                     *)
THEOREM NobodyWaitsInVain == Spec => []WaitsEnd
  BY IInvCorrect, PTL DEF IInv, Sessions

(* WaitExit is busy only for the session that holds b.lock.                *)
THEOREM WaitIsForSession == Spec => []BusyHasSession
  BY IInvCorrect, PTL DEF IInv, Sessions

-------------------------------------------------------------------------------
(* The refinement of BridgeLifecycle.                                      *)

Phase == IF SomeCaller(Running) THEN "running"
         ELSE IF SomeCaller(Ending) THEN "ending" ELSE "none"

(* The abstract phase is the place of the only holder of b.lock.           *)
LEMMA PhaseOfHolder ==
  ASSUME OneHolder, NEW c \in Caller, pc[c] \in HoldsLock
  PROVE  Phase = IF pc[c] \in Running THEN "running" ELSE "ending"
  BY DEF Phase, SomeCaller, OneHolder, HoldsLock, Running, Ending

(* A caller that moves within the running or the ending places, or outside *)
(* of both, changes nothing of the abstract life of sessions.              *)
LEMMA StutterMove ==
  ASSUME pc \in [Caller -> Place], NEW c \in Caller, NEW from \in Place, NEW to \in Place,
         Goto(c, from, to), UNCHANGED BridgeActive,
         from # "queued", to # "queued",
         from \in Running <=> to \in Running,
         from \in Ending <=> to \in Ending
  PROVE  UNCHANGED Lifecycle!vars
  <1>1. \A d \in Caller : /\ pc'[d] = "queued" <=> pc[d] = "queued"
                          /\ pc'[d] \in Running <=> pc[d] \in Running
                          /\ pc'[d] \in Ending <=> pc[d] \in Ending
    BY GotoFacts
  <1> QED
    BY <1>1 DEF Lifecycle!vars, SomeCaller

(* Every step is a step of BridgeLifecycle or leaves its variables alone.  *)
LEMMA LifecycleStep ==
  ASSUME TypeOK, Sessions, Move
  PROVE  [Lifecycle!Next]_(Lifecycle!vars)
  <1> DEFINE Goal == Lifecycle!Next \/ UNCHANGED Lifecycle!vars
  <1>0. pc \in [Caller -> Place] /\ OneHolder /\ OneLive
    BY DEF TypeOK, Place, Sessions
  <1>1. CASE Aside
    BY <1>1 DEF Aside, Lifecycle!vars, SomeCaller
  <1>2. ASSUME NEW c \in Caller,
               \/ Call(c) \/ Refuse(c) \/ MakeBridgeDie(c) \/ MakeWaitExit(c)
               \/ StartManagers(c) \/ StartAudio(c) \/ Listen(c) \/ Told(c) \/ StopManagers(c)
        PROVE  Goal
    <2>1. UNCHANGED BridgeActive
      BY <1>2 DEF Call, Refuse, MakeBridgeDie, MakeWaitExit, StartManagers, StartAudio, Listen,
                  Told, StopManagers
    <2>2. \/ Goto(c, "idle", "called") \/ Goto(c, "called", "idle")
          \/ Goto(c, "locked", "made") \/ Goto(c, "made", "ready")
          \/ Goto(c, "ready", "started") \/ Goto(c, "started", "working")
          \/ Goto(c, "working", "listening") \/ Goto(c, "listening", "told")
          \/ Goto(c, "inactive", "stopped")
      BY <1>2 DEF Call, Refuse, MakeBridgeDie, MakeWaitExit, StartManagers, StartAudio, Listen,
                  Told, StopManagers
    <2> QED
      BY <1>0, <2>1, <2>2, StutterMove DEF Place, HoldsLock, Running, Ending
  <1>3. ASSUME NEW c \in Caller, PassGuard(c) PROVE Lifecycle!Request
    <2>1. ~BridgeActive /\ BridgeActive' = TRUE
      BY <1>3 DEF PassGuard
    <2>2. Goto(c, "called", "queued")
      BY <1>3 DEF PassGuard
    <2>3. SomeCaller({"queued"})'
      BY <1>0, <2>2, GotoFacts DEF SomeCaller, Place
    <2>4. \A d \in Caller : /\ pc'[d] \in Running <=> pc[d] \in Running
                            /\ pc'[d] \in Ending <=> pc[d] \in Ending
      BY <1>0, <2>2, GotoFacts DEF Place, HoldsLock, Running, Ending
    <2> QED
      BY <2>1, <2>3, <2>4 DEF Lifecycle!Request, SomeCaller
  <1>4. ASSUME NEW c \in Caller, TakeLock(c) PROVE Lifecycle!Begin
    <2>1. Goto(c, "queued", "locked") /\ UNCHANGED BridgeActive
      BY <1>4 DEF TakeLock
    <2>2. \A d \in Caller : pc[d] \notin Running /\ pc[d] \notin Ending
      BY <1>4 DEF TakeLock, HoldsLock
    <2>3. pc[c] = "queued" /\ pc'[c] = "locked" /\ \A d \in Caller : d # c => pc'[d] = pc[d]
      BY <1>0, <2>1, GotoFacts DEF Place, HoldsLock, Running
    <2>4. \A d \in Caller : pc'[d] # "queued"
      BY <1>0, <2>3 DEF OneLive, Live
    <2>5. pc'[c] \in Running
      BY <2>3 DEF Running
    <2> QED
      BY <2>1, <2>2, <2>3, <2>4, <2>5 DEF Lifecycle!Begin, SomeCaller
  <1>5. ASSUME NEW c \in Caller, NEW from, NEW to \in Place, Goto(c, from, to),
               from \in HoldsLock, to # "queued"
        PROVE  /\ SomeCaller({"queued"})' = SomeCaller({"queued"})
               /\ Phase = IF from \in Running THEN "running" ELSE "ending"
               /\ Phase' = IF to \in Running THEN "running"
                           ELSE IF to \in Ending THEN "ending" ELSE "none"
    <2>1. pc[c] = from /\ pc'[c] = to /\ \A d \in Caller : d # c => pc'[d] = pc[d]
      BY <1>0, <1>5, GotoFacts
    <2>2. \A d \in Caller : d # c => pc[d] \notin HoldsLock
      BY <1>0, <1>5, <2>1 DEF OneHolder
    <2>3. SomeCaller({"queued"})' = SomeCaller({"queued"})
      BY <1>5, <2>1 DEF SomeCaller, HoldsLock, Running, Ending
    <2>4. Phase = IF from \in Running THEN "running" ELSE "ending"
      BY <1>0, <1>5, <2>1, PhaseOfHolder
    <2>5. /\ SomeCaller(Running)' <=> to \in Running
          /\ SomeCaller(Ending)' <=> to \in Ending
      BY <2>1, <2>2 DEF SomeCaller, HoldsLock
    <2> QED
      BY <2>3, <2>4, <2>5 DEF Phase
  <1>6. ASSUME NEW c \in Caller, FailInit(c) PROVE Lifecycle!Abort
    <2>1. Goto(c, "ready", "idle") /\ UNCHANGED BridgeActive
      BY <1>6 DEF FailInit
    <2>2. Phase = "running" /\ Phase' = "none" /\ SomeCaller({"queued"})' = SomeCaller({"queued"})
      BY <1>5, <2>1 DEF Place, HoldsLock, Running, Ending
    <2> QED
      BY <2>1, <2>2 DEF Lifecycle!Abort, Phase
  <1>7. ASSUME NEW c \in Caller, EndSession(c) PROVE Lifecycle!End
    <2>1. Goto(c, "told", "inactive") /\ BridgeActive' = FALSE
      BY <1>7 DEF EndSession
    <2>2. Phase = "running" /\ Phase' = "ending" /\ SomeCaller({"queued"})' = SomeCaller({"queued"})
      BY <1>5, <2>1 DEF Place, HoldsLock, Running, Ending
    <2> QED
      BY <2>1, <2>2 DEF Lifecycle!End, Phase
  <1>8. ASSUME NEW c \in Caller, Return(c) PROVE Lifecycle!Finish
    <2>1. Goto(c, "stopped", "idle") /\ UNCHANGED BridgeActive
      BY <1>8 DEF Return
    <2>2. Phase = "ending" /\ Phase' = "none" /\ SomeCaller({"queued"})' = SomeCaller({"queued"})
      BY <1>5, <2>1 DEF Place, HoldsLock, Running, Ending
    <2> QED
      BY <2>1, <2>2 DEF Lifecycle!Finish, Phase
  <1> QED
    BY <1>1, <1>2, <1>3, <1>4, <1>6, <1>7, <1>8 DEF Move, Lifecycle!Next

LEMMA LifecycleInit == Init => Lifecycle!Init
  BY DEF Init, Lifecycle!Init, SomeCaller, Running, Ending

(* The sessions of StartBridge, however many call it and however they are  *)
(* ended, are those of BridgeLifecycle.                                    *)
THEOREM Refinement == Spec => RefinesLifecycle
  <1>1. Init => Lifecycle!Init
    BY LifecycleInit
  <1>2. IInv /\ [Next]_vars => [Lifecycle!Next]_(Lifecycle!vars)
    BY NextMoves, StepCases, LifecycleStep DEF IInv, TypeOK
  <1> QED
    BY <1>1, <1>2, IInvCorrect, PTL DEF Spec, RefinesLifecycle, Lifecycle!Spec

-------------------------------------------------------------------------------
(* The instance.                                                           *)

(* A step of the instance is one of a caller or sender, or a signal or     *)
(* wait of Stop, or is none of theirs.                                     *)
AutoWorld == UsersChange \/ BotJoins \/ BotLeaves \/ PingLoop

LEMMA InstanceCases ==
  ASSUME [InstanceNext]_allVars
  PROVE  SessionMoves \/ UNCHANGED vars \/ StopSignal \/ StopWait
  <1>1. LoopCall => \E c \in Caller : Call(c)
    BY InstanceAssumption DEF InstanceAssumption, LoopCall
  <1>2. CASE UNCHANGED allVars
    BY <1>2 DEF allVars
  <1>3. CASE Drain
    BY <1>3 DEF Drain, SessionMoves
  <1>4. CASE Start \/ StopBegin \/ AutoWorld
    BY <1>4 DEF Start, StopBegin, AutoWorld, UsersChange, BotJoins, BotLeaves, PingLoop,
       PingAnswered, PingLoopEnds
  <1>5. CASE StopStep
    BY <1>5 DEF StopStep, StopHandshake, StopRead
  <1>6. CASE Driver
    BY <1>1, <1>6 DEF Driver, LoopCheck, LoopReturned, LoopPause, SessionMoves
  <1>7. ASSUME NEW c \in Caller, TickStart(c) \/ Link(c) PROVE SessionMoves
    BY <1>7 DEF TickStart, Link, SessionMoves
  <1>8. ASSUME NEW p \in Sender, TickStop(p) \/ Command(p) PROVE SessionMoves
    BY <1>8 DEF TickStop, Command, SessionMoves
  <1>9. CASE SessionStep \/ HealthCancel
    BY <1>9 DEF SessionMoves
  <1> QED
    BY <1>2, <1>3, <1>4, <1>5, <1>6, <1>7, <1>8, <1>9 DEF InstanceNext, AutoWorld

(* To the sessions, Stop's signal is one more that is heard or not.        *)
LEMMA InstanceMove ==
  ASSUME cancelled \in BOOLEAN, [InstanceNext]_allVars
  PROVE  Move
  <1>1. CASE SessionMoves \/ UNCHANGED vars
    BY <1>1, StepCases
  <1>2. CASE StopSignal
    BY <1>2, HearIsTold DEF StopSignal, Move, Aside, sessionVars
  <1>3. CASE StopWait
    BY <1>3 DEF StopWait, Move, Aside, sessionVars
  <1> QED
    BY <1>1, <1>2, <1>3, InstanceCases

(* The types of what the instance adds.                                    *)
HostTypeOK ==
  /\ Mode \in Modes
  /\ starts \in 0 .. MaxStarts /\ stops \in 0 .. MaxStops
  /\ stopped \in BOOLEAN /\ ctxDone \in BOOLEAN
  /\ loop \in {"off", "check", "calling", "inside", "pause", "ticking"}
  /\ stop \in {"idle", "handshake", "read", "signal", "wait", "waiting"}

AutoTypeOK ==
  /\ mumbleUsers \in 0 .. MaxUsers
  /\ bot \in BOOLEAN /\ discordSeen \in BOOLEAN /\ pinging \in BOOLEAN
  /\ MumbleUserCount \in -1 .. MaxUsers + 1

OwnTypeOK == HostTypeOK /\ AutoTypeOK

(* The goroutines Stop waits for are still counted.                        *)
WaitsForBusy == stop = "waiting" => WaitExit = "busy"

InstanceIInv == TypeOK /\ OwnTypeOK /\ Sessions /\ WaitsForBusy

(* The steps of the callers and senders, and Stop's, keep the types.       *)
LEMMA InstanceTypeStep ==
  ASSUME TypeOK, [InstanceNext]_allVars
  PROVE  TypeOK'
  <1> USE DEF TypeOK, HoldsLock, Running, Ending
  <1>1. CASE SessionMoves \/ UNCHANGED vars
    BY <1>1, TypeStep
  <1>2. CASE StopSignal
    <2>1. ASSUME NEW c \in Caller, Hear(c)
          PROVE  /\ pc' \in [Caller -> {"idle", "called", "queued"} \cup HoldsLock]
                 /\ cancelled' \in BOOLEAN
                 /\ UNCHANGED <<BridgeActive, Connected, BridgeDie, WaitExit>>
      BY <2>1 DEF Hear, Goto
    <2>2. spc' = spc /\ panic' \in {panic, "stop"}
      BY <1>2 DEF StopSignal
    <2>3. CASE UNCHANGED sessionVars
      BY <2>2, <2>3 DEF sessionVars
    <2>4. CASE \E c \in Caller : Hear(c)
      BY <2>1, <2>2, <2>4
    <2> QED
      BY <1>2, <2>3, <2>4 DEF StopSignal
  <1>3. CASE StopWait
    BY <1>3 DEF StopWait, sessionVars
  <1> QED
    BY <1>1, <1>2, <1>3, InstanceCases

(* Those who come and go, and the ping loop.                               *)
LEMMA AutoWorldStep ==
  ASSUME AutoTypeOK, AutoWorld
  PROVE  AutoTypeOK' /\ UNCHANGED <<hostVars, loop, stop>>
  <1> USE InstanceAssumption DEF InstanceAssumption, AutoTypeOK
  <1>1. CASE UsersChange
    BY <1>1 DEF UsersChange
  <1>2. CASE BotJoins \/ BotLeaves
    BY <1>2 DEF BotJoins, BotLeaves
  <1>3. CASE PingAnswered
    <2>1. ConnectedUsers \in 0 .. MaxUsers + 1
      BY DEF ConnectedUsers
    <2>2. MumbleUserCount' \in {ConnectedUsers, ConnectedUsers - 1}
      BY <1>3, <2>1 DEF PingAnswered
    <2>3. UNCHANGED <<hostVars, loop, stop, mumbleUsers, bot, discordSeen, pinging>>
      BY <1>3 DEF PingAnswered
    <2> QED
      BY <2>1, <2>2, <2>3
  <1>4. CASE PingLoopEnds
    BY <1>4 DEF PingLoopEnds
  <1> QED
    BY <1>1, <1>2, <1>3, <1>4 DEF AutoWorld, PingLoop

(* The rest leaves what auto mode watches alone, but for Start, which      *)
(* starts the ping loop.                                                   *)
LEMMA AutoTypeStep ==
  ASSUME AutoTypeOK, [InstanceNext]_allVars
  PROVE  AutoTypeOK'
  <1>1. CASE UNCHANGED autoVars
    BY <1>1 DEF AutoTypeOK, autoVars
  <1>2. CASE Start
    <2>1. pinging' \in BOOLEAN
      BY <1>2, Zenon DEF Start
    <2> QED
      BY <1>2, <2>1 DEF Start, AutoTypeOK
  <1>3. CASE AutoWorld
    BY <1>3, AutoWorldStep
  <1>4. Drain \/ StopBegin \/ StopStep \/ Driver => UNCHANGED autoVars
    BY DEF Drain, StopBegin, StopStep, StopHandshake, StopRead, StopSignal, StopWait,
           Driver, LoopCheck, LoopCall, LoopReturned, LoopPause
  <1>5. UNCHANGED instanceVars \/ UNCHANGED allVars => UNCHANGED autoVars
    BY DEF instanceVars, allVars
  <1> QED
    BY <1>1, <1>2, <1>3, <1>4, <1>5
       DEF InstanceNext, AutoWorld, TickStart, Link, TickStop, Command

(* Each step of the instance keeps the types of its own state.             *)
LEMMA HostTypeStep ==
  ASSUME HostTypeOK, AutoTypeOK, [InstanceNext]_allVars
  PROVE  HostTypeOK'
  <1> USE InstanceAssumption DEF InstanceAssumption, HostTypeOK, hostVars
  <1>1. CASE UNCHANGED <<hostVars, loop, stop>>
    BY <1>1
  <1>2. CASE Drain
    BY <1>2 DEF Drain
  <1>3. CASE Start
    <2>1. starts' \in 0 .. MaxStarts /\ stopped' = FALSE
      BY <1>3 DEF Start
    <2>2. loop' \in {"check", "calling", "ticking"}
      BY <1>3 DEF Start
    <2> QED
      BY <1>3, <2>1, <2>2 DEF Start
  <1>4. CASE StopBegin
    <2>1. stops' \in 0 .. MaxStops /\ ctxDone' = TRUE /\ stopped' = TRUE
      BY <1>4 DEF StopBegin
    <2>2. stop' \in {"handshake", "read"}
      BY <1>4 DEF StopBegin
    <2> QED
      BY <1>4, <2>1, <2>2 DEF StopBegin
  <1>5. CASE StopStep
    BY <1>5 DEF StopStep, StopHandshake, StopRead, StopSignal, StopWait
  <1>6. CASE Driver
    BY <1>6 DEF Driver, LoopCheck, LoopCall, LoopReturned, LoopPause
  <1>7. AutoWorld => UNCHANGED <<hostVars, loop, stop>>
    BY AutoWorldStep
  <1>8. UNCHANGED instanceVars \/ UNCHANGED allVars => UNCHANGED <<hostVars, loop, stop>>
    BY DEF instanceVars, allVars
  <1> QED
    BY <1>1, <1>2, <1>3, <1>4, <1>5, <1>6, <1>7, <1>8
       DEF InstanceNext, AutoWorld, TickStart, Link, TickStop, Command

LEMMA OwnTypeStep ==
  ASSUME OwnTypeOK, [InstanceNext]_allVars
  PROVE  OwnTypeOK'
  BY HostTypeStep, AutoTypeStep DEF OwnTypeOK

(* While Stop waits, no session puts another WaitGroup into the field: the *)
(* one that would is past the guard of b.lock, and the busy one has it.    *)
LEMMA WaitStep ==
  ASSUME Sessions, WaitsForBusy, [InstanceNext]_allVars
  PROVE  WaitsForBusy'
  <1> USE DEF WaitsForBusy
  <1>1. CASE Drain
    BY <1>1 DEF Drain
  <1>2. CASE StopStep
    BY <1>2 DEF StopStep, StopHandshake, StopRead, StopSignal, StopWait, Hear, sessionVars
  <1>3. CASE Start \/ StopBegin \/ AutoWorld \/ LoopCheck \/ LoopReturned \/ LoopPause
    BY <1>3 DEF Start, StopBegin, AutoWorld, UsersChange, BotJoins, BotLeaves, PingLoop,
                PingAnswered, PingLoopEnds, LoopCheck, LoopReturned, LoopPause,
                vars, sessionVars
  <1>4. CASE UNCHANGED allVars
    BY <1>4 DEF allVars, instanceVars, vars, sessionVars
  <1>5. ASSUME NEW c \in Caller, Call(c), UNCHANGED stop PROVE WaitsForBusy'
    BY <1>5 DEF Call
  <1>6. ASSUME NEW p \in Sender, AutoStop(p) \/ Restart(p) \/ Unlink(p), UNCHANGED stop
        PROVE  WaitsForBusy'
    BY <1>6 DEF AutoStop, Restart, Unlink, sessionVars
  <1>7. ASSUME SessionStep \/ HealthCancel, UNCHANGED stop PROVE WaitsForBusy'
    <2>1. ASSUME NEW c \in Caller, MakeWaitExit(c) PROVE WaitExit # "busy"
      BY <2>1 DEF MakeWaitExit, Goto, Sessions, OneHolder, BusyHasSession, HoldsLock,
                  Running, Ending
    <2>2. ASSUME NEW c \in Caller, Proceed(c) PROVE WaitsForBusy'
      BY <1>7, <2>1, <2>2
         DEF Proceed, PassGuard, Refuse, TakeLock, MakeBridgeDie, MakeWaitExit, FailInit,
             StartManagers, StartAudio, Listen, SeeCancel, EndSession, StopManagers, Return
    <2>3. ASSUME NEW p \in Sender, Send(p) PROVE WaitsForBusy'
      BY <1>7, <2>3
         DEF Send, StopHeard, StopUnheard, StopOnClosed, CommandSend, CommandHeard, Hear,
             sessionVars
    <2>4. CASE ConnectionChange \/ HealthCancel
      BY <1>7, <2>4 DEF ConnectionChange, HealthCancel
    <2> QED
      BY <1>7, <2>2, <2>3, <2>4 DEF SessionStep
  <1>8. LoopCall => (\E c \in Caller : Call(c)) /\ UNCHANGED stop
    BY InstanceAssumption DEF InstanceAssumption, LoopCall
  <1> QED
    BY <1>1, <1>2, <1>3, <1>4, <1>5, <1>6, <1>7, <1>8
       DEF InstanceNext, AutoWorld, Driver, TickStart, Link, TickStop, Command, instanceVars

(* The inductive invariant: the sessions' own, and Stop's wait.            *)
THEOREM InstanceIInvCorrect == InstanceSpec => []InstanceIInv
  <1>1. InstanceInit => InstanceIInv
    <2> SUFFICES ASSUME InstanceInit PROVE InstanceIInv
      OBVIOUS
    <2>1. TypeOK
      BY DEF InstanceInit, Init, TypeOK
    <2>2. OwnTypeOK
      <3>1. starts \in 0 .. MaxStarts /\ stops \in 0 .. MaxStops
        BY InstanceAssumption DEF InstanceAssumption, InstanceInit
      <3>2. AutoTypeOK
        <4>1. 0 \in 0 .. MaxUsers /\ 0 \in -1 .. MaxUsers + 1 /\ -1 \in -1 .. MaxUsers + 1
          BY InstanceAssumption DEF InstanceAssumption
        <4> QED
          BY <4>1 DEF InstanceInit, AutoTypeOK
      <3> QED
        BY <3>1, <3>2 DEF InstanceInit, OwnTypeOK, HostTypeOK
    <2>3. Sessions /\ WaitsForBusy
      BY SessionsInit DEF InstanceInit, WaitsForBusy
    <2> QED
      BY <2>1, <2>2, <2>3 DEF InstanceIInv
  <1>2. InstanceIInv /\ [InstanceNext]_allVars => InstanceIInv'
    <2>1. TypeOK => pc \in [Caller -> Place] /\ cancelled \in BOOLEAN
      BY DEF TypeOK, Place
    <2> QED
      BY <2>1, InstanceMove, InstanceTypeStep, OwnTypeStep, SessionsStep, WaitStep
         DEF InstanceIInv
  <1> QED
    BY <1>1, <1>2, PTL DEF InstanceSpec

(* The loops, the ticker, the commands and Stop of an instance never have  *)
(* two accepted sessions, and nothing waits for a session that was not     *)
(* told to end (StartBridge's guard, and its two ways out of the select).  *)
THEOREM InstanceSafe == InstanceSpec => []SessionsInv
  <1>1. InstanceIInv => SessionsInv
    BY DEF InstanceIInv, InstanceTypeOK, OwnTypeOK, HostTypeOK, AutoTypeOK, Sessions, SessionsInv
  <1> QED
    BY <1>1, InstanceIInvCorrect, PTL

(* No session of an instance closes the channel of another (b.lock from    *)
(* the make of BridgeDie to its close).                                    *)
THEOREM InstanceChannelOwned == InstanceSpec => []SessionOwnsChannel
  <1>1. InstanceIInv => SessionOwnsChannel
    BY DEF InstanceIInv, Sessions
  <1> QED
    BY <1>1, InstanceIInvCorrect, PTL

(* The WaitGroup the instance's Stop waits for is a session's that has not *)
(* returned.                                                               *)
THEOREM StopWaits == InstanceSpec => []StopWaitsForSession
  <1>1. InstanceIInv => StopWaitsForSession
    BY DEF InstanceIInv, Sessions, WaitsForBusy, BusyHasSession, StopWaitsForSession
  <1> QED
    BY <1>1, InstanceIInvCorrect, PTL

(* The sessions of an instance, in any mode and through any Stop and       *)
(* restart, are those of BridgeLifecycle.                                  *)
THEOREM InstanceRefinement == InstanceSpec => RefinesLifecycle
  <1>1. InstanceInit => Lifecycle!Init
    BY LifecycleInit DEF InstanceInit
  <1>2. InstanceIInv /\ [InstanceNext]_allVars => [Lifecycle!Next]_(Lifecycle!vars)
    BY InstanceMove, LifecycleStep DEF InstanceIInv, TypeOK
  <1> QED
    BY <1>1, <1>2, InstanceIInvCorrect, PTL DEF InstanceSpec, RefinesLifecycle, Lifecycle!Spec

===============================================================================
