------------------------- MODULE ConnectionStateProofs -------------------------
(***************************************************************************)
(* Proofs about ConnectionState, for every channel capacity, any number of *)
(* sessions and any interleaving: the type invariant, and the safety       *)
(* invariants the runs of MCConnectionState check on a small instance.     *)
(***************************************************************************)
EXTENDS ConnectionState, SequenceTheorems, TLAPS

(* Where the session is bounds what the monitor and the channels can be.   *)
Phases ==
  /\ session \in {"discordStopped", "mumbleStopped", "none"}
       => monitor = "exited" /\ closed["discord"]
  /\ session \in {"mumbleStopped", "none"} => closed["mumble"]
  /\ session \in {"running", "ending", "cancelled"}
       => ~closed["discord"] /\ ~closed["mumble"]
  /\ session = "discordStopped" => ~closed["mumble"]

(* One start at a time is past the guard.                                  *)
OneStart == ActiveCoversSession /\ ~(waiting /\ session = "running")

(* Between sessions nothing is left that could write a flag.               *)
Quiet ==
  SleepCoversEmit =>
    /\ \A s \in Service : late[s] = {}
    /\ session = "none" => \A s \in Service : pc[s] = "idle" /\ ~svcConnected[s]

(* Every session begins with new managers.                                 *)
Fresh ==
  session = "none" =>
    \A s \in Service : status[s] = "Disconnected" /\ queue[s] = <<>> /\ pc[s] = "idle"

Newest(q) == q[Len(q)]

(* What will become of the flag of s: the newest event still under way for *)
(* s, in the channel or in the monitor's hand, carries the current status, *)
(* and when there is none the flag agrees with the status already.         *)
Agrees(s) ==
  IF queue[s] # <<>> THEN Newest(queue[s]) = status[s]
  ELSE IF monitor = "handling" /\ hand[1] = s THEN hand[2] = status[s]
  ELSE pc[s] = "idle" => (svcConnected[s] <=> status[s] = "Connected")

Tracking ==
  SleepCoversEmit /\ session \in {"running", "ending"} =>
    \A s \in Service : pc[s] \in {"idle", "sent"} /\ ~lost[s] => Agrees(s)

IInv ==
  /\ TypeOK /\ Phases /\ NoSendOnClosed /\ RetryHasRoom
  /\ ConnectedImpliesBoth /\ OneStart /\ Quiet /\ Fresh /\ Tracking

-------------------------------------------------------------------------------

(* The actions of Next, named, so that a proof can take them one by one.   *)
LEMMA StepCases ==
  ASSUME [Next]_vars
  PROVE  \/ \E s \in Service : \/ \E new \in Status : SwapStatus(s, new)
                               \/ LockAndRecheck(s)
                               \/ TrySend(s)
                               \/ DropOldest(s)
                               \/ RetrySend(s)
                               \/ Emit(s)
                               \/ MonitorTake(s)
                               \/ \E connected \in BOOLEAN : LateEmit(s, connected)
         \/ MonitorHandle
         \/ MonitorExit
         \/ \E found \in BOOLEAN : PopulateDone(found)
         \/ StartBridge
         \/ BeginSession
         \/ FailInit
         \/ EndSession
         \/ CancelConnections
         \/ StopDiscord
         \/ StopMumble
         \/ ClearFlags
         \/ UNCHANGED vars
  BY DEF Next, SetStatus, Monitor, Session

LEMMA TypeInit == Init => TypeOK
  <1> SUFFICES ASSUME Init PROVE TypeOK
    OBVIOUS
  <1>1. ManagersOK
    BY CapAssumption DEF Init, ManagersOK, Status, HoldsEventMutex
  <1>2. FlagsOK
    BY DEF Init, FlagsOK
  <1>3. GoroutinesOK
    BY DEF Init, GoroutinesOK, NoEvent, Service, Status
  <1>4. announced = 0 /\ populating = 0
    BY DEF Init
  <1>5. CountersOK
    BY <1>4, BoundAssumption DEF CountersOK
  <1> QED
    BY <1>1, <1>2, <1>3, <1>5 DEF TypeOK

(* EmitConnectionEvent and the latch keep the types of what they write.    *)
LEMMA EmitType ==
  ASSUME FlagsOK, NEW s \in Service, NEW c \in BOOLEAN, EmitConnectionEvent(s, c)
  PROVE  FlagsOK'
  BY DEF FlagsOK, EmitConnectionEvent, Service

LEMMA AnnounceType ==
  ASSUME FlagsOK, NEW ready, Announce(ready)
  PROVE  presenceAnnounced' \in BOOLEAN
  BY DEF FlagsOK, Announce

(* The part of the type invariant with content: a channel stays within its *)
(* capacity.                                                               *)
LEMMA ManagersStep == TypeOK /\ [Next]_vars => ManagersOK'
  <1> SUFFICES ASSUME TypeOK, [Next]_vars PROVE ManagersOK'
    OBVIOUS
  <1> USE CapAssumption DEF ManagersOK, HoldsEventMutex
  <1>0. ManagersOK /\ GoroutinesOK
    BY DEF TypeOK
  <1>1. ASSUME NEW s \in Service, NEW new \in Status, SwapStatus(s, new) PROVE ManagersOK'
    BY <1>0, <1>1 DEF SwapStatus
  <1>2. ASSUME NEW s \in Service, LockAndRecheck(s) PROVE ManagersOK'
    BY <1>0, <1>2 DEF LockAndRecheck
  <1>3. ASSUME NEW s \in Service, TrySend(s) \/ DropOldest(s) \/ RetrySend(s)
        PROVE ManagersOK'
    <2>1. status[s] \in Status /\ queue[s] \in Seq(Status)
      BY <1>0
    <2>2. \/ queue' = queue
          \/ /\ Len(queue[s]) < EventCap
             /\ queue' = [queue EXCEPT ![s] = Append(queue[s], status[s])]
          \/ /\ queue[s] # <<>>
             /\ queue' = [queue EXCEPT ![s] = Tail(queue[s])]
      BY <1>3 DEF TrySend, DropOldest, RetrySend
    <2>3. queue' \in [Service -> Seq(Status)] /\ \A r \in Service : Len(queue'[r]) <= EventCap
      <3> DEFINE q == queue[s]
      <3>1. CASE queue' = queue
        BY <1>0, <3>1
      <3>2. CASE Len(q) < EventCap /\ queue' = [queue EXCEPT ![s] = Append(q, status[s])]
        <4>1. Append(q, status[s]) \in Seq(Status) /\ Len(Append(q, status[s])) = Len(q) + 1
          BY <2>1
        <4> QED
          BY <1>0, <2>1, <3>2, <4>1
      <3>3. CASE q # <<>> /\ queue' = [queue EXCEPT ![s] = Tail(q)]
        <4>1. Tail(q) \in Seq(Status) /\ Len(Tail(q)) <= Len(q)
          BY <2>1, <3>3
        <4> QED
          BY <1>0, <2>1, <3>3, <4>1
      <3> QED
        BY <2>2, <3>1, <3>2, <3>3
    <2>4. /\ pc' \in [Service -> {"idle", "swapped", "sent"} \cup HoldsEventMutex]
          /\ lost' \in [Service -> BOOLEAN]
          /\ UNCHANGED <<status, closed, late>>
      BY <1>0, <1>3 DEF TrySend, DropOldest, RetrySend
    <2> QED
      BY <1>0, <2>3, <2>4
  <1>4. ASSUME NEW s \in Service, Emit(s) PROVE ManagersOK'
    BY <1>0, <1>4 DEF Emit
  <1>5. ASSUME NEW s \in Service, MonitorTake(s) PROVE ManagersOK'
    <2>1. queue[s] \in Seq(Status) /\ queue[s] # <<>>
      BY <1>0, <1>5 DEF MonitorTake
    <2>2. Tail(queue[s]) \in Seq(Status) /\ Len(Tail(queue[s])) <= EventCap
      BY <1>0, <2>1
    <2> QED
      BY <1>0, <1>5, <2>2 DEF MonitorTake
  <1>6. ASSUME NEW s \in Service, NEW c \in BOOLEAN, LateEmit(s, c) PROVE ManagersOK'
    BY <1>0, <1>6 DEF LateEmit
  <1>7. ASSUME ClearFlags PROVE ManagersOK'
    BY <1>0, <1>7 DEF ClearFlags, RetireManagers, Status
  <1>8. ASSUME StopDiscord \/ StopMumble \/ BeginSession PROVE ManagersOK'
    BY <1>0, <1>8 DEF StopDiscord, StopMumble, BeginSession, CloseManager, Service
  <1>9. ASSUME UNCHANGED managerVars PROVE ManagersOK'
    BY <1>0, <1>9 DEF managerVars
  <1>10. \/ MonitorHandle \/ MonitorExit \/ StartBridge \/ FailInit \/ EndSession \/ CancelConnections
         \/ (\E found \in BOOLEAN : PopulateDone(found)) \/ UNCHANGED vars
         => UNCHANGED managerVars
    BY DEF MonitorHandle, MonitorExit, PopulateDone, StartBridge, FailInit, EndSession,
           CancelConnections, vars
  <1> QED
    BY StepCases, <1>1, <1>2, <1>3, <1>4, <1>5, <1>6, <1>7, <1>8, <1>9, <1>10

LEMMA FlagsStep == TypeOK /\ [Next]_vars => FlagsOK'
  <1> SUFFICES ASSUME TypeOK, [Next]_vars PROVE FlagsOK'
    OBVIOUS
  <1>0. ManagersOK /\ FlagsOK /\ GoroutinesOK
    BY DEF TypeOK
  <1>1. ASSUME NEW s \in Service, Emit(s) PROVE FlagsOK'
    BY <1>0, <1>1, EmitType DEF Emit
  <1>2. ASSUME NEW s \in Service, NEW c \in BOOLEAN, LateEmit(s, c) PROVE FlagsOK'
    BY <1>0, <1>2, EmitType DEF LateEmit
  <1>3. ASSUME MonitorHandle PROVE FlagsOK'
    <2>1. presenceAnnounced' \in BOOLEAN
      BY <1>0, <1>3, AnnounceType DEF MonitorHandle
    <2>2. /\ hand[1] \in Service
          /\ svcConnected' = [svcConnected EXCEPT ![hand[1]] = hand[2] = "Connected"]
          /\ Connected' = (svcConnected'["discord"] /\ svcConnected'["mumble"])
          /\ BridgeActive' = BridgeActive
      BY <1>0, <1>3 DEF MonitorHandle, GoroutinesOK
    <2> QED
      BY <1>0, <2>1, <2>2 DEF FlagsOK, Service
  <1>4. ASSUME NEW found \in BOOLEAN, PopulateDone(found) PROVE FlagsOK'
    BY <1>0, <1>4, AnnounceType DEF PopulateDone, FlagsOK
  <1>5. ASSUME StartBridge \/ FailInit \/ BeginSession \/ EndSession \/ ClearFlags PROVE FlagsOK'
    BY <1>0, <1>5 DEF FlagsOK, StartBridge, FailInit, BeginSession, EndSession, ClearFlags, bridgeVars
  <1>6. ASSUME UNCHANGED bridgeVars PROVE FlagsOK'
    BY <1>0, <1>6 DEF FlagsOK, bridgeVars
  <1>7. ASSUME NEW s \in Service
        PROVE (\/ \E new \in Status : SwapStatus(s, new)
               \/ LockAndRecheck(s) \/ TrySend(s) \/ DropOldest(s) \/ RetrySend(s)
               \/ MonitorTake(s)) => UNCHANGED bridgeVars
    BY DEF SwapStatus, LockAndRecheck, TrySend, DropOldest, RetrySend, MonitorTake
  <1>8. MonitorExit \/ CancelConnections \/ StopDiscord \/ StopMumble \/ UNCHANGED vars
        => UNCHANGED bridgeVars
    BY DEF MonitorExit, CancelConnections, StopDiscord, StopMumble, vars
  <1> QED
    BY StepCases, <1>1, <1>2, <1>3, <1>4, <1>5, <1>6, <1>7, <1>8

LEMMA GoroutinesStep == TypeOK /\ [Next]_vars => GoroutinesOK'
  <1> SUFFICES ASSUME TypeOK, [Next]_vars PROVE GoroutinesOK'
    OBVIOUS
  <1> USE DEF GoroutinesOK
  <1>0. ManagersOK /\ FlagsOK /\ GoroutinesOK
    BY DEF TypeOK
  <1>1. ASSUME NEW s \in Service, MonitorTake(s) PROVE GoroutinesOK'
    <2>1. queue[s] \in Seq(Status) /\ queue[s] # <<>>
      BY <1>0, <1>1 DEF MonitorTake, ManagersOK
    <2>2. Head(queue[s]) \in Status
      BY <2>1
    <2> QED
      BY <1>0, <1>1, <2>2 DEF MonitorTake
  <1>2. ASSUME MonitorHandle PROVE GoroutinesOK'
    BY <1>0, <1>2 DEF MonitorHandle, NoEvent, Service, Status
  <1>3. ASSUME NEW found \in BOOLEAN, PopulateDone(found) PROVE GoroutinesOK'
    BY <1>0, <1>3 DEF PopulateDone
  <1>4. ASSUME \/ MonitorExit \/ StartBridge \/ FailInit \/ BeginSession \/ EndSession
               \/ CancelConnections \/ StopDiscord \/ StopMumble \/ ClearFlags
        PROVE GoroutinesOK'
    BY <1>0, <1>4 DEF MonitorExit, StartBridge, FailInit, BeginSession, EndSession,
                      CancelConnections, StopDiscord, StopMumble, ClearFlags
  <1>5. ASSUME UNCHANGED sessionVars PROVE GoroutinesOK'
    BY <1>0, <1>5 DEF sessionVars
  <1>6. ASSUME NEW s \in Service
        PROVE (\/ \E new \in Status : SwapStatus(s, new)
               \/ LockAndRecheck(s) \/ TrySend(s) \/ DropOldest(s) \/ RetrySend(s) \/ Emit(s)
               \/ \E c \in BOOLEAN : LateEmit(s, c)) => UNCHANGED sessionVars
    BY DEF SwapStatus, LockAndRecheck, TrySend, DropOldest, RetrySend, Emit, LateEmit
  <1>7. UNCHANGED vars => UNCHANGED sessionVars
    BY DEF vars
  <1> QED
    BY StepCases, <1>1, <1>2, <1>3, <1>4, <1>5, <1>6, <1>7

(* The two counters are capped by their bounds.                            *)
LEMMA CountersStep == TypeOK /\ [Next]_vars => CountersOK'
  <1> SUFFICES ASSUME TypeOK, [Next]_vars PROVE CountersOK'
    OBVIOUS
  <1>0. announced \in 0 .. MaxAnnounced /\ populating \in 0 .. MaxPopulate
    BY DEF TypeOK, CountersOK
  <1>1. \/ announced' = announced
        \/ announced' = 0
        \/ announced' = IF announced < MaxAnnounced THEN announced + 1 ELSE announced
    <2>1. ASSUME NEW ready, Announce(ready)
          PROVE  \/ announced' = announced
                 \/ announced' = IF announced < MaxAnnounced THEN announced + 1 ELSE announced
      BY <2>1 DEF Announce
    <2>2. MonitorHandle => Announce(Connected')
      BY DEF MonitorHandle
    <2>3. ASSUME NEW found \in BOOLEAN, PopulateDone(found)
          PROVE  Announce(found /\ svcConnected["discord"] /\ svcConnected["mumble"])
      BY <2>3 DEF PopulateDone
    <2>4. BeginSession => announced' = 0
      BY DEF BeginSession
    <2>5. ASSUME NEW s \in Service
          PROVE (\/ \E new \in Status : SwapStatus(s, new)
                 \/ LockAndRecheck(s) \/ TrySend(s) \/ DropOldest(s) \/ RetrySend(s)
                 \/ Emit(s) \/ MonitorTake(s)
                 \/ \E c \in BOOLEAN : LateEmit(s, c)) => announced' = announced
      BY DEF SwapStatus, LockAndRecheck, TrySend, DropOldest, RetrySend, Emit,
             MonitorTake, LateEmit, EmitConnectionEvent, bridgeVars
    <2>6. \/ MonitorExit \/ StartBridge \/ FailInit \/ EndSession \/ CancelConnections
          \/ StopDiscord \/ StopMumble \/ ClearFlags \/ UNCHANGED vars
          => announced' = announced
      BY DEF MonitorExit, StartBridge, FailInit, EndSession, CancelConnections, StopDiscord,
             StopMumble, ClearFlags, bridgeVars, vars
    <2> QED
      BY StepCases, <2>1, <2>2, <2>3, <2>4, <2>5, <2>6
  <1>2. \/ populating' = populating
        \/ populating < MaxPopulate /\ populating' = populating + 1
        \/ populating > 0 /\ populating' = populating - 1
    <2>1. MonitorHandle => \/ populating' = populating
                           \/ populating < MaxPopulate /\ populating' = populating + 1
      BY DEF MonitorHandle
    <2>2. ASSUME NEW found \in BOOLEAN, PopulateDone(found)
          PROVE  populating > 0 /\ populating' = populating - 1
      BY <2>2 DEF PopulateDone
    <2>3. ASSUME NEW s \in Service
          PROVE (\/ \E new \in Status : SwapStatus(s, new)
                 \/ LockAndRecheck(s) \/ TrySend(s) \/ DropOldest(s) \/ RetrySend(s)
                 \/ Emit(s) \/ MonitorTake(s)
                 \/ \E c \in BOOLEAN : LateEmit(s, c)) => populating' = populating
      BY DEF SwapStatus, LockAndRecheck, TrySend, DropOldest, RetrySend, Emit,
             MonitorTake, LateEmit, sessionVars
    <2>4. \/ MonitorExit \/ StartBridge \/ FailInit \/ BeginSession \/ EndSession \/ CancelConnections
          \/ StopDiscord \/ StopMumble \/ ClearFlags \/ UNCHANGED vars
          => populating' = populating
      BY DEF MonitorExit, StartBridge, FailInit, BeginSession, EndSession, CancelConnections,
             StopDiscord, StopMumble, ClearFlags, sessionVars, vars
    <2> QED
      BY StepCases, <2>1, <2>2, <2>3, <2>4
  <1>3. announced' \in 0 .. MaxAnnounced
    BY <1>0, <1>1, BoundAssumption
  <1>4. populating' \in 0 .. MaxPopulate
    BY <1>0, <1>2, BoundAssumption
  <1> QED
    BY <1>3, <1>4 DEF CountersOK

LEMMA TypeStep == TypeOK /\ [Next]_vars => TypeOK'
  BY ManagersStep, FlagsStep, GoroutinesStep, CountersStep DEF TypeOK

(* The state of the managers, the flags and the session always has the     *)
(* declared type; no channel ever holds more events than its capacity.     *)
THEOREM TypeCorrect == Spec => []TypeOK
  BY TypeInit, TypeStep, PTL DEF Spec

-------------------------------------------------------------------------------
(* The inductive invariant.                                                *)

(* Which actions write the session, the monitor and the closed flags.      *)
LEMMA PhasesStep == TypeOK /\ Phases /\ [Next]_vars => Phases'
  <1> SUFFICES ASSUME TypeOK, Phases, [Next]_vars PROVE Phases'
    OBVIOUS
  <1>0. closed \in [Service -> BOOLEAN] /\ "discord" \in Service /\ "mumble" \in Service
    BY DEF TypeOK, ManagersOK, Service
  <1> USE DEF Phases
  <1>1. ASSUME UNCHANGED <<session, monitor, closed>> PROVE Phases'
    BY <1>1
  <1>2. ASSUME NEW s \in Service
        PROVE (\/ \E new \in Status : SwapStatus(s, new)
               \/ LockAndRecheck(s) \/ TrySend(s) \/ DropOldest(s) \/ RetrySend(s)
               \/ Emit(s) \/ \E c \in BOOLEAN : LateEmit(s, c))
              => UNCHANGED <<session, monitor, closed>>
    BY DEF SwapStatus, LockAndRecheck, TrySend, DropOldest, RetrySend, Emit, LateEmit,
           sessionVars
  <1>3. ASSUME NEW s \in Service, MonitorTake(s) PROVE Phases'
    BY <1>3 DEF MonitorTake
  <1>4. ASSUME MonitorHandle PROVE Phases'
    BY <1>4 DEF MonitorHandle, managerVars
  <1>5. ASSUME MonitorExit PROVE Phases'
    BY <1>5 DEF MonitorExit, managerVars
  <1>6. ASSUME BeginSession PROVE Phases'
    BY <1>0, <1>6 DEF BeginSession
  <1>7. ASSUME EndSession \/ CancelConnections PROVE Phases'
    BY <1>7 DEF EndSession, CancelConnections, managerVars
  <1>8. ASSUME StopDiscord PROVE Phases'
    BY <1>0, <1>8 DEF StopDiscord, CloseManager
  <1>9. ASSUME StopMumble PROVE Phases'
    BY <1>0, <1>9 DEF StopMumble, CloseManager
  <1>10. ASSUME ClearFlags PROVE Phases'
    BY <1>10 DEF ClearFlags, RetireManagers
  <1>11. (\E found \in BOOLEAN : PopulateDone(found)) \/ StartBridge \/ FailInit \/ UNCHANGED vars
         => UNCHANGED <<session, monitor, closed>>
    BY DEF PopulateDone, StartBridge, FailInit, vars, managerVars, sessionVars
  <1> QED
    BY StepCases, <1>1, <1>2, <1>3, <1>4, <1>5, <1>6, <1>7, <1>8, <1>9, <1>10, <1>11

(* eventMutex: whoever is between the second check and the end of the send *)
(* keeps the channel open, and only the monitor changes it meanwhile.      *)
LEMMA SenderStep ==
  TypeOK /\ NoSendOnClosed /\ RetryHasRoom /\ [Next]_vars => NoSendOnClosed' /\ RetryHasRoom'
  <1> SUFFICES ASSUME TypeOK, NoSendOnClosed, RetryHasRoom, [Next]_vars
               PROVE  NoSendOnClosed' /\ RetryHasRoom'
    OBVIOUS
  <1>0. /\ closed \in [Service -> BOOLEAN]
        /\ queue \in [Service -> Seq(Status)]
        /\ pc \in [Service -> {"idle", "swapped", "sent"} \cup HoldsEventMutex]
        /\ \A s \in Service : Len(queue[s]) <= EventCap
    BY DEF TypeOK, ManagersOK
  <1> USE CapAssumption DEF NoSendOnClosed, RetryHasRoom, HoldsEventMutex
  <1>1. ASSUME UNCHANGED <<pc, queue, closed>> PROVE NoSendOnClosed' /\ RetryHasRoom'
    BY <1>1
  <1>2. ASSUME NEW s \in Service, NEW new \in Status, SwapStatus(s, new)
        PROVE  NoSendOnClosed' /\ RetryHasRoom'
    BY <1>0, <1>2 DEF SwapStatus
  <1>3. ASSUME NEW s \in Service, LockAndRecheck(s) PROVE NoSendOnClosed' /\ RetryHasRoom'
    <2>1. NoSendOnClosed'
      BY <1>0, <1>3 DEF LockAndRecheck
    <2>2. RetryHasRoom'
      BY <1>0, <1>3 DEF LockAndRecheck
    <2> QED
      BY <2>1, <2>2
  <1>4. ASSUME NEW s \in Service, TrySend(s) PROVE NoSendOnClosed' /\ RetryHasRoom'
    <2>1. NoSendOnClosed'
      BY <1>0, <1>4 DEF TrySend
    <2>2. /\ pc'[s] # "retry"
          /\ \A r \in Service \ {s} : pc'[r] = pc[r] /\ queue'[r] = queue[r]
      BY <1>0, <1>4 DEF TrySend
    <2> QED
      BY <2>1, <2>2
  <1>5. ASSUME NEW s \in Service, DropOldest(s) PROVE NoSendOnClosed' /\ RetryHasRoom'
    <2>1. NoSendOnClosed'
      BY <1>0, <1>5 DEF DropOldest
    <2>2. \A r \in Service \ {s} : pc'[r] = pc[r] /\ queue'[r] = queue[r]
      BY <1>0, <1>5 DEF DropOldest
    <2>3. pc'[s] = "retry" => queue[s] # <<>> /\ queue'[s] = Tail(queue[s])
      BY <1>0, <1>5 DEF DropOldest
    <2>4. queue[s] # <<>> => Len(Tail(queue[s])) < EventCap
      <3>1. queue[s] \in Seq(Status) /\ Len(queue[s]) <= EventCap
        BY <1>0
      <3> QED
        BY <3>1
    <2> QED
      BY <2>1, <2>2, <2>3, <2>4
  <1>6. ASSUME NEW s \in Service, RetrySend(s) \/ Emit(s)
        PROVE  NoSendOnClosed' /\ RetryHasRoom'
    <2>1. NoSendOnClosed'
      BY <1>0, <1>6 DEF RetrySend, Emit
    <2>2. /\ pc'[s] # "retry"
          /\ \A r \in Service \ {s} : pc'[r] = pc[r] /\ queue'[r] = queue[r]
      BY <1>0, <1>6 DEF RetrySend, Emit
    <2> QED
      BY <2>1, <2>2
  <1>7. ASSUME NEW s \in Service, MonitorTake(s) PROVE NoSendOnClosed' /\ RetryHasRoom'
    <2>1. Len(Tail(queue[s])) < Len(queue[s])
      <3>1. queue[s] \in Seq(Status) /\ queue[s] # <<>>
        BY <1>0, <1>7 DEF MonitorTake
      <3> QED
        BY <3>1
    <2>2. Len(queue[s]) \in Nat /\ Len(Tail(queue[s])) \in Nat
      <3>1. queue[s] \in Seq(Status) /\ queue[s] # <<>>
        BY <1>0, <1>7 DEF MonitorTake
      <3> QED
        BY <3>1
    <2>3. /\ pc' = pc /\ closed' = closed
          /\ queue' = [queue EXCEPT ![s] = Tail(queue[s])]
      BY <1>7 DEF MonitorTake
    <2> QED
      BY <1>0, <2>1, <2>2, <2>3
  <1>8. ASSUME NEW s \in Service, CloseManager(s) PROVE NoSendOnClosed' /\ RetryHasRoom'
    BY <1>0, <1>8 DEF CloseManager
  <1>9. ASSUME BeginSession PROVE NoSendOnClosed' /\ RetryHasRoom'
    BY <1>0, <1>9 DEF BeginSession
  <1>10. ASSUME ClearFlags PROVE NoSendOnClosed' /\ RetryHasRoom'
    BY <1>0, <1>10 DEF ClearFlags, RetireManagers
  <1>11. StopDiscord \/ StopMumble => CloseManager("discord") \/ CloseManager("mumble")
    BY DEF StopDiscord, StopMumble
  <1>12. (\E s \in Service, c \in BOOLEAN : LateEmit(s, c)) => UNCHANGED <<pc, queue, closed>>
    BY DEF LateEmit
  <1>13. \/ MonitorHandle \/ MonitorExit \/ (\E found \in BOOLEAN : PopulateDone(found))
         \/ StartBridge \/ FailInit \/ EndSession \/ CancelConnections \/ UNCHANGED vars
         => UNCHANGED <<pc, queue, closed>>
    BY DEF MonitorHandle, MonitorExit, PopulateDone, StartBridge, FailInit, EndSession,
           CancelConnections, vars, managerVars
  <1>14. "discord" \in Service /\ "mumble" \in Service
    BY DEF Service
  <1> QED
    BY StepCases, <1>1, <1>2, <1>3, <1>4, <1>5, <1>6, <1>7, <1>8, <1>9, <1>10, <1>11,
       <1>12, <1>13, <1>14

(* Connected is recomputed with every flag, or cleared.                    *)
LEMMA BothStep == TypeOK /\ ConnectedImpliesBoth /\ [Next]_vars => ConnectedImpliesBoth'
  <1> SUFFICES ASSUME TypeOK, ConnectedImpliesBoth, [Next]_vars PROVE ConnectedImpliesBoth'
    OBVIOUS
  <1> USE DEF ConnectedImpliesBoth
  <1>1. ASSUME Connected' = (svcConnected'["discord"] /\ svcConnected'["mumble"])
        PROVE  ConnectedImpliesBoth'
    BY <1>1
  <1>2. ASSUME Connected' = FALSE PROVE ConnectedImpliesBoth'
    BY <1>2
  <1>3. ASSUME UNCHANGED <<Connected, svcConnected>> PROVE ConnectedImpliesBoth'
    BY <1>3
  <1>4. ASSUME NEW s \in Service
        PROVE Emit(s) \/ (\E c \in BOOLEAN : LateEmit(s, c)) \/ MonitorHandle
              => Connected' = (svcConnected'["discord"] /\ svcConnected'["mumble"])
    BY DEF Emit, LateEmit, EmitConnectionEvent, MonitorHandle
  <1>5. EndSession \/ ClearFlags => Connected' = FALSE
    BY DEF EndSession, ClearFlags
  <1>6. ASSUME NEW s \in Service
        PROVE (\/ \E new \in Status : SwapStatus(s, new)
               \/ LockAndRecheck(s) \/ TrySend(s) \/ DropOldest(s) \/ RetrySend(s)
               \/ MonitorTake(s)) => UNCHANGED <<Connected, svcConnected>>
    BY DEF SwapStatus, LockAndRecheck, TrySend, DropOldest, RetrySend, MonitorTake, bridgeVars
  <1>7. \/ MonitorExit \/ (\E found \in BOOLEAN : PopulateDone(found)) \/ StartBridge \/ FailInit
        \/ BeginSession \/ CancelConnections \/ StopDiscord \/ StopMumble \/ UNCHANGED vars
        => UNCHANGED <<Connected, svcConnected>>
    BY DEF MonitorExit, PopulateDone, StartBridge, FailInit, BeginSession, CancelConnections,
           StopDiscord, StopMumble, vars, bridgeVars
  <1>8. "discord" \in Service
    BY DEF Service
  <1> QED
    BY StepCases, <1>1, <1>2, <1>3, <1>4, <1>5, <1>6, <1>7, <1>8

(* The guard of StartBridge lets nobody in while one is waiting or runs.   *)
LEMMA OneStartStep == TypeOK /\ OneStart /\ [Next]_vars => OneStart'
  <1> SUFFICES ASSUME TypeOK, OneStart, [Next]_vars PROVE OneStart'
    OBVIOUS
  <1>1. ASSUME UNCHANGED <<session, waiting, BridgeActive>> PROVE OneStart'
    BY <1>1 DEF OneStart, ActiveCoversSession
  <1>2. ASSUME NEW s \in Service
        PROVE (\/ \E new \in Status : SwapStatus(s, new)
               \/ LockAndRecheck(s) \/ TrySend(s) \/ DropOldest(s) \/ RetrySend(s)
               \/ Emit(s) \/ MonitorTake(s) \/ \E c \in BOOLEAN : LateEmit(s, c))
              => UNCHANGED <<session, waiting, BridgeActive>>
    BY DEF SwapStatus, LockAndRecheck, TrySend, DropOldest, RetrySend, Emit, MonitorTake,
           LateEmit, EmitConnectionEvent, bridgeVars, sessionVars
  <1>3. \/ MonitorHandle \/ MonitorExit \/ (\E found \in BOOLEAN : PopulateDone(found))
        \/ UNCHANGED vars
        => UNCHANGED <<session, waiting, BridgeActive>>
    BY DEF MonitorHandle, MonitorExit, PopulateDone, vars, bridgeVars, sessionVars
  <1>4. ASSUME StartBridge PROVE OneStart'
    BY <1>4 DEF StartBridge, OneStart, ActiveCoversSession
  <1>5. ASSUME BeginSession PROVE OneStart'
    <2>1. BridgeActive /\ BridgeActive' = BridgeActive /\ waiting' = FALSE
      BY <1>5 DEF BeginSession, OneStart, ActiveCoversSession
    <2> QED
      BY <2>1 DEF OneStart, ActiveCoversSession
  <1>6. ASSUME EndSession PROVE OneStart'
    <2>1. waiting' = waiting /\ ~waiting /\ session' = "ending"
      BY <1>6 DEF EndSession, OneStart, ActiveCoversSession
    <2> QED
      BY <2>1 DEF OneStart, ActiveCoversSession
  <1>7. ASSUME CancelConnections \/ StopDiscord \/ StopMumble PROVE OneStart'
    BY <1>7 DEF CancelConnections, StopDiscord, StopMumble, bridgeVars, OneStart,
                ActiveCoversSession
  <1>8. ASSUME ClearFlags PROVE OneStart'
    BY <1>8 DEF ClearFlags, OneStart, ActiveCoversSession
  <1>9. ASSUME FailInit PROVE OneStart'
    BY <1>9 DEF FailInit, bridgeVars, OneStart, ActiveCoversSession
  <1> QED
    BY StepCases, <1>1, <1>2, <1>3, <1>4, <1>5, <1>6, <1>7, <1>8, <1>9

(* With a sleep that is long enough, nothing writes a flag between two     *)
(* sessions: the managers are closed, their goroutines done, the monitor   *)
(* gone.                                                                   *)
LEMMA QuietStep == TypeOK /\ Phases /\ Quiet /\ [Next]_vars => Quiet'
  <1> SUFFICES ASSUME TypeOK, Phases, Quiet, [Next]_vars, SleepCoversEmit
               PROVE  /\ \A s \in Service : late'[s] = {}
                      /\ session' = "none" =>
                           \A s \in Service : pc'[s] = "idle" /\ ~svcConnected'[s]
    BY DEF Quiet
  <1>0. /\ \A s \in Service : late[s] = {}
        /\ session = "none" => /\ monitor = "exited"
                               /\ \A s \in Service : pc[s] = "idle" /\ ~svcConnected[s]
                               /\ \A s \in Service : closed[s]
    BY DEF Quiet, Phases, Service
  <1>t. /\ pc \in [Service -> {"idle", "swapped", "sent"} \cup HoldsEventMutex]
        /\ svcConnected \in [Service -> BOOLEAN]
    BY DEF TypeOK, ManagersOK, FlagsOK
  <1>1. CASE UNCHANGED <<late, pc, svcConnected>> /\ (session' = "none" => session = "none")
    BY <1>0, <1>1
  <1>2. ASSUME NEW s \in Service
        PROVE (\/ \E new \in Status : SwapStatus(s, new)
               \/ LockAndRecheck(s) \/ TrySend(s) \/ DropOldest(s) \/ RetrySend(s)
               \/ Emit(s))
              => /\ session # "none" /\ UNCHANGED session /\ UNCHANGED late
    BY <1>0 DEF SwapStatus, LockAndRecheck, TrySend, DropOldest, RetrySend, Emit, sessionVars
  <1>3. ASSUME NEW s \in Service, NEW c \in BOOLEAN PROVE ~LateEmit(s, c)
    BY <1>0 DEF LateEmit
  <1>4. MonitorHandle => session # "none" /\ UNCHANGED <<session, late>>
    BY <1>0 DEF MonitorHandle, managerVars
  <1>5. CASE ClearFlags
    BY <1>0, <1>5 DEF ClearFlags, RetireManagers
  <1>6. \/ (\E s \in Service : MonitorTake(s)) \/ MonitorExit
        \/ (\E found \in BOOLEAN : PopulateDone(found)) \/ StartBridge \/ FailInit
        \/ BeginSession \/ EndSession \/ CancelConnections \/ UNCHANGED vars
        => UNCHANGED <<late, pc, svcConnected>> /\ (session' = "none" => session = "none")
    BY DEF MonitorTake, MonitorExit, PopulateDone, StartBridge, FailInit, BeginSession, EndSession,
           CancelConnections, vars, managerVars, bridgeVars, sessionVars
  <1>7. StopDiscord \/ StopMumble
        => UNCHANGED <<late, pc, svcConnected>> /\ (session' = "none" => session = "none")
    BY DEF StopDiscord, StopMumble, CloseManager, bridgeVars
  <1> QED
    BY StepCases, <1>0, <1>1, <1>2, <1>3, <1>4, <1>5, <1>6, <1>7

(* No manager's goroutine moves between sessions: its channels are closed. *)
LEMMA FreshStep == TypeOK /\ Phases /\ Fresh /\ [Next]_vars => Fresh'
  <1> SUFFICES ASSUME TypeOK, Phases, Fresh, [Next]_vars, session' = "none"
               PROVE  \A s \in Service : /\ status'[s] = "Disconnected" /\ queue'[s] = <<>>
                                         /\ pc'[s] = "idle"
    BY DEF Fresh
  <1>1. CASE UNCHANGED <<status, queue, pc>> /\ session = "none"
    BY <1>1 DEF Fresh
  <1>2. ASSUME NEW s \in Service
        PROVE (\/ \E new \in Status : SwapStatus(s, new)
               \/ LockAndRecheck(s) \/ TrySend(s) \/ DropOldest(s) \/ RetrySend(s)
               \/ Emit(s) \/ MonitorTake(s)) => session # "none" /\ UNCHANGED session
    <2>1. session = "none" => pc[s] = "idle" /\ closed[s] /\ queue[s] = <<>>
      BY DEF Fresh, Phases, Service
    <2> QED
      BY <2>1 DEF SwapStatus, LockAndRecheck, TrySend, DropOldest, RetrySend, Emit,
                  MonitorTake, sessionVars
  <1>3. \/ MonitorHandle \/ MonitorExit \/ (\E found \in BOOLEAN : PopulateDone(found))
        \/ StartBridge \/ FailInit \/ UNCHANGED vars
        \/ (\E s \in Service, c \in BOOLEAN : LateEmit(s, c))
        => UNCHANGED <<status, queue, pc, session>>
    BY DEF MonitorHandle, MonitorExit, PopulateDone, StartBridge, FailInit, LateEmit, vars,
           managerVars, sessionVars
  <1>4. BeginSession \/ EndSession \/ CancelConnections \/ StopDiscord \/ StopMumble
        => session' # "none"
    BY DEF BeginSession, EndSession, CancelConnections, StopDiscord, StopMumble
  <1>5. CASE ClearFlags
    BY <1>5 DEF ClearFlags, RetireManagers
  <1> QED
    BY StepCases, <1>1, <1>2, <1>3, <1>4, <1>5

LEMMA NewestAppend ==
  ASSUME NEW q \in Seq(Status), NEW x \in Status
  PROVE  Append(q, x) # <<>> /\ Newest(Append(q, x)) = x
  BY DEF Newest

LEMMA NewestTail ==
  ASSUME NEW q \in Seq(Status), q # <<>>
  PROVE  /\ Tail(q) # <<>> => Newest(Tail(q)) = Newest(q)
         /\ Tail(q) = <<>> => Head(q) = Newest(q)
  <1>1. /\ Tail(q) \in Seq(Status) /\ Len(Tail(q)) = Len(q) - 1 /\ Head(q) = q[1]
        /\ \A i \in 1 .. Len(q) - 1 : Tail(q)[i] = q[i + 1]
    BY HeadTailProperties
  <1>2. Len(q) \in Nat /\ Len(q) # 0
    BY EmptySeq, LenProperties
  <1>3. CASE Tail(q) = <<>>
    <2>1. Len(Tail(q)) = 0
      BY <1>3, EmptySeq
    <2>2. Len(q) = 1
      <3> DEFINE n == Len(q)  m == Len(Tail(q))
      <3>1. n \in Nat /\ m = n - 1 /\ m = 0
        BY <1>1, <1>2, <2>1
      <3> HIDE DEF n, m
      <3>2. n = 1
        BY <3>1
      <3> QED
        BY <3>2 DEF n
    <2>3. Head(q) = q[Len(q)]
      BY <1>1, <2>2
    <2> QED
      BY <1>3, <2>3, Zenon DEF Newest
  <1>4. CASE Tail(q) # <<>>
    <2>1. Len(Tail(q)) # 0
      BY <1>1, <1>4, EmptySeq
    <2>2. Len(q) - 1 \in 1 .. Len(q) - 1 /\ (Len(q) - 1) + 1 = Len(q)
      BY <1>1, <1>2, <2>1
    <2>3. Tail(q)[Len(q) - 1] = q[Len(q)]
      BY <1>1, <2>2
    <2> QED
      BY <1>1, <1>4, <2>3 DEF Newest
  <1> QED
    BY <1>3, <1>4

(* A step that touches neither the flag of r nor what is under way for it. *)
LEMMA SameAgrees ==
  ASSUME NEW r \in Service, Agrees(r),
         UNCHANGED <<queue[r], status[r], pc[r], svcConnected[r]>>,
         (monitor' = "handling" /\ hand'[1] = r) = (monitor = "handling" /\ hand[1] = r),
         monitor = "handling" /\ hand[1] = r => hand' = hand
  PROVE  Agrees(r)'
  BY DEF Agrees

(* The two ways to the flag of a service agree in the end.  The swap makes *)
(* a claim the sender then carries; whoever takes an event passes the      *)
(* claim on; the last one to hold it writes the flag.                      *)
LEMMA TrackingStep ==
  TypeOK /\ Phases /\ Quiet /\ Fresh /\ Tracking /\ [Next]_vars => Tracking'
  <1> SUFFICES ASSUME TypeOK, Phases, Quiet, Fresh, Tracking, [Next]_vars, SleepCoversEmit,
                      session' \in {"running", "ending"}, NEW r \in Service,
                      pc'[r] \in {"idle", "sent"}, ~lost'[r]
               PROVE  Agrees(r)'
    BY DEF Tracking
  <1>0. /\ status \in [Service -> Status] /\ queue \in [Service -> Seq(Status)]
        /\ pc \in [Service -> {"idle", "swapped", "sent"} \cup HoldsEventMutex]
        /\ lost \in [Service -> BOOLEAN] /\ closed \in [Service -> BOOLEAN]
        /\ svcConnected \in [Service -> BOOLEAN]
        /\ hand \in Service \X Status
        /\ \A s \in Service : late[s] = {}
    BY DEF TypeOK, ManagersOK, FlagsOK, GoroutinesOK, Quiet
  <1>1. session \in {"running", "ending"} /\ pc[r] \in {"idle", "sent"} /\ ~lost[r]
        => Agrees(r)
    BY DEF Tracking
  <1>2. session \in {"running", "ending"} => ~closed[r]
    BY DEF Phases, Service
  <1>q. /\ queue[r] \in Seq(Status) /\ status[r] \in Status
        /\ Append(queue[r], status[r]) # <<>>
        /\ Newest(Append(queue[r], status[r])) = status[r]
    BY <1>0, NewestAppend
  <1>3. ASSUME NEW s \in Service, s # r,
               \/ \E new \in Status : SwapStatus(s, new)
               \/ LockAndRecheck(s) \/ TrySend(s) \/ DropOldest(s) \/ RetrySend(s) \/ Emit(s)
        PROVE  Agrees(r)'
    <2>1. /\ UNCHANGED <<queue[r], status[r], pc[r], svcConnected[r], lost[r]>>
          /\ UNCHANGED sessionVars
      BY <1>0, <1>3 DEF SwapStatus, LockAndRecheck, TrySend, DropOldest, RetrySend, Emit,
                        EmitConnectionEvent, bridgeVars
    <2>2. UNCHANGED <<session, monitor, hand>>
      BY <2>1 DEF sessionVars
    <2> QED
      BY <1>1, <2>1, <2>2, SameAgrees
  <1>4. ASSUME NEW new \in Status, SwapStatus(r, new) PROVE FALSE
    BY <1>0, <1>4 DEF SwapStatus
  <1>5. ASSUME LockAndRecheck(r) PROVE FALSE
    BY <1>0, <1>2, <1>5 DEF LockAndRecheck, sessionVars
  <1>6. ASSUME TrySend(r) PROVE Agrees(r)'
    <2>1. queue'[r] = Append(queue[r], status[r]) /\ status' = status
      BY <1>0, <1>6 DEF TrySend
    <2> QED
      BY <1>q, <2>1, Zenon DEF Agrees
  <1>7. ASSUME DropOldest(r) PROVE FALSE
    BY <1>0, <1>7 DEF DropOldest
  <1>8. ASSUME RetrySend(r) PROVE Agrees(r)'
    <2>1. queue'[r] = Append(queue[r], status[r]) /\ status' = status
      BY <1>0, <1>8 DEF RetrySend
    <2> QED
      BY <1>q, <2>1, Zenon DEF Agrees
  <1>9. ASSUME Emit(r) PROVE Agrees(r)'
    <2>1. /\ pc[r] = "sent" /\ UNCHANGED <<queue, status, lost, session, monitor, hand>>
          /\ svcConnected'[r] = (status[r] = "Connected")
      BY <1>0, <1>9 DEF Emit, EmitConnectionEvent, sessionVars
    <2>2. Agrees(r)
      BY <1>1, <2>1
    <2> QED
      BY <2>1, <2>2 DEF Agrees
  <1>10. ASSUME NEW s \in Service, MonitorTake(s) PROVE Agrees(r)'
    <2>1. /\ monitor = "select" /\ queue[s] # <<>> /\ monitor' = "handling"
          /\ hand' = <<s, Head(queue[s])>>
          /\ queue' = [queue EXCEPT ![s] = Tail(queue[s])]
          /\ UNCHANGED <<status, pc, lost, svcConnected, session>>
      BY <1>10 DEF MonitorTake, bridgeVars
    <2>2. Agrees(r)
      BY <1>1, <2>1
    <2>3. CASE s # r
      BY <1>0, <2>1, <2>2, <2>3, SameAgrees
    <2>4. CASE s = r
      <3>1. Newest(queue[r]) = status[r]
        BY <2>1, <2>2, <2>4 DEF Agrees
      <3>2. /\ Tail(queue[r]) # <<>> => Newest(Tail(queue[r])) = Newest(queue[r])
            /\ Tail(queue[r]) = <<>> => Head(queue[r]) = Newest(queue[r])
        BY <1>q, <2>1, <2>4, NewestTail
      <3>3. queue'[r] = Tail(queue[r]) /\ hand'[1] = r /\ hand'[2] = Head(queue[r])
        BY <1>0, <2>1, <2>4
      <3> QED
        BY <2>1, <3>1, <3>2, <3>3 DEF Agrees
    <2> QED
      BY <2>3, <2>4
  <1>11. ASSUME MonitorHandle PROVE Agrees(r)'
    <2>1. /\ monitor = "handling" /\ monitor' = "select"
          /\ svcConnected' = [svcConnected EXCEPT ![hand[1]] = hand[2] = "Connected"]
          /\ UNCHANGED <<queue, status, pc, lost, session>>
      BY <1>11 DEF MonitorHandle, managerVars
    <2>2. Agrees(r)
      BY <1>1, <2>1
    <2>3. CASE hand[1] # r
      <3>1. svcConnected'[r] = svcConnected[r]
        BY <1>0, <2>1, <2>3
      <3> QED
        BY <2>1, <2>2, <2>3, <3>1, SameAgrees
    <2>4. CASE hand[1] = r
      <3>1. svcConnected'[r] = (hand[2] = "Connected")
        BY <1>0, <2>1, <2>4
      <3> QED
        BY <2>1, <2>2, <2>4, <3>1 DEF Agrees
    <2> QED
      BY <2>3, <2>4
  <1>12. ASSUME BeginSession PROVE Agrees(r)'
    <2>1. /\ status[r] = "Disconnected" /\ queue[r] = <<>> /\ ~svcConnected[r]
          /\ monitor' = "select" /\ UNCHANGED <<status, queue, svcConnected>>
      BY <1>12 DEF BeginSession, Fresh, Quiet
    <2> QED
      BY <2>1 DEF Agrees
  <1>13. ASSUME UNCHANGED <<queue, status, pc, lost, svcConnected, monitor, hand>>,
                session \in {"running", "ending"}
         PROVE  Agrees(r)'
    BY <1>1, <1>13, SameAgrees
  <1>14. \/ (\E found \in BOOLEAN : PopulateDone(found)) \/ StartBridge \/ FailInit \/ EndSession
         \/ UNCHANGED vars
         => /\ UNCHANGED <<queue, status, pc, lost, svcConnected, monitor, hand>>
            /\ session \in {"running", "ending"}
    BY DEF PopulateDone, StartBridge, FailInit, EndSession, vars, managerVars, bridgeVars, sessionVars
  <1>15. /\ ~MonitorExit /\ ~CancelConnections /\ ~StopDiscord /\ ~StopMumble /\ ~ClearFlags
         /\ \A s \in Service, c \in BOOLEAN : ~LateEmit(s, c)
    BY <1>0 DEF MonitorExit, CancelConnections, StopDiscord, StopMumble, ClearFlags, LateEmit
  <1> QED
    BY StepCases, <1>3, <1>4, <1>5, <1>6, <1>7, <1>8, <1>9, <1>10, <1>11, <1>12, <1>13,
       <1>14, <1>15

-------------------------------------------------------------------------------
(* The theorems.                                                           *)

LEMMA IInvInit == Init => IInv
  <1> SUFFICES ASSUME Init PROVE IInv
    OBVIOUS
  <1>1. TypeOK
    BY TypeInit
  <1>2. Phases /\ NoSendOnClosed /\ RetryHasRoom
    BY DEF Init, Phases, NoSendOnClosed, RetryHasRoom, HoldsEventMutex, Service
  <1>3. ConnectedImpliesBoth /\ OneStart
    BY DEF Init, ConnectedImpliesBoth, OneStart, ActiveCoversSession
  <1>4. Quiet /\ Fresh
    BY DEF Init, Quiet, Fresh
  <1>5. Tracking
    BY DEF Init, Tracking
  <1> QED
    BY <1>1, <1>2, <1>3, <1>4, <1>5 DEF IInv

LEMMA IInvStep == IInv /\ [Next]_vars => IInv'
  BY TypeStep, PhasesStep, SenderStep, BothStep, OneStartStep, QuietStep, FreshStep,
     TrackingStep DEF IInv

(* The inductive invariant the safety theorems rest on.                    *)
THEOREM IInvCorrect == Spec => []IInv
  BY IInvInit, IInvStep, PTL DEF Spec

(* SetStatus never sends on a channel that Stop has closed, and never      *)
(* fills it over its capacity, whatever that is: eventMutex covers the     *)
(* second check and the send.                                              *)
THEOREM SendSafe == Spec => []ChannelsInv
  <1>1. IInv => ChannelsInv
    BY DEF IInv, ChannelsInv
  <1> QED
    BY IInvCorrect, <1>1, PTL

(* Dropping the oldest event always makes room for the new one: nobody     *)
(* else sends while eventMutex is held, and the monitor only takes.        *)
THEOREM RoomAfterDrop == Spec => []RetryHasRoom
  <1>1. IInv => RetryHasRoom
    BY DEF IInv
  <1> QED
    BY IInvCorrect, <1>1, PTL

(* No channel is closed while the monitor reads it.                        *)
THEOREM MonitorOutlived == Spec => []MonitorGoneBeforeClose
  <1>1. IInv => MonitorGoneBeforeClose
    <2> SUFFICES ASSUME IInv, NEW s \in Service, closed[s] PROVE monitor = "exited"
      BY DEF MonitorGoneBeforeClose
    <2>1. session \in {"none", "running", "ending", "cancelled", "discordStopped",
                       "mumbleStopped"}
      BY DEF IInv, TypeOK, GoroutinesOK
    <2>2. s = "discord" \/ s = "mumble"
      BY DEF Service
    <2> QED
      BY <2>1, <2>2 DEF IInv, Phases
  <1> QED
    BY IInvCorrect, <1>1, PTL

(* Connected never claims more than the two flags, although four actions   *)
(* of three goroutines write them.                                         *)
THEOREM SummaryHonest == Spec => []ConnectedImpliesBoth
  <1>1. IInv => ConnectedImpliesBoth
    BY DEF IInv
  <1> QED
    BY IInvCorrect, <1>1, PTL

(* From the guard of StartBridge to the session's end the bridge reads as  *)
(* active, however the end of one session overlaps the start of the next.  *)
THEOREM ActiveThroughout == Spec => []ActiveCoversSession
  <1>1. IInv => ActiveCoversSession
    BY DEF IInv, OneStart
  <1> QED
    BY IInvCorrect, <1>1, PTL

(* When nothing is under way for a service and its newest event was not    *)
(* lost, its flag is right, whatever was dropped and in whichever order    *)
(* the emitter and the monitor wrote.                                      *)
THEOREM FlagsRight == Spec => []FlagsAccurate
  <1>1. IInv => FlagsAccurate
    <2> SUFFICES ASSUME IInv, SleepCoversEmit, NEW s \in Service, Settled(s), ~lost[s]
                 PROVE  svcConnected[s] <=> status[s] = "Connected"
      BY DEF FlagsAccurate
    <2>1. Agrees(s)
      BY DEF IInv, Tracking, Settled
    <2> QED
      BY <2>1 DEF Agrees, Settled
  <1> QED
    BY IInvCorrect, <1>1, PTL

(* Between sessions nothing reads as connected, if the sleep at the end of *)
(* a session outlasts the last EmitConnectionEvent.                        *)
THEOREM StoppedClean == Spec => []StoppedMeansDisconnected
  <1>1. IInv => StoppedMeansDisconnected
    <2> SUFFICES ASSUME IInv, SleepCoversEmit, session = "none"
                 PROVE  ~Connected /\ \A s \in Service : ~svcConnected[s]
      BY DEF StoppedMeansDisconnected
    <2>1. \A s \in Service : ~svcConnected[s]
      BY DEF IInv, Quiet
    <2>2. "discord" \in Service
      BY DEF Service
    <2> QED
      BY <2>1, <2>2 DEF IInv, ConnectedImpliesBoth
  <1> QED
    BY IInvCorrect, <1>1, PTL

===============================================================================
