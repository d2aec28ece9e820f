---------------------------- MODULE EventDispatcher ----------------------------
(***************************************************************************)
(* The library's event dispatcher (pkg/bridgelib/events.go) as a bridge    *)
(* instance uses it (pkg/bridgelib/bridge.go: New, Start, Stop).           *)
(*                                                                         *)
(* Any goroutine emits: a non-blocking send to a bounded channel, with the *)
(* oldest event dropped when it is full.  processEvents takes the events   *)
(* and starts a goroutine per handler.  Stop emits two events past the     *)
(* channel, closes stopChan and waits until processEvents has drained the  *)
(* channel.  The instance may be started again; its dispatcher is not.     *)
(*                                                                         *)
(* An event is the number of its emission; one handler is registered.      *)
(***************************************************************************)
EXTENDS Naturals, Sequences, FiniteSets, SequencesExt

CONSTANTS
  Emitter,      (* the goroutines that call EmitEvent                         *)
  BufferSize,   (* capacity of eventChan (at least 100 in the code)           *)
  MaxEvents,    (* bound: events that are ever emitted                        *)
  MaxStops      (* bound: calls of Stop                                       *)

ASSUME BufferAssumption == BufferSize \in Nat \ {0}
ASSUME BoundsAssumption == MaxEvents \in Nat /\ MaxStops \in Nat /\ IsFiniteSet(Emitter)

VARIABLES
  emitted,        (* how many events there have been                          *)
  eventChan,
  epc, event,     (* where each emitter is in EmitEvent, and with which event *)
  droppedEvents,
  lost,           (* history: the events that were given up                   *)
  started,        (* events whose handler goroutine was started               *)
  worker,         (* processEvents: in its select, draining, or returned      *)
  stopChan,       (* "open" or "closed"                                       *)
  host, stopped,  (* where the host is in Stop; the instance's flag           *)
  stops, panic,
  before          (* history: what was in the channel when Stop closed        *)

emitVars   == <<epc, event, droppedEvents, lost>>
workerVars == <<started, worker>>
hostVars   == <<stopChan, host, stopped, stops, panic, before>>
vars == <<emitted, eventChan, emitVars, workerVars, hostVars>>

Event == 1 .. MaxEvents

TypeOK ==
  /\ emitted \in 0 .. MaxEvents
  /\ eventChan \in Seq(Event) /\ Len(eventChan) <= BufferSize
  /\ epc \in [Emitter -> {"idle", "send", "full", "retry"}]
  /\ event \in [Emitter -> 0 .. MaxEvents]
  /\ droppedEvents \in Nat /\ lost \subseteq Event
  /\ started \subseteq Event
  /\ worker \in {"select", "draining", "done"}
  /\ stopChan \in {"open", "closed"}
  /\ host \in {"idle", "stopping", "closing", "waiting"}
  /\ stopped \in BOOLEAN /\ stops \in 0 .. MaxStops
  /\ panic \in {"none", "closeOfClosed"}
  /\ before \subseteq Event

Init ==
  /\ emitted = 0 /\ eventChan = <<>>
  /\ epc = [e \in Emitter |-> "idle"] /\ event = [e \in Emitter |-> 0]
  /\ droppedEvents = 0 /\ lost = {} /\ started = {}
  /\ worker = "select" /\ stopChan = "open"
  /\ host = "idle" /\ stopped = FALSE /\ stops = 0 /\ panic = "none"
  /\ before = {}

-------------------------------------------------------------------------------
(* EmitEvent.                                                              *)

EmitEvent(e) ==
  /\ epc[e] = "idle" /\ emitted < MaxEvents
  /\ emitted' = emitted + 1
  /\ event' = [event EXCEPT ![e] = emitted']
  /\ epc' = [epc EXCEPT ![e] = "send"]
  /\ UNCHANGED <<eventChan, droppedEvents, lost, workerVars, hostVars>>

TrySend(e) ==
  /\ epc[e] = "send"
  /\ IF Len(eventChan) < BufferSize
     THEN /\ eventChan' = Append(eventChan, event[e])
          /\ epc' = [epc EXCEPT ![e] = "idle"]
     ELSE /\ epc' = [epc EXCEPT ![e] = "full"]
          /\ UNCHANGED eventChan
  /\ UNCHANGED <<emitted, event, droppedEvents, lost, workerVars, hostVars>>

(* The buffer was full: receive the oldest event, or give up this one when *)
(* there is none any more.  Either is counted.                             *)
DropOldest(e) ==
  /\ epc[e] = "full"
  /\ droppedEvents' = droppedEvents + 1
  /\ IF eventChan # <<>>
     THEN /\ lost' = lost \cup {Head(eventChan)}
          /\ eventChan' = Tail(eventChan)
          /\ epc' = [epc EXCEPT ![e] = "retry"]
     ELSE /\ lost' = lost \cup {event[e]}
          /\ epc' = [epc EXCEPT ![e] = "idle"]
          /\ UNCHANGED eventChan
  /\ UNCHANGED <<emitted, event, workerVars, hostVars>>

(* Mutant of Retry: what was given up here is forgotten.                   *)
RetryForgets(e) ==
  /\ epc[e] = "retry"
  /\ IF Len(eventChan) < BufferSize
     THEN eventChan' = Append(eventChan, event[e])
     ELSE UNCHANGED eventChan
  /\ epc' = [epc EXCEPT ![e] = "idle"]
  /\ UNCHANGED <<emitted, event, droppedEvents, lost, workerVars, hostVars>>

(* Another emitter may have taken the room: then this event is given up as *)
(* well, and that is not counted.                                          *)
Retry(e) ==
  /\ epc[e] = "retry"
  /\ IF Len(eventChan) < BufferSize
     THEN eventChan' = Append(eventChan, event[e]) /\ UNCHANGED lost
     ELSE lost' = lost \cup {event[e]} /\ UNCHANGED eventChan
  /\ epc' = [epc EXCEPT ![e] = "idle"]
  /\ UNCHANGED <<emitted, event, droppedEvents, workerVars, hostVars>>

-------------------------------------------------------------------------------
(* processEvents and the handlers.                                         *)

(* dispatchEvent, for the oldest event in the channel.                     *)
Dispatch ==
  /\ worker \in {"select", "draining"} /\ eventChan # <<>>
  /\ started' = started \cup {Head(eventChan)}
  /\ eventChan' = Tail(eventChan)
  /\ UNCHANGED <<emitted, emitVars, worker, hostVars>>

(* Mutant of SeeStop: processEvents returns without draining.              *)
SeeStopReturns ==
  /\ worker = "select" /\ stopChan = "closed"
  /\ worker' = "done"
  /\ UNCHANGED <<emitted, eventChan, emitVars, started, hostVars>>

(* Mutant of SeeStop: stopChan is looked at only when an event came.   *)
SeeStopNever ==
  /\ worker = "select" /\ stopChan = "closed" /\ eventChan # <<>>
  /\ worker' = "draining"
  /\ UNCHANGED <<emitted, eventChan, emitVars, started, hostVars>>

(* The select may take either case that is ready.                          *)
SeeStop ==
  /\ worker = "select" /\ stopChan = "closed"
  /\ worker' = "draining"
  /\ UNCHANGED <<emitted, eventChan, emitVars, started, hostVars>>

Drained ==
  /\ worker = "draining" /\ eventChan = <<>>
  /\ worker' = "done"
  /\ UNCHANGED <<emitted, eventChan, emitVars, started, hostVars>>

-------------------------------------------------------------------------------
(* The host: Start and Stop of the instance.                               *)

(* EmitEventSync dispatches at once.                                       *)
EmitEventSync ==
  /\ emitted < MaxEvents
  /\ emitted' = emitted + 1
  /\ started' = started \cup {emitted'}

(* Start of a stopped instance only resets its flag.                       *)
HostRestart ==
  /\ host = "idle" /\ stopped /\ stops < MaxStops
  /\ stopped' = FALSE
  /\ UNCHANGED <<emitted, eventChan, emitVars, workerVars, stopChan, host, stops, panic, before>>

(* Stop: EventBridgeStopping, ...                                          *)
StopBegin ==
  /\ host = "idle" /\ ~stopped /\ stops < MaxStops
  /\ EmitEventSync
  /\ stops' = stops + 1 /\ stopped' = TRUE
  /\ host' = "stopping"
  /\ UNCHANGED <<eventChan, emitVars, worker, stopChan, panic, before>>

(* ... EventBridgeStopped, ...                                             *)
StopTold ==
  /\ host = "stopping"
  /\ EmitEventSync
  /\ host' = "closing"
  /\ UNCHANGED <<eventChan, emitVars, worker, stopChan, stopped, stops, panic, before>>

(* ... EventDispatcher.Stop: close(stopChan), which panics the second time *)
CloseStop ==
  /\ host = "closing"
  /\ panic' = IF stopChan = "closed" THEN "closeOfClosed" ELSE panic
  /\ before' = ToSet(eventChan)
  /\ stopChan' = "closed" /\ host' = "waiting"
  /\ UNCHANGED <<emitted, eventChan, emitVars, workerVars, stopped, stops>>

(* ... and the wait for processEvents.                                     *)
StopReturn ==
  /\ host = "waiting" /\ worker = "done"
  /\ host' = "idle"
  /\ UNCHANGED <<emitted, eventChan, emitVars, workerVars, stopChan, stopped, stops, panic, before>>

-------------------------------------------------------------------------------

Emit(e) == EmitEvent(e) \/ TrySend(e) \/ DropOldest(e) \/ Retry(e)
Worker  == Dispatch \/ SeeStop \/ Drained
Host    == HostRestart \/ StopBegin \/ StopTold \/ CloseStop \/ StopReturn

Next ==
  /\ panic = "none"
  /\ (\E e \in Emitter : Emit(e)) \/ Worker \/ Host

(* The worker goes on, and so does a Stop that began.                      *)
Fairness ==
  /\ WF_vars(panic = "none" /\ (Dispatch \/ Drained)) /\ SF_vars(panic = "none" /\ SeeStop)
  /\ WF_vars(panic = "none" /\ (CloseStop \/ StopReturn))

Spec == Init /\ [][Next]_vars
FairSpec == Spec /\ Fairness

-------------------------------------------------------------------------------
(* Properties.                                                             *)

(* An emitter's event that is on its way in (not counted as lost yet).     *)
InHand == {event[e] : e \in {f \in Emitter : epc[f] # "idle"}}

(* No event disappears: it is with its emitter, in the channel, handed to  *)
(* the handlers or given up, and only one of these.                        *)
EveryEventSomewhere ==
  /\ 1 .. emitted = InHand \cup ToSet(eventChan) \cup started \cup lost
  /\ Len(eventChan) = Cardinality(ToSet(eventChan))
  /\ started \cap (lost \cup ToSet(eventChan) \cup InHand) = {}
  /\ lost \cap (ToSet(eventChan) \cup InHand) = {}

(* The counter of dropped events is never ahead of the loss, and what it   *)
(* misses (events given up on the retry) is at most as much as it counts.  *)
LossWithinTwiceCounted ==
  droppedEvents <= Cardinality(lost) /\ Cardinality(lost) <= 2 * droppedEvents

(* The parts of the invariant.                                             *)
EventsInv == TypeOK /\ EveryEventSomewhere /\ LossWithinTwiceCounted

(* When Stop returns, whatever was in the channel when it closed stopChan  *)
(* has gone to the handlers, or was dropped for a later event.             *)
StopDrains == host = "idle" /\ stopChan = "closed" => before \subseteq started \cup lost

(* Stop returns once the emitters fall silent, whatever they emitted until *)
(* then and without any of them learning that the dispatcher stops.  (The  *)
(* premise is needed: the loop that drains leaves on an empty channel only, *)
(* and emitters that go on can refill it for ever.  In a run MaxEvents     *)
(* silences them; the property does not lean on it.)                       *)
StopReturns ==
  <>[][emitted' = emitted]_vars => (host = "closing" ~> host = "idle" \/ panic # "none")

===============================================================================
