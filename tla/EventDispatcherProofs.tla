-------------------------- MODULE EventDispatcherProofs --------------------------
(***************************************************************************)
(* The safety of EventDispatcher, for any number of emitters, any capacity *)
(* of the channel and any number of events and of stops: no event          *)
(* disappears, the counter of drops tells half of the loss at least, and   *)
(* Stop drains what it found.                                              *)
(***************************************************************************)
EXTENDS EventDispatcher, SequenceTheorems, FiniteSetTheorems, TLAPS

Chan == ToSet(eventChan)

Retrying == {e \in Emitter : epc[e] = "retry"}

(* An event is with one emitter, and once in the channel.                  *)
HeldOnce ==
  /\ \A e, f \in Emitter :
       epc[e] # "idle" /\ epc[f] # "idle" /\ event[e] = event[f] => e = f
  /\ \A i, j \in 1 .. Len(eventChan) : eventChan[i] = eventChan[j] => i = j

(* And at one place.                                                       *)
OnePlace ==
  /\ 1 .. emitted = InHand \cup Chan \cup started \cup lost
  /\ started \cap (lost \cup Chan \cup InHand) = {}
  /\ lost \cap (Chan \cup InHand) = {}
  /\ Chan \cap InHand = {}

(* Who retries gave up an event that is counted, and may give up another.  *)
LossCounted ==
  /\ droppedEvents <= Cardinality(lost)
  /\ Cardinality(lost) + Cardinality(Retrying) <= 2 * droppedEvents

(* processEvents goes when Stop was called, and leaves nothing behind of   *)
(* what Stop found.                                                        *)
WorkerDrains ==
  /\ before \subseteq started \cup lost \cup Chan
  /\ stopChan = "open" => worker = "select" /\ host # "waiting"
  /\ worker = "done" => before \subseteq started \cup lost \/ panic # "none"
  /\ host = "idle" /\ stopChan = "closed" => worker = "done" /\ panic = "none"

IInv == TypeOK /\ HeldOnce /\ OnePlace /\ LossCounted /\ WorkerDrains

-------------------------------------------------------------------------------
(* Sequences and sets.                                                     *)

(* A sequence is its head and its tail.                                    *)
LEMMA HeadAndTail ==
  ASSUME NEW S, NEW s \in Seq(S), s # <<>>,
         \A i, j \in 1 .. Len(s) : s[i] = s[j] => i = j
  PROVE  /\ Head(s) \in ToSet(s) /\ ToSet(Tail(s)) = ToSet(s) \ {Head(s)}
         /\ Tail(s) \in Seq(S) /\ Len(Tail(s)) = Len(s) - 1
         /\ \A i, j \in 1 .. Len(Tail(s)) : Tail(s)[i] = Tail(s)[j] => i = j
  <1>1. /\ Tail(s) \in Seq(S) /\ Len(Tail(s)) = Len(s) - 1
        /\ \A i \in 1 .. Len(Tail(s)) : Tail(s)[i] = s[i + 1]
    BY HeadTailProperties
  <1>2. Head(s) = s[1] /\ Len(s) \in Nat \ {0} /\ DOMAIN s = 1 .. Len(s)
        /\ DOMAIN Tail(s) = 1 .. Len(Tail(s))
    BY <1>1
  <1>3. \A i, j \in 1 .. Len(Tail(s)) : Tail(s)[i] = Tail(s)[j] => i = j
    BY <1>1, <1>2
  <1>4. \A x \in ToSet(Tail(s)) : x \in ToSet(s) \ {Head(s)}
    BY <1>1, <1>2 DEF ToSet
  <1>5. \A x \in ToSet(s) \ {Head(s)} : x \in ToSet(Tail(s))
    <2> SUFFICES ASSUME NEW i \in 1 .. Len(s), i # 1 PROVE s[i] \in ToSet(Tail(s))
      BY <1>2 DEF ToSet
    <2>1. i - 1 \in 1 .. Len(Tail(s)) /\ Tail(s)[i - 1] = s[i]
      BY <1>1, <1>2
    <2> QED
      BY <1>2, <2>1 DEF ToSet
  <1>6. Head(s) \in ToSet(s)
    BY <1>2 DEF ToSet
  <1> QED
    BY <1>1, <1>3, <1>4, <1>5, <1>6

(* And what is appended to it.                                             *)
LEMMA Appended ==
  ASSUME NEW S, NEW s \in Seq(S), NEW x \in S, x \notin ToSet(s),
         \A i, j \in 1 .. Len(s) : s[i] = s[j] => i = j
  PROVE  /\ Append(s, x) \in Seq(S) /\ Len(Append(s, x)) = Len(s) + 1
         /\ ToSet(Append(s, x)) = ToSet(s) \cup {x}
         /\ \A i, j \in 1 .. Len(Append(s, x)) : Append(s, x)[i] = Append(s, x)[j] => i = j
  <1> DEFINE t == Append(s, x)
  <1>1. /\ t \in Seq(S) /\ Len(t) = Len(s) + 1 /\ t[Len(s) + 1] = x
        /\ \A i \in 1 .. Len(s) : t[i] = s[i]
    BY AppendProperties
  <1>2. Len(s) \in Nat /\ DOMAIN s = 1 .. Len(s) /\ DOMAIN t = 1 .. Len(s) + 1
    BY <1>1
  <1> HIDE DEF t
  <1>3. \A i \in 1 .. Len(s) : s[i] # x
    BY <1>2 DEF ToSet
  <1>4. \A i \in 1 .. Len(t) : i \in 1 .. Len(s) \/ i = Len(s) + 1
    BY <1>1, <1>2
  <1>5. \A i, j \in 1 .. Len(t) : t[i] = t[j] => i = j
    BY <1>1, <1>3, <1>4
  <1>6. ToSet(t) = ToSet(s) \cup {x}
    BY <1>1, <1>2, <1>4 DEF ToSet
  <1> QED
    BY <1>1, <1>5, <1>6 DEF t

(* A sequence without repetition has as many elements as places.           *)
LEMMA OnceCounts ==
  ASSUME NEW S, NEW s \in Seq(S), \A i, j \in 1 .. Len(s) : s[i] = s[j] => i = j
  PROVE  Len(s) = Cardinality(ToSet(s))
  <1>1. Len(s) \in Nat /\ DOMAIN s = 1 .. Len(s)
    OBVIOUS
  <1>2. IsFiniteSet(1 .. Len(s)) /\ Cardinality(1 .. Len(s)) = Len(s)
    BY <1>1, FS_Interval
  <1>3. s \in Bijection(1 .. Len(s), ToSet(s))
    BY <1>1 DEF Bijection, Injection, Surjection, IsInjective, ToSet
  <1>4. ExistsBijection(1 .. Len(s), ToSet(s))
    BY <1>3 DEF ExistsBijection
  <1> QED
    BY <1>2, <1>4, FS_Bijection

-------------------------------------------------------------------------------
(* The hands of the emitters.                                              *)

(* An emitter that is done has nothing in its hand any more.               *)
LEMMA LeavesHand ==
  ASSUME TypeOK, HeldOnce, NEW e \in Emitter, epc[e] # "idle",
         epc' = [epc EXCEPT ![e] = "idle"], event' = event
  PROVE  /\ event[e] \in InHand /\ InHand' = InHand \ {event[e]}
         /\ \A f, g \in Emitter :
              epc'[f] # "idle" /\ epc'[g] # "idle" /\ event'[f] = event'[g] => f = g
         /\ Retrying' = Retrying \ {e}
         /\ epc' \in [Emitter -> {"idle", "send", "full", "retry"}]
  <1>1. \A f \in Emitter : epc'[f] = IF f = e THEN "idle" ELSE epc[f]
    BY DEF TypeOK
  <1>2. event[e] \in InHand
    BY DEF InHand
  <1>3. \A x \in InHand' : x \in InHand \ {event[e]}
    BY <1>1 DEF InHand, HeldOnce
  <1>4. \A x \in InHand \ {event[e]} : x \in InHand'
    BY <1>1 DEF InHand
  <1>5. Retrying' = Retrying \ {e}
    BY <1>1 DEF Retrying
  <1>6. \A f, g \in Emitter :
          epc'[f] # "idle" /\ epc'[g] # "idle" /\ event'[f] = event'[g] => f = g
    BY <1>1 DEF HeldOnce
  <1>7. epc' \in [Emitter -> {"idle", "send", "full", "retry"}]
    BY DEF TypeOK
  <1> QED
    BY <1>2, <1>3, <1>4, <1>5, <1>6, <1>7

(* One that goes on keeps it.                                              *)
LEMMA KeepsHand ==
  ASSUME TypeOK, HeldOnce, NEW e \in Emitter, epc[e] # "idle", NEW p \in {"full", "retry"},
         epc[e] # "retry", epc' = [epc EXCEPT ![e] = p], event' = event
  PROVE  /\ event[e] \in InHand /\ InHand' = InHand
         /\ \A f, g \in Emitter :
              epc'[f] # "idle" /\ epc'[g] # "idle" /\ event'[f] = event'[g] => f = g
         /\ Retrying' = IF p = "retry" THEN Retrying \cup {e} ELSE Retrying
         /\ epc' \in [Emitter -> {"idle", "send", "full", "retry"}]
  <1>1. \A f \in Emitter : epc'[f] = IF f = e THEN p ELSE epc[f]
    BY DEF TypeOK
  <1>2. \A f \in Emitter : epc'[f] # "idle" <=> epc[f] # "idle"
    BY <1>1
  <1>3. event[e] \in InHand /\ InHand' = InHand
    BY <1>2 DEF InHand
  <1>4. Retrying' = IF p = "retry" THEN Retrying \cup {e} ELSE Retrying
    BY <1>1 DEF Retrying
  <1>5. \A f, g \in Emitter :
          epc'[f] # "idle" /\ epc'[g] # "idle" /\ event'[f] = event'[g] => f = g
    BY <1>2 DEF HeldOnce
  <1>6. epc' \in [Emitter -> {"idle", "send", "full", "retry"}]
    BY DEF TypeOK
  <1> QED
    BY <1>3, <1>4, <1>5, <1>6

(* There are finitely many of both.                                        *)
LEMMA CountsAreNumbers ==
  ASSUME TypeOK
  PROVE  /\ IsFiniteSet(lost) /\ Cardinality(lost) \in Nat
         /\ IsFiniteSet(Retrying) /\ Cardinality(Retrying) \in Nat
  <1>1. IsFiniteSet(Event) /\ IsFiniteSet(Emitter)
    BY BoundsAssumption, FS_Interval DEF BoundsAssumption, Event
  <1>2. lost \in SUBSET Event /\ Retrying \in SUBSET Emitter
    BY DEF TypeOK, Retrying
  <1>3. IsFiniteSet(lost) /\ IsFiniteSet(Retrying)
    BY <1>1, <1>2, FS_Subset
  <1> QED
    BY <1>3, FS_CardinalityType

(* A retry that is over, and a loss.                                       *)
LEMMA OneRetryLess ==
  ASSUME TypeOK, NEW e
  PROVE  /\ Cardinality(Retrying \ {e}) \in Nat
         /\ Cardinality(Retrying \ {e}) <= Cardinality(Retrying)
         /\ e \in Retrying => Cardinality(Retrying \ {e}) + 1 = Cardinality(Retrying)
  <1>1. IsFiniteSet(Retrying) /\ Cardinality(Retrying) \in Nat
    BY CountsAreNumbers
  <1>2. /\ IsFiniteSet(Retrying \ {e})
        /\ Cardinality(Retrying \ {e}) =
             IF e \in Retrying THEN Cardinality(Retrying) - 1 ELSE Cardinality(Retrying)
    BY <1>1, FS_RemoveElement
  <1>3. Cardinality(Retrying \ {e}) \in Nat
    BY <1>2, FS_CardinalityType
  <1> QED
    BY <1>1, <1>2, <1>3

(* An event that is lost is one more.                                      *)
LEMMA OneLossMore ==
  ASSUME TypeOK, NEW x, x \notin lost
  PROVE  Cardinality(lost \cup {x}) = Cardinality(lost) + 1
  BY CountsAreNumbers, FS_AddElement

(* An emitter that retries is one more at most.                            *)
LEMMA OneRetryMore ==
  ASSUME TypeOK, NEW e
  PROVE  /\ Cardinality(Retrying \cup {e}) \in Nat
         /\ Cardinality(Retrying \cup {e}) <= Cardinality(Retrying) + 1
  <1>1. IsFiniteSet(Retrying) /\ Cardinality(Retrying) \in Nat
    BY CountsAreNumbers
  <1>2. Cardinality(Retrying \cup {e}) =
          IF e \in Retrying THEN Cardinality(Retrying) ELSE Cardinality(Retrying) + 1
    BY <1>1, FS_AddElement
  <1> QED
    BY <1>1, <1>2

-------------------------------------------------------------------------------
(* The steps.                                                              *)

(* A new event, in the hand of its emitter.                                *)
LEMMA EmitEventStep ==
  ASSUME IInv, NEW e \in Emitter, EmitEvent(e)
  PROVE  IInv'
  <1> USE DEF IInv
  <1>1. /\ epc[e] = "idle" /\ emitted' = emitted + 1
        /\ event' = [event EXCEPT ![e] = emitted + 1] /\ epc' = [epc EXCEPT ![e] = "send"]
        /\ UNCHANGED <<eventChan, droppedEvents, lost, started, worker, stopChan, host, stopped,
                       stops, panic, before>>
    BY DEF EmitEvent, workerVars, hostVars
  <1>2. emitted \in Nat /\ emitted + 1 \in 1 .. MaxEvents
    BY BoundsAssumption DEF BoundsAssumption, EmitEvent, TypeOK
  <1>3. \A f \in Emitter : /\ epc'[f] = IF f = e THEN "send" ELSE epc[f]
                           /\ event'[f] = IF f = e THEN emitted + 1 ELSE event[f]
    BY <1>1 DEF TypeOK
  <1>4. 1 .. emitted' = 1 .. emitted \cup {emitted + 1} /\ emitted + 1 \notin 1 .. emitted
    BY <1>1, <1>2
  <1>5. InHand' = InHand \cup {emitted + 1}
    BY <1>1, <1>3 DEF InHand
  <1>6. Chan' = Chan /\ Retrying' = Retrying
    BY <1>1, <1>3 DEF Chan, Retrying
  <1>7. OnePlace'
    BY <1>1, <1>4, <1>5, <1>6 DEF OnePlace
  <1>8. \A f \in Emitter : epc[f] # "idle" => event[f] \in 1 .. emitted
    BY DEF OnePlace, InHand
  <1>9. HeldOnce'
    BY <1>1, <1>3, <1>4, <1>8 DEF HeldOnce
  <1>10. TypeOK'
    BY <1>1, <1>2 DEF TypeOK, Event
  <1>11. LossCounted' /\ WorkerDrains'
    BY <1>1, <1>6 DEF LossCounted, WorkerDrains
  <1> QED
    BY <1>7, <1>9, <1>10, <1>11

(* The event of an emitter goes into the channel: TrySend and Retry.       *)
LEMMA PutStep ==
  ASSUME IInv, NEW e \in Emitter, epc[e] # "idle", Len(eventChan) < BufferSize,
         eventChan' = Append(eventChan, event[e]), epc' = [epc EXCEPT ![e] = "idle"],
         UNCHANGED <<emitted, event, droppedEvents, lost, workerVars, hostVars>>
  PROVE  IInv'
  <1> USE DEF IInv, workerVars, hostVars
  <1>1. /\ event[e] \in InHand /\ InHand' = InHand \ {event[e]}
        /\ \A f, g \in Emitter :
             epc'[f] # "idle" /\ epc'[g] # "idle" /\ event'[f] = event'[g] => f = g
        /\ Retrying' = Retrying \ {e}
        /\ epc' \in [Emitter -> {"idle", "send", "full", "retry"}]
    BY LeavesHand
  <1>2. event[e] \in Event /\ event[e] \notin Chan
    <2>1. event[e] \in 1 .. emitted /\ emitted \in 0 .. MaxEvents
      BY <1>1 DEF OnePlace, TypeOK
    <2> QED
      BY <1>1, <2>1, BoundsAssumption DEF BoundsAssumption, OnePlace, Event
  <1>3. /\ eventChan' \in Seq(Event) /\ Len(eventChan') = Len(eventChan) + 1
        /\ Chan' = Chan \cup {event[e]}
        /\ \A i, j \in 1 .. Len(eventChan') : eventChan'[i] = eventChan'[j] => i = j
    BY <1>2, Appended DEF TypeOK, HeldOnce, Chan
  <1>4. TypeOK'
    BY <1>1, <1>3, BufferAssumption DEF BufferAssumption, TypeOK
  <1>5. HeldOnce'
    BY <1>1, <1>3 DEF HeldOnce
  <1>6. OnePlace'
    BY <1>1, <1>3 DEF OnePlace
  <1>7. LossCounted'
    <2>1. Cardinality(Retrying') \in Nat /\ Cardinality(Retrying') <= Cardinality(Retrying)
      BY <1>1, OneRetryLess
    <2>2. Cardinality(lost) \in Nat /\ Cardinality(Retrying) \in Nat /\ droppedEvents \in Nat
      BY CountsAreNumbers DEF TypeOK
    <2>3. lost' = lost /\ droppedEvents' = droppedEvents
      OBVIOUS
    <2> HIDE DEF IInv
    <2> QED
      BY <2>1, <2>2, <2>3, IInv DEF IInv, LossCounted
  <1>8. WorkerDrains'
    BY <1>3 DEF WorkerDrains
  <1> QED
    BY <1>4, <1>5, <1>6, <1>7, <1>8

(* The first send finds room, or not.                                      *)
LEMMA TrySendStep ==
  ASSUME IInv, NEW e \in Emitter, TrySend(e)
  PROVE  IInv'
  <1> USE DEF IInv, workerVars, hostVars
  <1>1. CASE Len(eventChan) < BufferSize
    BY <1>1, PutStep DEF TrySend
  <1>2. CASE ~(Len(eventChan) < BufferSize)
    <2>1. /\ epc[e] = "send" /\ epc' = [epc EXCEPT ![e] = "full"]
          /\ UNCHANGED <<eventChan, emitted, event, droppedEvents, lost, workerVars, hostVars>>
      BY <1>2 DEF TrySend
    <2>2. /\ InHand' = InHand
          /\ \A f, g \in Emitter :
               epc'[f] # "idle" /\ epc'[g] # "idle" /\ event'[f] = event'[g] => f = g
          /\ Retrying' = Retrying
          /\ epc' \in [Emitter -> {"idle", "send", "full", "retry"}]
      BY <2>1, KeepsHand
    <2>3. TypeOK' /\ HeldOnce'
      BY <2>1, <2>2 DEF TypeOK, HeldOnce
    <2>4. OnePlace' /\ LossCounted' /\ WorkerDrains'
      BY <2>1, <2>2 DEF OnePlace, LossCounted, WorkerDrains, Chan
    <2> QED
      BY <2>3, <2>4
  <1> QED
    BY <1>1, <1>2

(* The oldest event is lost, or the emitter's own.                         *)
LEMMA DropOldestStep ==
  ASSUME IInv, NEW e \in Emitter, DropOldest(e)
  PROVE  IInv'
  <1> USE DEF IInv, workerVars, hostVars
  <1>1. CASE eventChan # <<>>
    <2> DEFINE x == Head(eventChan)
    <2>1. /\ epc[e] = "full" /\ epc' = [epc EXCEPT ![e] = "retry"]
          /\ droppedEvents' = droppedEvents + 1 /\ lost' = lost \cup {x}
          /\ eventChan' = Tail(eventChan)
          /\ UNCHANGED <<emitted, event, workerVars, hostVars>>
      BY <1>1 DEF DropOldest
    <2>2. /\ InHand' = InHand
          /\ \A f, g \in Emitter :
               epc'[f] # "idle" /\ epc'[g] # "idle" /\ event'[f] = event'[g] => f = g
          /\ Retrying' = Retrying \cup {e}
          /\ epc' \in [Emitter -> {"idle", "send", "full", "retry"}]
      BY <2>1, KeepsHand
    <2>3. /\ x \in Chan /\ Chan' = Chan \ {x}
          /\ eventChan' \in Seq(Event) /\ Len(eventChan') = Len(eventChan) - 1
          /\ \A i, j \in 1 .. Len(eventChan') : eventChan'[i] = eventChan'[j] => i = j
      BY <1>1, <2>1, HeadAndTail DEF TypeOK, HeldOnce, Chan
    <2> HIDE DEF x
    <2>4. x \notin lost /\ x \in Event
      BY <2>3, BoundsAssumption DEF BoundsAssumption, OnePlace, TypeOK, Event
    <2>5. TypeOK'
      BY <2>1, <2>2, <2>3, <2>4, BufferAssumption DEF BufferAssumption, TypeOK
    <2>6. HeldOnce'
      BY <2>2, <2>3 DEF HeldOnce
    <2>7. OnePlace'
      BY <2>1, <2>2, <2>3 DEF OnePlace
    <2>8. LossCounted'
      <3>1. /\ Cardinality(Retrying') \in Nat
            /\ Cardinality(Retrying') <= Cardinality(Retrying) + 1
        BY <2>2, OneRetryMore
      <3>2. Cardinality(lost') = Cardinality(lost) + 1
        BY <2>1, <2>4, OneLossMore
      <3>3. Cardinality(lost) \in Nat /\ Cardinality(Retrying) \in Nat /\ droppedEvents \in Nat
        BY CountsAreNumbers DEF TypeOK
      <3> QED
        BY <2>1, <3>1, <3>2, <3>3 DEF LossCounted
    <2>9. WorkerDrains'
      BY <2>1, <2>3 DEF WorkerDrains
    <2> QED
      BY <2>5, <2>6, <2>7, <2>8, <2>9
  <1>2. CASE eventChan = <<>>
    <2>1. /\ epc[e] = "full" /\ epc' = [epc EXCEPT ![e] = "idle"]
          /\ droppedEvents' = droppedEvents + 1 /\ lost' = lost \cup {event[e]}
          /\ eventChan' = eventChan
          /\ UNCHANGED <<emitted, event, workerVars, hostVars>>
      BY <1>2 DEF DropOldest
    <2>2. /\ event[e] \in InHand /\ InHand' = InHand \ {event[e]}
          /\ \A f, g \in Emitter :
               epc'[f] # "idle" /\ epc'[g] # "idle" /\ event'[f] = event'[g] => f = g
          /\ Retrying' = Retrying \ {e}
          /\ epc' \in [Emitter -> {"idle", "send", "full", "retry"}]
      BY <2>1, LeavesHand
    <2>3. event[e] \notin lost /\ event[e] \in Event
      BY <2>2, BoundsAssumption DEF BoundsAssumption, OnePlace, TypeOK, Event
    <2>4. TypeOK' /\ HeldOnce'
      BY <2>1, <2>2, <2>3 DEF TypeOK, HeldOnce
    <2>5. OnePlace' /\ WorkerDrains'
      BY <2>1, <2>2 DEF OnePlace, WorkerDrains, Chan
    <2>6. LossCounted'
      <3>1. /\ Cardinality(Retrying') \in Nat /\ Cardinality(Retrying') <= Cardinality(Retrying)
            /\ e \in Retrying => Cardinality(Retrying') + 1 = Cardinality(Retrying)
        BY <2>2, OneRetryLess
      <3>2. Cardinality(lost') = Cardinality(lost) + 1
        BY <2>1, <2>3, OneLossMore
      <3>3. Cardinality(lost) \in Nat /\ Cardinality(Retrying) \in Nat /\ droppedEvents \in Nat
        BY CountsAreNumbers DEF TypeOK
      <3> QED
        BY <2>1, <2>2, <3>1, <3>2, <3>3 DEF LossCounted
    <2> QED
      BY <2>4, <2>5, <2>6
  <1> QED
    BY <1>1, <1>2

(* The second send finds room, or the event is lost.                       *)
LEMMA RetryStep ==
  ASSUME IInv, NEW e \in Emitter, Retry(e)
  PROVE  IInv'
  <1> USE DEF IInv, workerVars, hostVars
  <1>1. CASE Len(eventChan) < BufferSize
    BY <1>1, PutStep DEF Retry
  <1>2. CASE ~(Len(eventChan) < BufferSize)
    <2>1. /\ epc[e] = "retry" /\ epc' = [epc EXCEPT ![e] = "idle"]
          /\ lost' = lost \cup {event[e]}
          /\ UNCHANGED <<eventChan, emitted, event, droppedEvents, workerVars, hostVars>>
      BY <1>2 DEF Retry
    <2>2. /\ event[e] \in InHand /\ InHand' = InHand \ {event[e]}
          /\ \A f, g \in Emitter :
               epc'[f] # "idle" /\ epc'[g] # "idle" /\ event'[f] = event'[g] => f = g
          /\ Retrying' = Retrying \ {e} /\ e \in Retrying
          /\ epc' \in [Emitter -> {"idle", "send", "full", "retry"}]
      BY <2>1, LeavesHand DEF Retrying
    <2>3. event[e] \notin lost /\ event[e] \in Event
      BY <2>2, BoundsAssumption DEF BoundsAssumption, OnePlace, TypeOK, Event
    <2>4. TypeOK' /\ HeldOnce'
      BY <2>1, <2>2, <2>3 DEF TypeOK, HeldOnce
    <2>5. OnePlace' /\ WorkerDrains'
      BY <2>1, <2>2 DEF OnePlace, WorkerDrains, Chan
    <2>6. LossCounted'
      <3>1. /\ Cardinality(Retrying') \in Nat /\ Cardinality(Retrying') <= Cardinality(Retrying)
            /\ e \in Retrying => Cardinality(Retrying') + 1 = Cardinality(Retrying)
        BY <2>2, OneRetryLess
      <3>2. Cardinality(lost') = Cardinality(lost) + 1
        BY <2>1, <2>3, OneLossMore
      <3>3. Cardinality(lost) \in Nat /\ Cardinality(Retrying) \in Nat /\ droppedEvents \in Nat
        BY CountsAreNumbers DEF TypeOK
      <3> QED
        BY <2>1, <2>2, <3>1, <3>2, <3>3 DEF LossCounted
    <2> QED
      BY <2>4, <2>5, <2>6
  <1> QED
    BY <1>1, <1>2

(* processEvents takes an event: dispatchEvent.                            *)
LEMMA DispatchStep ==
  ASSUME IInv, Dispatch
  PROVE  IInv'
  <1> USE DEF IInv
  <1> DEFINE x == Head(eventChan)
  <1>1. /\ worker \in {"select", "draining"} /\ eventChan # <<>>
        /\ started' = started \cup {x} /\ eventChan' = Tail(eventChan)
        /\ UNCHANGED <<emitted, epc, event, droppedEvents, lost, worker, hostVars>>
    BY DEF Dispatch, emitVars
  <1>2. /\ x \in Chan /\ Chan' = Chan \ {x}
        /\ eventChan' \in Seq(Event) /\ Len(eventChan') = Len(eventChan) - 1
        /\ \A i, j \in 1 .. Len(eventChan') : eventChan'[i] = eventChan'[j] => i = j
    BY <1>1, HeadAndTail DEF TypeOK, HeldOnce, Chan
  <1> HIDE DEF x
  <1>3. x \in Event
    BY <1>2, BoundsAssumption DEF BoundsAssumption, OnePlace, TypeOK, Event
  <1>4. InHand' = InHand /\ Retrying' = Retrying
    BY <1>1 DEF InHand, Retrying
  <1>5. TypeOK'
    BY <1>1, <1>2, <1>3, BufferAssumption DEF BufferAssumption, TypeOK, hostVars
  <1>6. HeldOnce' /\ OnePlace'
    BY <1>1, <1>2, <1>4 DEF HeldOnce, OnePlace
  <1>7. LossCounted' /\ WorkerDrains'
    BY <1>1, <1>2, <1>4 DEF LossCounted, WorkerDrains, hostVars
  <1> QED
    BY <1>5, <1>6, <1>7

(* Its return, and the calls of the host that emit nothing.                *)
LEMMA QuietStep ==
  ASSUME IInv, panic = "none",
         SeeStop \/ Drained \/ HostRestart \/ CloseStop \/ StopReturn
  PROVE  IInv'
  <1> USE DEF IInv, emitVars
  <1>1. UNCHANGED <<emitted, eventChan, emitVars, started>>
    BY DEF SeeStop, Drained, HostRestart, CloseStop, StopReturn, workerVars
  <1>2. InHand' = InHand /\ Retrying' = Retrying /\ Chan' = Chan
    BY <1>1 DEF InHand, Retrying, Chan
  <1>3. HeldOnce' /\ OnePlace' /\ LossCounted'
    BY <1>1, <1>2 DEF HeldOnce, OnePlace, LossCounted
  <1>4. Chan \subseteq Event
    BY DEF TypeOK, Chan, ToSet
  <1>5. TypeOK' /\ WorkerDrains'
    <2>1. CASE SeeStop
      BY <1>2, <2>1 DEF SeeStop, TypeOK, WorkerDrains, hostVars
    <2>2. CASE Drained
      <3>1. Chan = {}
        BY <2>2 DEF Drained, Chan, ToSet
      <3> QED
        BY <1>2, <2>2, <3>1 DEF Drained, TypeOK, WorkerDrains, hostVars
    <2>3. CASE HostRestart
      <3>1. stopped' \in BOOLEAN
        BY <2>3 DEF HostRestart
      <3> QED
        BY <1>2, <2>3, <3>1 DEF HostRestart, TypeOK, WorkerDrains, workerVars
    <2>4. CASE CloseStop
      BY <1>2, <1>4, <2>4 DEF CloseStop, TypeOK, WorkerDrains, workerVars, Chan
    <2>5. CASE StopReturn
      BY <1>2, <2>5 DEF StopReturn, TypeOK, WorkerDrains, workerVars
    <2> QED
      BY <2>1, <2>2, <2>3, <2>4, <2>5
  <1> QED
    BY <1>3, <1>5

(* The two events of Stop go to the handlers at once.                      *)
LEMMA StopEmitsStep ==
  ASSUME IInv, StopBegin \/ StopTold
  PROVE  IInv'
  <1> USE DEF IInv, emitVars
  <1>1. /\ emitted' = emitted + 1 /\ emitted < MaxEvents /\ started' = started \cup {emitted + 1}
        /\ UNCHANGED <<eventChan, emitVars, worker, stopChan, panic, before>>
        /\ host' \in {"stopping", "closing"} /\ stops' \in 0 .. MaxStops /\ stopped' \in BOOLEAN
    <2>1. CASE StopBegin
      <3>1. stopped' = TRUE /\ stops' = stops + 1 /\ stops < MaxStops
        BY <2>1 DEF StopBegin
      <3>2. stopped' \in BOOLEAN
        BY <3>1, Zenon
      <3>3. stops' \in 0 .. MaxStops
        BY <3>1, BoundsAssumption DEF BoundsAssumption, TypeOK
      <3> QED
        BY <2>1, <3>2, <3>3 DEF StopBegin, EmitEventSync
    <2>2. CASE StopTold
      BY <2>2 DEF StopTold, EmitEventSync, TypeOK
    <2> QED
      BY <2>1, <2>2
  <1>2. emitted + 1 \in Event /\ emitted + 1 \notin 1 .. emitted
        /\ 1 .. emitted' = 1 .. emitted \cup {emitted + 1}
    BY <1>1, BoundsAssumption DEF BoundsAssumption, TypeOK, Event
  <1>3. InHand' = InHand /\ Retrying' = Retrying /\ Chan' = Chan
    BY <1>1 DEF InHand, Retrying, Chan
  <1>4. TypeOK'
    BY <1>1, <1>2, BoundsAssumption DEF BoundsAssumption, TypeOK, Event
  <1>5. HeldOnce' /\ OnePlace'
    BY <1>1, <1>2, <1>3 DEF HeldOnce, OnePlace
  <1>6. LossCounted' /\ WorkerDrains'
    BY <1>1, <1>3 DEF LossCounted, WorkerDrains
  <1> QED
    BY <1>4, <1>5, <1>6

(* The invariant holds at first.                                           *)
LEMMA InitIInv == Init => IInv
  <1> SUFFICES ASSUME Init PROVE IInv
    OBVIOUS
  <1>1. InHand = {} /\ Retrying = {} /\ Chan = {} /\ 1 .. emitted = {}
    BY DEF Init, InHand, Retrying, Chan, ToSet
  <1>2. TypeOK
    <2>1. emitted \in 0 .. MaxEvents /\ stops \in 0 .. MaxStops /\ droppedEvents \in Nat
      BY BoundsAssumption DEF BoundsAssumption, Init
    <2>2. eventChan \in Seq(Event) /\ Len(eventChan) <= BufferSize
      BY BufferAssumption DEF BufferAssumption, Init
    <2>3. event \in [Emitter -> 0 .. MaxEvents]
      BY BoundsAssumption DEF BoundsAssumption, Init
    <2>4. epc \in [Emitter -> {"idle", "send", "full", "retry"}]
      BY DEF Init
    <2> QED
      BY <2>1, <2>2, <2>3, <2>4, Zenon DEF Init, TypeOK
  <1>3. HeldOnce /\ OnePlace /\ WorkerDrains
    BY <1>1 DEF Init, HeldOnce, OnePlace, WorkerDrains
  <1>4. LossCounted
    BY <1>1, FS_EmptySet DEF Init, LossCounted
  <1> QED
    BY <1>2, <1>3, <1>4 DEF IInv

(* The inductive invariant: the parts above hold in every state.           *)
THEOREM IInvCorrect == Spec => []IInv
  <1>1. IInv /\ [Next]_vars => IInv'
    <2> SUFFICES ASSUME IInv, [Next]_vars PROVE IInv'
      OBVIOUS
    <2>1. CASE Next
      BY <2>1, EmitEventStep, TrySendStep, DropOldestStep, RetryStep, DispatchStep, QuietStep,
         StopEmitsStep DEF Next, Emit, Worker, Host
    <2>2. CASE UNCHANGED vars
      <3>1. InHand' = InHand /\ Retrying' = Retrying /\ Chan' = Chan
        BY <2>2 DEF InHand, Retrying, Chan, vars, emitVars
      <3> QED
        BY <2>2, <3>1 DEF IInv, TypeOK, HeldOnce, OnePlace, LossCounted, WorkerDrains, vars,
           emitVars, workerVars, hostVars
    <2> QED
      BY <2>1, <2>2
  <1> QED
    BY <1>1, InitIInv, PTL DEF Spec

(* No event disappears between EmitEvent and the handlers, and what the    *)
(* counter of dropped events misses is at most as much as it counts.       *)
THEOREM EventsKept == Spec => []EventsInv
  <1>1. IInv => EventsInv
    <2> SUFFICES ASSUME IInv PROVE EventsInv
      OBVIOUS
    <2>1. Len(eventChan) = Cardinality(Chan)
      BY OnceCounts DEF IInv, TypeOK, HeldOnce, Chan
    <2>2. EveryEventSomewhere
      BY <2>1 DEF IInv, OnePlace, EveryEventSomewhere, Chan
    <2>3. LossWithinTwiceCounted
      BY CountsAreNumbers DEF IInv, TypeOK, LossCounted, LossWithinTwiceCounted
    <2> QED
      BY <2>2, <2>3 DEF IInv, EventsInv
  <1> QED
    BY <1>1, IInvCorrect, PTL

(* When Stop returns, nothing that it found in the channel still waits.    *)
THEOREM StopHasDrained == Spec => []StopDrains
  <1>1. IInv => StopDrains
    BY DEF IInv, WorkerDrains, StopDrains
  <1> QED
    BY <1>1, IInvCorrect, PTL

===============================================================================
