-------------------------- MODULE UdsQueue_proofs --------------------------
(***************************************************************************)
(* Proofs about UdsQueue, for every capacity, every set of messages and    *)
(* every finite number of producers and consumers: the queue keeps its     *)
(* types, loses no wake-up and implements BoundedFifo.                     *)
(***************************************************************************)
EXTENDS UdsQueue, FiniteSetTheorems, SequenceTheorems, TLAPS

\* Only a thread in its call waits.
WaitersInCall ==
    /\ \A p \in not_full : ppc[p] = "push"
    /\ \A c \in not_empty : cpc[c] = "pop"

\* A producer in its call has a message.
PusherHasMessage == \A p \in Producers : ppc[p] = "push" => data[p] \in Messages

\* The two indices and the counter tell the same story.
RingAgrees == tail = (head + count) % UDS_QUEUE_CAP

Inv == TypeOK /\ WaitersInCall /\ PusherHasMessage /\ RingAgrees

-----------------------------------------------------------------------------
(* The ring's arithmetic. *)

\* What the modulo does to the sum of an index and a count.
LEMMA RingIndex ==
    ASSUME NEW cap \in Nat \ {0}, NEW i \in 0..(cap - 1), NEW n \in 0..cap
    PROVE  (i + n) % cap = IF i + n < cap THEN i + n ELSE i + n - cap
<1> DEFINE q == (i + n) \div cap
           r == (i + n) % cap
<1>1. q \in Nat /\ r \in Nat /\ r < cap /\ i + n = cap * q + r
  OBVIOUS
<1> HIDE DEF q, r
<1>2. q < 2
  <2> SUFFICES ASSUME q >= 2 PROVE FALSE
    BY <1>1
  <2>1. cap * q >= cap * 2
    BY <1>1
  <2> QED
    BY <2>1, <1>1
<1>3. CASE q = 0
  <2>1. cap * q = 0
    BY <1>3
  <2> QED
    BY <2>1, <1>1 DEF r
<1>4. CASE q = 1
  <2>1. cap * q = cap
    BY <1>4
  <2> QED
    BY <2>1, <1>1 DEF r
<1> QED
  BY <1>1, <1>2, <1>3, <1>4

\* NextIndex stays in the ring: the next slot, or the first after the last.
LEMMA NextIndexValue ==
    ASSUME NEW i \in Indices
    PROVE  /\ NextIndex(i) = IF i + 1 < UDS_QUEUE_CAP THEN i + 1 ELSE 0
           /\ NextIndex(i) \in Indices
<1>1. UDS_QUEUE_CAP \in Nat \ {0} /\ i \in 0..(UDS_QUEUE_CAP - 1)
  BY QueueAssumption DEF Indices
<1>2. 1 \in 0..UDS_QUEUE_CAP
  BY <1>1
<1>3. (i + 1) % UDS_QUEUE_CAP = IF i + 1 < UDS_QUEUE_CAP THEN i + 1 ELSE i + 1 - UDS_QUEUE_CAP
  BY <1>1, <1>2, RingIndex
<1>4. NextIndex(i) = IF i + 1 < UDS_QUEUE_CAP THEN i + 1 ELSE 0
  BY <1>1, <1>3 DEF NextIndex
<1> QED
  BY <1>1, <1>4 DEF Indices

\* A push moves the end of the queued part on by one.
LEMMA RingGrows ==
    ASSUME NEW h \in Indices, NEW n \in 0..UDS_QUEUE_CAP, n # UDS_QUEUE_CAP
    PROVE  NextIndex((h + n) % UDS_QUEUE_CAP) = (h + (n + 1)) % UDS_QUEUE_CAP
<1>1. UDS_QUEUE_CAP \in Nat \ {0} /\ h \in 0..(UDS_QUEUE_CAP - 1)
  BY QueueAssumption DEF Indices
<1>2. (h + n) % UDS_QUEUE_CAP = IF h + n < UDS_QUEUE_CAP THEN h + n ELSE h + n - UDS_QUEUE_CAP
  BY <1>1, RingIndex
<1>3. n + 1 \in 0..UDS_QUEUE_CAP
  BY <1>1
<1>4. (h + (n + 1)) % UDS_QUEUE_CAP
         = IF h + (n + 1) < UDS_QUEUE_CAP THEN h + (n + 1) ELSE h + (n + 1) - UDS_QUEUE_CAP
  BY <1>1, <1>3, RingIndex
<1> DEFINE e == (h + n) % UDS_QUEUE_CAP
           f == (h + (n + 1)) % UDS_QUEUE_CAP
<1> HIDE DEF e, f
<1>5. e = IF h + n < UDS_QUEUE_CAP THEN h + n ELSE h + n - UDS_QUEUE_CAP
  BY <1>2 DEF e
<1>6. f = IF h + (n + 1) < UDS_QUEUE_CAP THEN h + (n + 1) ELSE h + (n + 1) - UDS_QUEUE_CAP
  BY <1>4 DEF f
<1>7. e \in Indices
  BY <1>1, <1>5 DEF Indices
<1>8. NextIndex(e) = IF e + 1 < UDS_QUEUE_CAP THEN e + 1 ELSE 0
  BY <1>7, NextIndexValue
<1>9. NextIndex(e) = f
  BY <1>1, <1>5, <1>6, <1>8
<1> QED
  BY <1>9 DEF e, f

\* A pop moves its start on by one and leaves every other place where it was.
LEMMA RingShrinks ==
    ASSUME NEW h \in Indices, NEW n \in 0..UDS_QUEUE_CAP, n # 0
    PROVE  (NextIndex(h) + (n - 1)) % UDS_QUEUE_CAP = (h + n) % UDS_QUEUE_CAP
<1>1. UDS_QUEUE_CAP \in Nat \ {0} /\ h \in 0..(UDS_QUEUE_CAP - 1)
  BY QueueAssumption DEF Indices
<1>2. (h + n) % UDS_QUEUE_CAP = IF h + n < UDS_QUEUE_CAP THEN h + n ELSE h + n - UDS_QUEUE_CAP
  BY <1>1, RingIndex
<1> DEFINE g == NextIndex(h)
<1>3. /\ g = IF h + 1 < UDS_QUEUE_CAP THEN h + 1 ELSE 0
      /\ g \in 0..(UDS_QUEUE_CAP - 1)
  BY NextIndexValue DEF Indices
<1> HIDE DEF g
<1>4. n - 1 \in 0..UDS_QUEUE_CAP
  BY <1>1
<1>5. (g + (n - 1)) % UDS_QUEUE_CAP
         = IF g + (n - 1) < UDS_QUEUE_CAP THEN g + (n - 1) ELSE g + (n - 1) - UDS_QUEUE_CAP
  BY <1>1, <1>3, <1>4, RingIndex
<1> DEFINE e == (h + n) % UDS_QUEUE_CAP
           f == (g + (n - 1)) % UDS_QUEUE_CAP
<1>6. e = IF h + n < UDS_QUEUE_CAP THEN h + n ELSE h + n - UDS_QUEUE_CAP
  BY <1>2
<1>7. f = IF g + (n - 1) < UDS_QUEUE_CAP THEN g + (n - 1) ELSE g + (n - 1) - UDS_QUEUE_CAP
  BY <1>5
<1> HIDE DEF e, f
<1>8. e = f
  BY <1>1, <1>3, <1>6, <1>7
<1> QED
  BY <1>8 DEF e, f, g
-----------------------------------------------------------------------------
(* Types, and the invariant the other proofs start from. *)

\* A signal only takes waiters out of their set.
LEMMA SignalShrinks ==
    /\ signal_not_empty => not_empty' \subseteq not_empty
    /\ signal_not_full => not_full' \subseteq not_full
  BY DEF signal_not_empty, signal_not_full

LEMMA InitInv == Init => Inv
<1> SUFFICES ASSUME Init PROVE Inv
  OBVIOUS
<1>1. UDS_QUEUE_CAP \in Nat \ {0}
  BY QueueAssumption
<1>2. TypeOK
  <2>1. 0 \in Indices /\ 0 \in 0..UDS_QUEUE_CAP
    BY <1>1 DEF Indices
  <2>2. slots \in [Indices -> Messages \cup {NoMessage}]
    BY DEF Init
  <2> QED
    BY <2>1, <2>2 DEF Init, TypeOK
<1>3. WaitersInCall /\ PusherHasMessage
  BY DEF Init, WaitersInCall, PusherHasMessage
<1>4. RingAgrees
  <2>1. 0 \in 0..(UDS_QUEUE_CAP - 1) /\ 0 \in 0..UDS_QUEUE_CAP
    BY <1>1
  <2>2. (0 + 0) % UDS_QUEUE_CAP = 0
    BY <1>1, <2>1, RingIndex
  <2> QED
    BY <2>2 DEF Init, RingAgrees
<1> QED
  BY <1>2, <1>3, <1>4 DEF Inv

LEMMA PushCallInv ==
    ASSUME Inv, NEW p \in Producers, NEW m \in Messages, PushCall(p, m)
    PROVE  Inv'
<1>1. /\ ppc' = [ppc EXCEPT ![p] = "push"] /\ data' = [data EXCEPT ![p] = m]
      /\ UNCHANGED <<slots, head, tail, count, closed, not_full, not_empty, cpc, out>>
  BY DEF PushCall, qVars, cVars
<1>2. TypeOK'
  BY <1>1 DEF Inv, TypeOK
<1>3. WaitersInCall' /\ PusherHasMessage' /\ RingAgrees'
  BY <1>1 DEF Inv, TypeOK, WaitersInCall, PusherHasMessage, RingAgrees
<1> QED
  BY <1>2, <1>3 DEF Inv

LEMMA PushWaitInv ==
    ASSUME Inv, NEW p \in Producers, PushWait(p)
    PROVE  Inv'
<1>1. /\ ppc[p] = "push" /\ not_full' = not_full \cup {p}
      /\ UNCHANGED <<slots, head, tail, count, closed, ppc, data, not_empty, cpc, out>>
  BY DEF PushWait, InPush, qVars, cVars
<1>2. TypeOK'
  BY <1>1 DEF Inv, TypeOK
<1>3. WaitersInCall' /\ PusherHasMessage' /\ RingAgrees'
  BY <1>1 DEF Inv, TypeOK, WaitersInCall, PusherHasMessage, RingAgrees
<1> QED
  BY <1>2, <1>3 DEF Inv

LEMMA PushClosedInv ==
    ASSUME Inv, NEW p \in Producers, PushClosed(p)
    PROVE  Inv'
<1>1. /\ p \notin not_full
      /\ ppc' = [ppc EXCEPT ![p] = "done"] /\ data' = [data EXCEPT ![p] = NoMessage]
      /\ UNCHANGED <<slots, head, tail, count, closed, not_full, not_empty, cpc, out>>
  BY DEF PushClosed, PushReturns, InPush, qVars, cVars
<1>2. TypeOK'
  BY <1>1 DEF Inv, TypeOK
<1>3. WaitersInCall' /\ PusherHasMessage' /\ RingAgrees'
  BY <1>1 DEF Inv, TypeOK, WaitersInCall, PusherHasMessage, RingAgrees
<1> QED
  BY <1>2, <1>3 DEF Inv

LEMMA PushStoreInv ==
    ASSUME Inv, NEW p \in Producers, PushStore(p)
    PROVE  Inv'
<1>1. /\ ppc[p] = "push" /\ p \notin not_full /\ count # UDS_QUEUE_CAP
      /\ slots' = [slots EXCEPT ![tail] = data[p]]
      /\ tail' = NextIndex(tail) /\ count' = count + 1
      /\ not_empty' \subseteq not_empty
      /\ ppc' = [ppc EXCEPT ![p] = "idle"] /\ data' = [data EXCEPT ![p] = NoMessage]
      /\ UNCHANGED <<head, closed, not_full, cpc, out>>
  BY SignalShrinks DEF PushStore, PushReturns, InPush
<1>2. TypeOK'
  <2>1. tail' \in Indices
    BY <1>1, NextIndexValue DEF Inv, TypeOK
  <2>2. count' \in 0..UDS_QUEUE_CAP
    BY <1>1, QueueAssumption DEF Inv, TypeOK
  <2>3. slots' \in [Indices -> Messages \cup {NoMessage}]
    BY <1>1 DEF Inv, TypeOK
  <2> QED
    BY <1>1, <2>1, <2>2, <2>3 DEF Inv, TypeOK
<1>3. WaitersInCall' /\ PusherHasMessage'
  BY <1>1 DEF Inv, TypeOK, WaitersInCall, PusherHasMessage
<1>4. RingAgrees'
  <2>1. head \in Indices /\ count \in 0..UDS_QUEUE_CAP
    BY DEF Inv, TypeOK
  <2>2. NextIndex((head + count) % UDS_QUEUE_CAP) = (head + (count + 1)) % UDS_QUEUE_CAP
    BY <1>1, <2>1, RingGrows
  <2> QED
    BY <1>1, <2>2 DEF Inv, RingAgrees
<1> QED
  BY <1>2, <1>3, <1>4 DEF Inv

LEMMA PopCallInv ==
    ASSUME Inv, NEW c \in Consumers, PopCall(c)
    PROVE  Inv'
<1>1. /\ cpc' = [cpc EXCEPT ![c] = "pop"]
      /\ UNCHANGED <<slots, head, tail, count, closed, not_full, ppc, data, not_empty, out>>
  BY DEF PopCall, qVars, pVars
<1>2. TypeOK'
  BY <1>1 DEF Inv, TypeOK
<1>3. WaitersInCall' /\ PusherHasMessage' /\ RingAgrees'
  BY <1>1 DEF Inv, TypeOK, WaitersInCall, PusherHasMessage, RingAgrees
<1> QED
  BY <1>2, <1>3 DEF Inv

LEMMA PopWaitInv ==
    ASSUME Inv, NEW c \in Consumers, PopWait(c)
    PROVE  Inv'
<1>1. /\ cpc[c] = "pop" /\ not_empty' = not_empty \cup {c}
      /\ UNCHANGED <<slots, head, tail, count, closed, not_full, ppc, data, cpc, out>>
  BY DEF PopWait, InPop, qVars, pVars
<1>2. TypeOK'
  BY <1>1 DEF Inv, TypeOK
<1>3. WaitersInCall' /\ PusherHasMessage' /\ RingAgrees'
  BY <1>1 DEF Inv, TypeOK, WaitersInCall, PusherHasMessage, RingAgrees
<1> QED
  BY <1>2, <1>3 DEF Inv

LEMMA PopClosedInv ==
    ASSUME Inv, NEW c \in Consumers, PopClosed(c)
    PROVE  Inv'
<1>1. /\ c \notin not_empty
      /\ cpc' = [cpc EXCEPT ![c] = "done"]
      /\ UNCHANGED <<slots, head, tail, count, closed, not_full, ppc, data, not_empty, out>>
  BY DEF PopClosed, InPop, qVars, pVars
<1>2. TypeOK'
  BY <1>1 DEF Inv, TypeOK
<1>3. WaitersInCall' /\ PusherHasMessage' /\ RingAgrees'
  BY <1>1 DEF Inv, TypeOK, WaitersInCall, PusherHasMessage, RingAgrees
<1> QED
  BY <1>2, <1>3 DEF Inv

LEMMA PopTakeInv ==
    ASSUME Inv, NEW c \in Consumers, PopTake(c)
    PROVE  Inv'
<1>1. /\ c \notin not_empty /\ count # 0
      /\ out' = [out EXCEPT ![c] = slots[head]]
      /\ head' = NextIndex(head) /\ count' = count - 1
      /\ not_full' \subseteq not_full
      /\ cpc' = [cpc EXCEPT ![c] = "idle"]
      /\ UNCHANGED <<slots, tail, closed, ppc, data, not_empty>>
  BY SignalShrinks DEF PopTake, InPop
<1>2. TypeOK'
  <2>1. head' \in Indices
    BY <1>1, NextIndexValue DEF Inv, TypeOK
  <2>2. count' \in 0..UDS_QUEUE_CAP
    BY <1>1, QueueAssumption DEF Inv, TypeOK
  <2>3. out' \in [Consumers -> Messages \cup {NoMessage}]
    BY <1>1 DEF Inv, TypeOK
  <2> QED
    BY <1>1, <2>1, <2>2, <2>3 DEF Inv, TypeOK
<1>3. WaitersInCall' /\ PusherHasMessage'
  BY <1>1 DEF Inv, TypeOK, WaitersInCall, PusherHasMessage
<1>4. RingAgrees'
  <2>1. head \in Indices /\ count \in 0..UDS_QUEUE_CAP
    BY DEF Inv, TypeOK
  <2>2. (NextIndex(head) + (count - 1)) % UDS_QUEUE_CAP = (head + count) % UDS_QUEUE_CAP
    BY <1>1, <2>1, RingShrinks
  <2> QED
    BY <1>1, <2>2 DEF Inv, RingAgrees
<1> QED
  BY <1>2, <1>3, <1>4 DEF Inv

LEMMA ShutdownInv == Inv /\ Shutdown => Inv'
<1> SUFFICES ASSUME Inv, Shutdown PROVE Inv'
  OBVIOUS
<1>1. /\ closed' = TRUE /\ not_empty' = {} /\ not_full' = {}
      /\ UNCHANGED <<slots, head, tail, count, ppc, data, cpc, out>>
  BY DEF Shutdown
<1>2. TypeOK'
  BY <1>1 DEF Inv, TypeOK
<1>3. WaitersInCall' /\ PusherHasMessage' /\ RingAgrees'
  BY <1>1 DEF Inv, TypeOK, WaitersInCall, PusherHasMessage, RingAgrees
<1> QED
  BY <1>2, <1>3 DEF Inv

LEMMA SpuriousWakeupInv == Inv /\ SpuriousWakeup => Inv'
<1> SUFFICES ASSUME Inv, SpuriousWakeup PROVE Inv'
  OBVIOUS
<1>1. /\ not_full' \subseteq not_full /\ not_empty' \subseteq not_empty
      /\ UNCHANGED <<slots, head, tail, count, closed, ppc, data, cpc, out>>
  BY DEF SpuriousWakeup, qVars
<1>2. TypeOK'
  BY <1>1 DEF Inv, TypeOK
<1>3. WaitersInCall' /\ PusherHasMessage' /\ RingAgrees'
  BY <1>1 DEF Inv, TypeOK, WaitersInCall, PusherHasMessage, RingAgrees
<1> QED
  BY <1>2, <1>3 DEF Inv

LEMMA StutterInv == Inv /\ UNCHANGED vars => Inv'
  BY DEF Inv, TypeOK, WaitersInCall, PusherHasMessage, RingAgrees, vars, qVars, pVars, cVars

LEMMA StepInv == Inv /\ [Next]_vars => Inv'
<1> SUFFICES ASSUME Inv, [Next]_vars PROVE Inv'
  OBVIOUS
<1>1. ASSUME NEW p \in Producers, NEW m \in Messages, PushCall(p, m) PROVE Inv'
  BY <1>1, PushCallInv
<1>2. ASSUME NEW p \in Producers, Push(p) PROVE Inv'
  BY <1>2, PushWaitInv, PushClosedInv, PushStoreInv DEF Push
<1>3. ASSUME NEW c \in Consumers, PopCall(c) PROVE Inv'
  BY <1>3, PopCallInv
<1>4. ASSUME NEW c \in Consumers, Pop(c) PROVE Inv'
  BY <1>4, PopWaitInv, PopClosedInv, PopTakeInv DEF Pop
<1> QED
  BY <1>1, <1>2, <1>3, <1>4, ShutdownInv, SpuriousWakeupInv, StutterInv DEF Next

LEMMA AlwaysInv == Spec => []Inv
  BY InitInv, StepInv, PTL DEF Spec

\* The queue keeps its types: the indices stay in the ring and the counter
\* between 0 and UDS_QUEUE_CAP, however the callers interleave.
THEOREM TypeCorrect == Spec => []TypeOK
<1>1. Inv => TypeOK
  BY DEF Inv
<1> QED
  BY <1>1, AlwaysInv, PTL
-----------------------------------------------------------------------------
(* No wake-up is lost. *)

\* The threads that are awake in their calls.
Poppers == {c \in Consumers : InPop(c)}
Pushers == {p \in Producers : InPush(p)}

LEMMA AwakeFinite ==
    /\ IsFiniteSet(Poppers) /\ IsFiniteSet(Pushers)
    /\ IsFiniteSet(Poppers') /\ IsFiniteSet(Pushers')
<1>1. /\ Poppers \subseteq Consumers /\ Poppers' \subseteq Consumers
      /\ Pushers \subseteq Producers /\ Pushers' \subseteq Producers
  BY DEF Poppers, Pushers
<1> QED
  BY <1>1, QueueAssumption, FS_Subset

\* What a finite set loses with one element at most, and gains with one at least.
LEMMA LosesOne ==
    ASSUME NEW S, NEW T, NEW x, IsFiniteSet(S), IsFiniteSet(T), S \ {x} \subseteq T
    PROVE  /\ Cardinality(S) \in Nat /\ Cardinality(T) \in Nat
           /\ Cardinality(S) - 1 <= Cardinality(T)
<1>1. /\ Cardinality(S) \in Nat /\ Cardinality(T) \in Nat
  BY FS_CardinalityType
<1>2. /\ IsFiniteSet(S \ {x})
      /\ Cardinality(S \ {x}) = IF x \in S THEN Cardinality(S) - 1 ELSE Cardinality(S)
  BY FS_RemoveElement
<1>3. Cardinality(S \ {x}) <= Cardinality(T)
  BY FS_Subset
<1> QED
  BY <1>1, <1>2, <1>3

LEMMA GainsOne ==
    ASSUME NEW S, NEW T, NEW x \in T, IsFiniteSet(T), S \subseteq T, x \notin S
    PROVE  /\ Cardinality(S) \in Nat /\ Cardinality(T) \in Nat
           /\ Cardinality(S) + 1 <= Cardinality(T)
<1>1. IsFiniteSet(S)
  BY FS_Subset
<1>2. /\ Cardinality(S) \in Nat /\ Cardinality(T) \in Nat
  BY <1>1, FS_CardinalityType
<1>3. Cardinality(S \cup {x}) = IF x \in S THEN Cardinality(S) ELSE Cardinality(S) + 1
  BY <1>1, FS_AddElement
<1>4. S \cup {x} \subseteq T
  OBVIOUS
<1>5. Cardinality(S \cup {x}) <= Cardinality(T)
  BY <1>4, FS_Subset
<1> QED
  BY <1>2, <1>3, <1>5

LEMMA Keeps ==
    ASSUME NEW S, NEW T, IsFiniteSet(T), S \subseteq T
    PROVE  /\ Cardinality(S) \in Nat /\ Cardinality(T) \in Nat
           /\ Cardinality(S) <= Cardinality(T)
  BY FS_Subset, FS_CardinalityType

\* The three parts of NoLostWakeup.
EnoughPoppers == not_empty # {} => count <= Cardinality(Poppers)
EnoughPushers == not_full # {} => UDS_QUEUE_CAP - count <= Cardinality(Pushers)
ClosedAwake   == closed => not_full = {} /\ not_empty = {}

LEMMA WakeupParts ==
    /\ NoLostWakeup <=> EnoughPoppers /\ EnoughPushers /\ ClosedAwake
    /\ NoLostWakeup' <=> EnoughPoppers' /\ EnoughPushers' /\ ClosedAwake'
  BY DEF NoLostWakeup, EnoughPoppers, EnoughPushers, ClosedAwake, Poppers, Pushers

\* A signal that finds a waiter wakes one.
LEMMA SignalWakes ==
    /\ signal_not_empty /\ not_empty # {} => \E c \in not_empty : c \notin not_empty'
    /\ signal_not_full /\ not_full # {} => \E p \in not_full : p \notin not_full'
<1>1. ASSUME NEW waiters, waiters # {}, NEW W \in Woken(waiters)
      PROVE  \E t \in waiters : t \notin waiters \ W
  <2>1. Woken(waiters) = (SUBSET waiters) \ {{}}
    BY <1>1 DEF Woken
  <2>2. W \in SUBSET waiters /\ W # {}
    BY <1>1, <2>1
  <2> QED
    BY <2>2
<1>2. ASSUME signal_not_empty, not_empty # {}
      PROVE  \E c \in not_empty : c \notin not_empty'
  BY <1>1, <1>2 DEF signal_not_empty
<1>3. ASSUME signal_not_full, not_full # {}
      PROVE  \E p \in not_full : p \notin not_full'
  BY <1>1, <1>3 DEF signal_not_full
<1> QED
  BY <1>2, <1>3

\* A store: one message more, and one consumer more to look at it.
LEMMA PushStoreWakes ==
    ASSUME Inv, NoLostWakeup, NEW p \in Producers, PushStore(p)
    PROVE  NoLostWakeup'
<1>1. /\ ppc[p] = "push" /\ p \notin not_full /\ ~closed /\ count # UDS_QUEUE_CAP
      /\ count' = count + 1
      /\ signal_not_empty /\ not_empty' \subseteq not_empty
      /\ ppc' = [ppc EXCEPT ![p] = "idle"]
      /\ UNCHANGED <<closed, not_full, cpc>>
  BY SignalShrinks DEF PushStore, PushReturns, InPush
<1>2. count \in Nat /\ UDS_QUEUE_CAP \in Nat
  BY QueueAssumption DEF Inv, TypeOK
<1>3. EnoughPoppers'
  <2> SUFFICES ASSUME not_empty' # {} PROVE count' <= Cardinality(Poppers')
    BY DEF EnoughPoppers
  <2>1. not_empty # {}
    BY <1>1
  <2>2. PICK c \in not_empty : c \notin not_empty'
    BY <1>1, <2>1, SignalWakes
  <2>3. c \in Poppers' /\ c \notin Poppers /\ Poppers \subseteq Poppers'
    BY <1>1, <2>2 DEF Inv, TypeOK, WaitersInCall, Poppers, InPop
  <2>4. /\ Cardinality(Poppers) \in Nat /\ Cardinality(Poppers') \in Nat
        /\ Cardinality(Poppers) + 1 <= Cardinality(Poppers')
    BY <2>3, AwakeFinite, GainsOne
  <2>5. count <= Cardinality(Poppers)
    BY <2>1, WakeupParts DEF EnoughPoppers
  <2> QED
    BY <1>1, <1>2, <2>4, <2>5
<1>4. EnoughPushers'
  <2> SUFFICES ASSUME not_full # {} PROVE UDS_QUEUE_CAP - count' <= Cardinality(Pushers')
    BY <1>1 DEF EnoughPushers
  <2>1. Pushers \ {p} \subseteq Pushers'
    BY <1>1 DEF Inv, TypeOK, Pushers, InPush
  <2>2. /\ Cardinality(Pushers) \in Nat /\ Cardinality(Pushers') \in Nat
        /\ Cardinality(Pushers) - 1 <= Cardinality(Pushers')
    BY <2>1, AwakeFinite, LosesOne
  <2>3. UDS_QUEUE_CAP - count <= Cardinality(Pushers)
    BY WakeupParts DEF EnoughPushers
  <2> QED
    BY <1>1, <1>2, <2>2, <2>3
<1>5. ClosedAwake'
  BY <1>1 DEF ClosedAwake
<1> QED
  BY <1>3, <1>4, <1>5, WakeupParts

\* A take: one slot more, and one producer more to fill it.
LEMMA PopTakeWakes ==
    ASSUME Inv, NoLostWakeup, NEW c \in Consumers, PopTake(c)
    PROVE  NoLostWakeup'
<1>1. /\ cpc[c] = "pop" /\ c \notin not_empty /\ count # 0
      /\ count' = count - 1
      /\ signal_not_full /\ not_full' \subseteq not_full
      /\ cpc' = [cpc EXCEPT ![c] = "idle"]
      /\ UNCHANGED <<closed, ppc, not_empty>>
  BY SignalShrinks DEF PopTake, InPop
<1>2. count \in Nat /\ UDS_QUEUE_CAP \in Nat
  BY QueueAssumption DEF Inv, TypeOK
<1>3. EnoughPoppers'
  <2> SUFFICES ASSUME not_empty # {} PROVE count' <= Cardinality(Poppers')
    BY <1>1 DEF EnoughPoppers
  <2>1. Poppers \ {c} \subseteq Poppers'
    BY <1>1 DEF Inv, TypeOK, Poppers, InPop
  <2>2. /\ Cardinality(Poppers) \in Nat /\ Cardinality(Poppers') \in Nat
        /\ Cardinality(Poppers) - 1 <= Cardinality(Poppers')
    BY <2>1, AwakeFinite, LosesOne
  <2>3. count <= Cardinality(Poppers)
    BY WakeupParts DEF EnoughPoppers
  <2> QED
    BY <1>1, <1>2, <2>2, <2>3
<1>4. EnoughPushers'
  <2> SUFFICES ASSUME not_full' # {} PROVE UDS_QUEUE_CAP - count' <= Cardinality(Pushers')
    BY DEF EnoughPushers
  <2>1. not_full # {}
    BY <1>1
  <2>2. PICK p \in not_full : p \notin not_full'
    BY <1>1, <2>1, SignalWakes
  <2>3. p \in Pushers' /\ p \notin Pushers /\ Pushers \subseteq Pushers'
    BY <1>1, <2>2 DEF Inv, TypeOK, WaitersInCall, Pushers, InPush
  <2>4. /\ Cardinality(Pushers) \in Nat /\ Cardinality(Pushers') \in Nat
        /\ Cardinality(Pushers) + 1 <= Cardinality(Pushers')
    BY <2>3, AwakeFinite, GainsOne
  <2>5. UDS_QUEUE_CAP - count <= Cardinality(Pushers)
    BY <2>1, WakeupParts DEF EnoughPushers
  <2> QED
    BY <1>1, <1>2, <2>4, <2>5
<1>5. ClosedAwake'
  BY <1>1, WakeupParts DEF ClosedAwake
<1> QED
  BY <1>3, <1>4, <1>5, WakeupParts

\* A step that changes neither count nor closed, puts no thread to sleep and
\* takes none that is awake out of its call.
LEMMA NobodySleeps ==
    ASSUME NoLostWakeup, UNCHANGED <<count, closed>>,
           not_empty' \subseteq not_empty, not_full' \subseteq not_full,
           Poppers \subseteq Poppers', Pushers \subseteq Pushers', Inv
    PROVE  NoLostWakeup'
<1>1. count \in Nat /\ UDS_QUEUE_CAP \in Nat
  BY QueueAssumption DEF Inv, TypeOK
<1>2. /\ Cardinality(Poppers) \in Nat /\ Cardinality(Poppers') \in Nat
      /\ Cardinality(Poppers) <= Cardinality(Poppers')
  BY AwakeFinite, Keeps
<1>3. /\ Cardinality(Pushers) \in Nat /\ Cardinality(Pushers') \in Nat
      /\ Cardinality(Pushers) <= Cardinality(Pushers')
  BY AwakeFinite, Keeps
<1>4. EnoughPoppers'
  BY <1>1, <1>2, WakeupParts DEF EnoughPoppers
<1>5. EnoughPushers'
  BY <1>1, <1>3, WakeupParts DEF EnoughPushers
<1>6. ClosedAwake'
  BY WakeupParts DEF ClosedAwake
<1> QED
  BY <1>4, <1>5, <1>6, WakeupParts

\* Nobody waits on a closed queue, so what a call does to it wakes nobody.
LEMMA ClosedStaysAwake ==
    ASSUME NoLostWakeup, closed, UNCHANGED <<not_empty, not_full>>
    PROVE  NoLostWakeup'
  BY WakeupParts DEF EnoughPoppers, EnoughPushers, ClosedAwake

LEMMA StepWakes == Inv /\ NoLostWakeup /\ [Next]_vars => NoLostWakeup'
<1> SUFFICES ASSUME Inv, NoLostWakeup, [Next]_vars PROVE NoLostWakeup'
  OBVIOUS
<1>1. ASSUME NEW p \in Producers, NEW m \in Messages, PushCall(p, m) PROVE NoLostWakeup'
  <2>1. /\ ppc[p] = "idle" /\ ppc' = [ppc EXCEPT ![p] = "push"]
        /\ UNCHANGED <<count, closed, not_full, not_empty, cpc>>
    BY <1>1 DEF PushCall, qVars, cVars
  <2>2. Poppers \subseteq Poppers' /\ Pushers \subseteq Pushers'
    BY <2>1 DEF Inv, TypeOK, Poppers, Pushers, InPop, InPush
  <2> QED
    BY <2>1, <2>2, NobodySleeps
<1>2. ASSUME NEW p \in Producers, PushWait(p) PROVE NoLostWakeup'
  <2>1. /\ ~closed /\ count = UDS_QUEUE_CAP
        /\ UNCHANGED <<count, closed, not_empty, cpc>>
    BY <1>2 DEF PushWait, qVars, cVars
  <2>2. UDS_QUEUE_CAP - count' = 0
    BY <2>1, QueueAssumption
  <2>3. Cardinality(Pushers') \in Nat
    BY AwakeFinite, FS_CardinalityType
  <2>4. Poppers' = Poppers
    BY <2>1 DEF Poppers, InPop
  <2>5. EnoughPoppers' /\ EnoughPushers' /\ ClosedAwake'
    BY <2>1, <2>2, <2>3, <2>4, WakeupParts DEF EnoughPoppers, EnoughPushers, ClosedAwake
  <2> QED
    BY <2>5, WakeupParts
<1>3. ASSUME NEW p \in Producers, PushClosed(p) PROVE NoLostWakeup'
  BY <1>3, ClosedStaysAwake DEF PushClosed, cVars
<1>4. ASSUME NEW c \in Consumers, PopCall(c) PROVE NoLostWakeup'
  <2>1. /\ cpc[c] = "idle" /\ cpc' = [cpc EXCEPT ![c] = "pop"]
        /\ UNCHANGED <<count, closed, not_full, not_empty, ppc>>
    BY <1>4 DEF PopCall, qVars, pVars
  <2>2. Poppers \subseteq Poppers' /\ Pushers \subseteq Pushers'
    BY <2>1 DEF Inv, TypeOK, Poppers, Pushers, InPop, InPush
  <2> QED
    BY <2>1, <2>2, NobodySleeps
<1>5. ASSUME NEW c \in Consumers, PopWait(c) PROVE NoLostWakeup'
  <2>1. /\ ~closed /\ count = 0
        /\ UNCHANGED <<count, closed, not_full, ppc>>
    BY <1>5 DEF PopWait, qVars, pVars
  <2>2. Cardinality(Poppers') \in Nat
    BY AwakeFinite, FS_CardinalityType
  <2>3. Pushers' = Pushers
    BY <2>1 DEF Pushers, InPush
  <2>4. EnoughPoppers' /\ EnoughPushers' /\ ClosedAwake'
    BY <2>1, <2>2, <2>3, WakeupParts DEF EnoughPoppers, EnoughPushers, ClosedAwake
  <2> QED
    BY <2>4, WakeupParts
<1>6. ASSUME NEW c \in Consumers, PopClosed(c) PROVE NoLostWakeup'
  BY <1>6, ClosedStaysAwake DEF PopClosed, pVars
<1>7. CASE Shutdown
  BY <1>7, WakeupParts DEF Shutdown, EnoughPoppers, EnoughPushers, ClosedAwake
<1>8. CASE SpuriousWakeup
  <2>1. /\ not_full' \subseteq not_full /\ not_empty' \subseteq not_empty
        /\ UNCHANGED <<count, closed, ppc, cpc>>
    BY <1>8 DEF SpuriousWakeup, qVars
  <2>2. Poppers \subseteq Poppers' /\ Pushers \subseteq Pushers'
    BY <2>1 DEF Poppers, Pushers, InPop, InPush
  <2> QED
    BY <2>1, <2>2, NobodySleeps
<1>9. CASE UNCHANGED vars
  BY <1>9 DEF NoLostWakeup, InPop, InPush, vars, qVars, pVars, cVars
<1> QED
  BY <1>1, <1>2, <1>3, <1>4, <1>5, <1>6, <1>7, <1>8, <1>9, PushStoreWakes, PopTakeWakes
     DEF Next, Push, Pop

LEMMA InitWakes == Init => NoLostWakeup
  BY DEF Init, NoLostWakeup

\* However many threads push, pop, shut down and wake up by themselves, no
\* wake-up is lost: a consumer sleeps only while there is an awake one for
\* every message queued, a producer only while there is an awake one for every
\* free slot, and nobody once uds_queue_shutdown has run.
THEOREM NoWakeupIsLost == Spec => []NoLostWakeup
  BY InitWakes, StepWakes, AlwaysInv, PTL DEF Spec
-----------------------------------------------------------------------------
(* The ring implements BoundedFifo. *)

Slot == Messages \cup {NoMessage}

\* The index of the i-th oldest message.
Place(h, i) == (h + i - 1) % UDS_QUEUE_CAP

LEMMA PlaceValue ==
    ASSUME NEW h \in Indices, NEW i \in 1..UDS_QUEUE_CAP
    PROVE  /\ Place(h, i) = IF h + i - 1 < UDS_QUEUE_CAP THEN h + i - 1 ELSE h + i - 1 - UDS_QUEUE_CAP
           /\ Place(h, i) = (h + (i - 1)) % UDS_QUEUE_CAP
           /\ Place(h, i) \in Indices
<1>1. UDS_QUEUE_CAP \in Nat \ {0} /\ h \in 0..(UDS_QUEUE_CAP - 1)
  BY QueueAssumption DEF Indices
<1>2. i - 1 \in 0..UDS_QUEUE_CAP /\ h + (i - 1) = h + i - 1
  BY <1>1
<1>3. (h + (i - 1)) % UDS_QUEUE_CAP
        = IF h + (i - 1) < UDS_QUEUE_CAP THEN h + (i - 1) ELSE h + (i - 1) - UDS_QUEUE_CAP
  BY <1>1, <1>2, RingIndex
<1>4. Place(h, i) = (h + (i - 1)) % UDS_QUEUE_CAP
  BY <1>2 DEF Place
<1>5. Place(h, i) = IF h + i - 1 < UDS_QUEUE_CAP THEN h + i - 1 ELSE h + i - 1 - UDS_QUEUE_CAP
  BY <1>2, <1>3, <1>4
<1> DEFINE e == Place(h, i)
<1>6. e = IF h + i - 1 < UDS_QUEUE_CAP THEN h + i - 1 ELSE h + i - 1 - UDS_QUEUE_CAP
  BY <1>5
<1> HIDE DEF e
<1>7. e \in Indices
  BY <1>1, <1>6 DEF Indices
<1> QED
  BY <1>4, <1>5, <1>7 DEF e

\* Two places of the ring are two slots.
LEMMA PlacesDiffer ==
    ASSUME NEW h \in Indices, NEW i \in 1..UDS_QUEUE_CAP, NEW j \in 1..UDS_QUEUE_CAP, i # j
    PROVE  Place(h, i) # Place(h, j)
<1>1. UDS_QUEUE_CAP \in Nat \ {0} /\ h \in 0..(UDS_QUEUE_CAP - 1)
  BY QueueAssumption DEF Indices
<1>2. Place(h, i) = IF h + i - 1 < UDS_QUEUE_CAP THEN h + i - 1 ELSE h + i - 1 - UDS_QUEUE_CAP
  BY PlaceValue
<1>3. Place(h, j) = IF h + j - 1 < UDS_QUEUE_CAP THEN h + j - 1 ELSE h + j - 1 - UDS_QUEUE_CAP
  BY PlaceValue
<1> QED
  BY <1>1, <1>2, <1>3

\* The queued messages as a sequence, before and after a step.
LEMMA QueuedSeq ==
    ASSUME TypeOK
    PROVE  /\ count \in Nat
           /\ Queued \in [1..count -> Slot] /\ Queued \in Seq(Slot)
           /\ Len(Queued) = count
           /\ \A i \in 1..count : Queued[i] = slots[Place(head, i)]
<1>1. count \in Nat /\ count <= UDS_QUEUE_CAP /\ UDS_QUEUE_CAP \in Nat
  BY QueueAssumption DEF TypeOK
<1>2. Queued = [i \in 1..count |-> slots[Place(head, i)]]
  BY DEF Queued, Place
<1>3. ASSUME NEW i \in 1..count PROVE slots[Place(head, i)] \in Slot
  <2>1. i \in 1..UDS_QUEUE_CAP /\ head \in Indices
    BY <1>1 DEF TypeOK
  <2>2. Place(head, i) \in Indices
    BY <2>1, PlaceValue
  <2> QED
    BY <2>2 DEF TypeOK, Slot
<1>4. Queued \in [1..count -> Slot]
  BY <1>2, <1>3
<1>5. Queued \in Seq(Slot) /\ Len(Queued) = count
  BY <1>1, <1>4
<1> QED
  BY <1>1, <1>2, <1>4, <1>5

LEMMA QueuedSeqNext ==
    ASSUME TypeOK'
    PROVE  /\ count' \in Nat
           /\ Queued' \in [1..count' -> Slot] /\ Queued' \in Seq(Slot)
           /\ Len(Queued') = count'
           /\ \A i \in 1..count' : Queued'[i] = slots'[Place(head', i)]
<1>1. count' \in Nat /\ count' <= UDS_QUEUE_CAP /\ UDS_QUEUE_CAP \in Nat
  BY QueueAssumption DEF TypeOK
<1>2. Queued' = [i \in 1..count' |-> slots'[Place(head', i)]]
  BY DEF Queued, Place
<1>3. ASSUME NEW i \in 1..count' PROVE slots'[Place(head', i)] \in Slot
  <2>1. i \in 1..UDS_QUEUE_CAP /\ head' \in Indices
    BY <1>1 DEF TypeOK
  <2>2. Place(head', i) \in Indices
    BY <2>1, PlaceValue
  <2> QED
    BY <2>2 DEF TypeOK, Slot
<1>4. Queued' \in [1..count' -> Slot]
  BY <1>2, <1>3
<1>5. Queued' \in Seq(Slot) /\ Len(Queued') = count'
  BY <1>1, <1>4
<1> QED
  BY <1>1, <1>2, <1>4, <1>5

\* A store appends the producer's message.
LEMMA StoreAppends ==
    ASSUME Inv, Inv', NEW p \in Producers, PushStore(p)
    PROVE  Fifo!Put(data[p]) /\ data[p] \in Messages
<1>1. /\ ppc[p] = "push" /\ ~closed /\ count # UDS_QUEUE_CAP
      /\ slots' = [slots EXCEPT ![tail] = data[p]]
      /\ count' = count + 1
      /\ UNCHANGED <<head, closed, out>>
  BY DEF PushStore, InPush
<1>2. /\ UDS_QUEUE_CAP \in Nat /\ count < UDS_QUEUE_CAP /\ head \in Indices /\ tail \in Indices
      /\ slots \in [Indices -> Slot]
  BY <1>1, QueueAssumption DEF Inv, TypeOK, Slot
<1>3. data[p] \in Messages
  BY <1>1 DEF Inv, PusherHasMessage
<1>4. /\ count \in Nat /\ Queued \in Seq(Slot) /\ Len(Queued) = count
      /\ \A i \in 1..count : Queued[i] = slots[Place(head, i)]
  BY QueuedSeq DEF Inv
<1>5. /\ Queued' \in Seq(Slot) /\ Len(Queued') = count + 1
      /\ \A i \in 1..(count + 1) : Queued'[i] = slots'[Place(head, i)]
  BY <1>1, QueuedSeqNext DEF Inv
<1>6. Place(head, count + 1) = tail
  <2>1. count + 1 \in 1..UDS_QUEUE_CAP /\ (count + 1) - 1 = count
    BY <1>2, <1>4
  <2>2. Place(head, count + 1) = (head + ((count + 1) - 1)) % UDS_QUEUE_CAP
    BY <1>2, <2>1, PlaceValue
  <2> QED
    BY <2>1, <2>2 DEF Inv, RingAgrees
<1>7. ASSUME NEW i \in 1..count PROVE Queued'[i] = Queued[i]
  <2>1. /\ i \in 1..UDS_QUEUE_CAP /\ count + 1 \in 1..UDS_QUEUE_CAP /\ i # count + 1
        /\ i \in 1..(count + 1)
    BY <1>2, <1>4
  <2>2. Place(head, i) # tail /\ Place(head, i) \in Indices
    BY <1>2, <1>6, <2>1, PlacesDiffer, PlaceValue
  <2>3. slots'[Place(head, i)] = slots[Place(head, i)]
    BY <1>1, <1>2, <2>2
  <2> QED
    BY <1>4, <1>5, <2>1, <2>3
<1>8. Queued'[count + 1] = data[p]
  <2>1. count + 1 \in 1..(count + 1)
    BY <1>4
  <2>2. slots'[tail] = data[p]
    BY <1>1, <1>2
  <2> QED
    BY <1>5, <1>6, <2>1, <2>2
<1>9. Queued' = Append(Queued, data[p])
  <2>1. data[p] \in Slot
    BY <1>3 DEF Slot
  <2>2. /\ Append(Queued, data[p]) \in Seq(Slot)
        /\ Len(Append(Queued, data[p])) = count + 1
        /\ \A i \in 1..count : Append(Queued, data[p])[i] = Queued[i]
        /\ Append(Queued, data[p])[count + 1] = data[p]
    BY <1>4, <2>1, AppendProperties
  <2>3. \A i \in 1..(count + 1) : i \in 1..count \/ i = count + 1
    BY <1>4
  <2>4. \A i \in 1..(count + 1) : Queued'[i] = Append(Queued, data[p])[i]
    BY <1>7, <1>8, <2>2, <2>3
  <2> QED
    BY <1>5, <2>2, <2>4, SeqEqual
<1> QED
  BY <1>1, <1>2, <1>3, <1>4, <1>9 DEF Fifo!Put

\* A take removes the oldest message and hands it to the consumer.
LEMMA TakeRemoves ==
    ASSUME Inv, Inv', NEW c \in Consumers, PopTake(c)
    PROVE  Fifo!Take(c)
<1>1. /\ count # 0
      /\ out' = [out EXCEPT ![c] = slots[head]]
      /\ head' = NextIndex(head) /\ count' = count - 1
      /\ UNCHANGED <<slots, closed>>
  BY DEF PopTake
<1>2. /\ UDS_QUEUE_CAP \in Nat /\ count <= UDS_QUEUE_CAP /\ head \in Indices
      /\ head \in Nat /\ head < UDS_QUEUE_CAP
  BY QueueAssumption DEF Inv, TypeOK, Indices
<1>3. /\ count \in Nat /\ Queued \in Seq(Slot) /\ Len(Queued) = count
      /\ \A i \in 1..count : Queued[i] = slots[Place(head, i)]
  BY QueuedSeq DEF Inv
<1>4. /\ Queued' \in Seq(Slot) /\ Len(Queued') = count - 1
      /\ \A i \in 1..(count - 1) : Queued'[i] = slots[Place(NextIndex(head), i)]
  BY <1>1, QueuedSeqNext DEF Inv
<1>5. Queued # <<>>
  BY <1>1, <1>3, EmptySeq
<1>6. Head(Queued) = slots[head]
  <2>1. 1 \in 1..count /\ 1 \in 1..UDS_QUEUE_CAP
    BY <1>1, <1>2, <1>3
  <2>2. Place(head, 1) = head
    BY <1>2, <2>1, PlaceValue
  <2>3. Head(Queued) = Queued[1]
    BY <1>3, <1>5
  <2> QED
    BY <1>3, <2>1, <2>2, <2>3
<1>7. /\ Tail(Queued) \in Seq(Slot) /\ Len(Tail(Queued)) = count - 1
      /\ \A i \in 1..(count - 1) : Tail(Queued)[i] = Queued[i + 1]
  BY <1>3, <1>5, HeadTailProperties
<1>8. ASSUME NEW i \in 1..(count - 1) PROVE Queued'[i] = Tail(Queued)[i]
  <2>1. /\ i \in 0..UDS_QUEUE_CAP /\ i # 0 /\ i \in 1..UDS_QUEUE_CAP
        /\ i + 1 \in 1..UDS_QUEUE_CAP /\ i + 1 \in 1..count /\ (i + 1) - 1 = i
    BY <1>2, <1>3
  <2>2. (NextIndex(head) + (i - 1)) % UDS_QUEUE_CAP = (head + i) % UDS_QUEUE_CAP
    BY <1>2, <2>1, RingShrinks
  <2>3. NextIndex(head) \in Indices
    BY <1>2, NextIndexValue
  <2>4. Place(NextIndex(head), i) = (NextIndex(head) + (i - 1)) % UDS_QUEUE_CAP
    BY <2>1, <2>3, PlaceValue
  <2>5. Place(head, i + 1) = (head + ((i + 1) - 1)) % UDS_QUEUE_CAP
    BY <1>2, <2>1, PlaceValue
  <2>6. Place(NextIndex(head), i) = Place(head, i + 1)
    BY <2>1, <2>2, <2>4, <2>5
  <2> QED
    BY <1>3, <1>4, <1>7, <2>1, <2>6
<1>9. Queued' = Tail(Queued)
  BY <1>4, <1>7, <1>8, SeqEqual
<1> QED
  BY <1>1, <1>5, <1>6, <1>9 DEF Fifo!Take

LEMMA InitFifo == Init => Fifo!Init
<1> SUFFICES ASSUME Init PROVE Fifo!Init
  OBVIOUS
<1>1. Len(Queued) = 0 /\ Queued \in Seq(Slot)
  BY InitInv, QueuedSeq DEF Inv, Init
<1>2. Queued = <<>>
  BY <1>1, EmptySeq
<1> QED
  BY <1>2 DEF Init, Fifo!Init

LEMMA StepFifo == Inv /\ Inv' /\ [Next]_vars => [Fifo!Next]_(Fifo!vars)
<1> SUFFICES ASSUME Inv, Inv', [Next]_vars PROVE [Fifo!Next]_(Fifo!vars)
  OBVIOUS
<1>1. ASSUME UNCHANGED <<slots, head, count, closed, out>> PROVE UNCHANGED Fifo!vars
  BY <1>1 DEF Fifo!vars, Queued
<1>2. ASSUME NEW p \in Producers, NEW m \in Messages, PushCall(p, m) PROVE UNCHANGED Fifo!vars
  BY <1>1, <1>2 DEF PushCall, qVars, cVars
<1>3. ASSUME NEW p \in Producers, PushWait(p) \/ PushClosed(p) PROVE UNCHANGED Fifo!vars
  BY <1>1, <1>3 DEF PushWait, PushClosed, qVars, cVars
<1>4. ASSUME NEW p \in Producers, PushStore(p) PROVE Fifo!Next
  BY <1>4, StoreAppends DEF Fifo!Next
<1>5. ASSUME NEW c \in Consumers, PopCall(c) PROVE UNCHANGED Fifo!vars
  BY <1>1, <1>5 DEF PopCall, qVars
<1>6. ASSUME NEW c \in Consumers, PopWait(c) \/ PopClosed(c) PROVE UNCHANGED Fifo!vars
  BY <1>1, <1>6 DEF PopWait, PopClosed, qVars
<1>7. ASSUME NEW c \in Consumers, PopTake(c) PROVE Fifo!Next
  BY <1>7, TakeRemoves DEF Fifo!Next
<1>8. CASE Shutdown
  <2>1. Queued' = Queued
    BY <1>8 DEF Shutdown, Queued
  <2> QED
    BY <1>8, <2>1 DEF Shutdown, Fifo!Next, Fifo!Close
<1>9. CASE SpuriousWakeup
  BY <1>1, <1>9 DEF SpuriousWakeup, qVars
<1>10. CASE UNCHANGED vars
  BY <1>1, <1>10 DEF vars, qVars, cVars
<1> QED
  BY <1>2, <1>3, <1>4, <1>5, <1>6, <1>7, <1>8, <1>9, <1>10 DEF Next, Push, Pop

\* The ring is a bounded first-in first-out queue: every message is delivered
\* once, in the order of the stores, to the consumer whose pop took it, and
\* nothing gets in once uds_queue_shutdown has closed it.
THEOREM RingImplementsFifo == Spec => ImplementsFifo
  BY InitFifo, StepFifo, AlwaysInv, PTL DEF Spec, ImplementsFifo, Fifo!Spec
=============================================================================
