------------------------------ MODULE UdsQueue ------------------------------
(***************************************************************************)
(* src/queue.c: the bounded blocking queue between rx_thread (producer)    *)
(* and dispatch_thread (consumer), for any number of either.               *)
(*                                                                         *)
(* Every function is one critical section under uds_queue_t.lock, broken   *)
(* only where pthread_cond_wait gives the lock up: a thread in a wait set  *)
(* has released it, and one that has been woken goes through the loop's    *)
(* test again.  A signal wakes at least one waiter, and a waiter may also  *)
(* wake up on its own, as POSIX allows.  A thread whose call returned -1   *)
(* does not call again (both loops in src/threads.c break).                *)
(***************************************************************************)
EXTENDS Naturals, Sequences, FiniteSets

CONSTANTS Producers, Consumers, Messages, NoMessage, UDS_QUEUE_CAP

ASSUME QueueAssumption ==
    /\ UDS_QUEUE_CAP \in Nat \ {0}
    /\ NoMessage \notin Messages
    /\ IsFiniteSet(Producers) /\ IsFiniteSet(Consumers)

VARIABLES
    slots,      \* the ring: index -> message; popped slots keep their bytes
    head, tail, count, closed,
    not_full,   \* producers waiting on the condition not_full
    not_empty,  \* consumers waiting on the condition not_empty
    ppc,        \* producer -> "idle", "push" (in the call) or "done"
    data,       \* producer -> the message it is pushing
    cpc,        \* consumer -> "idle", "pop" (in the call) or "done"
    out         \* consumer -> the last message it got

qVars == <<slots, head, tail, count, closed>>
pVars == <<not_full, ppc, data>>
cVars == <<not_empty, cpc, out>>
vars  == <<qVars, pVars, cVars>>

Indices == 0..(UDS_QUEUE_CAP - 1)

\* uds_queue_init, before any thread uses the queue.
Init ==
    /\ slots = [i \in Indices |-> NoMessage]
    /\ head = 0 /\ tail = 0 /\ count = 0
    /\ closed = FALSE
    /\ not_full = {} /\ not_empty = {}
    /\ ppc = [p \in Producers |-> "idle"]
    /\ data = [p \in Producers |-> NoMessage]
    /\ cpc = [c \in Consumers |-> "idle"]
    /\ out = [c \in Consumers |-> NoMessage]

\* pthread_cond_signal: the sets of waiters it may wake.
Woken(waiters) == IF waiters = {} THEN {{}} ELSE (SUBSET waiters) \ {{}}

MutantSignalOnEdge ==
    IF count = 0 THEN \E W \in Woken(not_empty) : not_empty' = not_empty \ W
                 ELSE UNCHANGED not_empty

signal_not_empty == \E W \in Woken(not_empty) : not_empty' = not_empty \ W

MutantNoSignal == UNCHANGED not_full

signal_not_full == \E W \in Woken(not_full) : not_full' = not_full \ W

MutantNoWrap(i) == i + 1

\* (i + 1) % UDS_QUEUE_CAP
NextIndex(i) == (i + 1) % UDS_QUEUE_CAP

-----------------------------------------------------------------------------
(* uds_queue_push *)

PushCall(p, m) ==
    /\ ppc[p] = "idle"
    /\ ppc' = [ppc EXCEPT ![p] = "push"]
    /\ data' = [data EXCEPT ![p] = m]
    /\ UNCHANGED <<qVars, not_full, cVars>>

\* The producer is in the call and holds the lock.
InPush(p) == ppc[p] = "push" /\ p \notin not_full

PushReturns(p, pc) ==
    /\ ppc' = [ppc EXCEPT ![p] = pc]
    /\ data' = [data EXCEPT ![p] = NoMessage]

PushWait(p) ==
    /\ InPush(p)
    /\ ~closed /\ count = UDS_QUEUE_CAP
    /\ not_full' = not_full \cup {p}
    /\ UNCHANGED <<qVars, ppc, data, cVars>>

PushClosed(p) ==
    /\ InPush(p)
    /\ closed
    /\ PushReturns(p, "done")
    /\ UNCHANGED <<qVars, not_full, cVars>>

PushStore(p) ==
    /\ InPush(p)
    /\ ~closed /\ count # UDS_QUEUE_CAP
    /\ slots' = [slots EXCEPT ![tail] = data[p]]
    /\ tail' = NextIndex(tail)
    /\ count' = count + 1
    /\ signal_not_empty
    /\ PushReturns(p, "idle")
    /\ UNCHANGED <<head, closed, not_full, cpc, out>>

-----------------------------------------------------------------------------
(* uds_queue_pop_blocking *)

PopCall(c) ==
    /\ cpc[c] = "idle"
    /\ cpc' = [cpc EXCEPT ![c] = "pop"]
    /\ UNCHANGED <<qVars, pVars, not_empty, out>>

InPop(c) == cpc[c] = "pop" /\ c \notin not_empty

PopWait(c) ==
    /\ InPop(c)
    /\ ~closed /\ count = 0
    /\ not_empty' = not_empty \cup {c}
    /\ UNCHANGED <<qVars, pVars, cpc, out>>

MutantClosedPopFails(c) ==
    /\ InPop(c)
    /\ closed
    /\ cpc' = [cpc EXCEPT ![c] = "done"]
    /\ UNCHANGED <<qVars, pVars, not_empty, out>>

\* Closed and drained.
PopClosed(c) ==
    /\ InPop(c)
    /\ closed /\ count = 0
    /\ cpc' = [cpc EXCEPT ![c] = "done"]
    /\ UNCHANGED <<qVars, pVars, not_empty, out>>

MutantPopForgetsHead(c) ==
    /\ InPop(c)
    /\ count # 0
    /\ out' = [out EXCEPT ![c] = slots[head]]
    /\ count' = count - 1
    /\ signal_not_full
    /\ cpc' = [cpc EXCEPT ![c] = "idle"]
    /\ UNCHANGED <<slots, head, tail, closed, ppc, data, not_empty>>

PopTake(c) ==
    /\ InPop(c)
    /\ count # 0
    /\ out' = [out EXCEPT ![c] = slots[head]]
    /\ head' = NextIndex(head)
    /\ count' = count - 1
    /\ signal_not_full
    /\ cpc' = [cpc EXCEPT ![c] = "idle"]
    /\ UNCHANGED <<slots, tail, closed, ppc, data, not_empty>>

-----------------------------------------------------------------------------

MutantBroadcastsOnce ==
    /\ closed' = TRUE
    /\ not_full' = {}
    /\ UNCHANGED <<slots, head, tail, count, not_empty, ppc, data, cpc, out>>

\* uds_queue_shutdown: both conditions are broadcast.  main and rx_thread both
\* call it, so it may come twice.
Shutdown ==
    /\ closed' = TRUE
    /\ not_empty' = {}
    /\ not_full' = {}
    /\ UNCHANGED <<slots, head, tail, count, ppc, data, cpc, out>>

SpuriousWakeup ==
    /\ \/ \E p \in not_full : not_full' = not_full \ {p} /\ UNCHANGED not_empty
       \/ \E c \in not_empty : not_empty' = not_empty \ {c} /\ UNCHANGED not_full
    /\ UNCHANGED <<qVars, ppc, data, cpc, out>>

Push(p) == PushWait(p) \/ PushClosed(p) \/ PushStore(p)

Pop(c) == PopWait(c) \/ PopClosed(c) \/ PopTake(c)

Next ==
    \/ \E p \in Producers : Push(p) \/ \E m \in Messages : PushCall(p, m)
    \/ \E c \in Consumers : Pop(c) \/ PopCall(c)
    \/ Shutdown
    \/ SpuriousWakeup

Spec == Init /\ [][Next]_vars

\* A thread that can run does, and the dispatcher comes back for the next
\* message.  Nobody has to push, to shut down or to wake up on its own.
FairSpec ==
    /\ Spec
    /\ \A p \in Producers : WF_vars(Push(p))
    /\ \A c \in Consumers : WF_vars(Pop(c)) /\ WF_vars(PopCall(c))

-----------------------------------------------------------------------------
(* Properties. *)

\* Type invariant; the indices stay in the ring.
TypeOK ==
    /\ slots \in [Indices -> Messages \cup {NoMessage}]
    /\ head \in Indices /\ tail \in Indices
    /\ count \in 0..UDS_QUEUE_CAP
    /\ closed \in BOOLEAN
    /\ not_full \subseteq Producers /\ not_empty \subseteq Consumers
    /\ ppc \in [Producers -> {"idle", "push", "done"}]
    /\ data \in [Producers -> Messages \cup {NoMessage}]
    /\ cpc \in [Consumers -> {"idle", "pop", "done"}]
    /\ out \in [Consumers -> Messages \cup {NoMessage}]

(***************************************************************************)
(* No wake-up is lost: while a consumer sleeps, there is for every queued  *)
(* message a consumer awake in its call that will look at it; the same for *)
(* producers and free slots.  Nobody sleeps on a closed queue.             *)
(***************************************************************************)
NoLostWakeup ==
    /\ not_empty # {} => count <= Cardinality({c \in Consumers : InPop(c)})
    /\ not_full # {} => UDS_QUEUE_CAP - count <= Cardinality({p \in Producers : InPush(p)})
    /\ closed => not_full = {} /\ not_empty = {}

\* The messages in the ring, oldest first.
Queued == [i \in 1..count |-> slots[(head + i - 1) % UDS_QUEUE_CAP]]

Fifo == INSTANCE BoundedFifo WITH
    Takers   <- Consumers,
    Items    <- Messages,
    Capacity <- UDS_QUEUE_CAP,
    Nothing  <- NoMessage,
    queue    <- Queued,
    isClosed <- closed,
    taken    <- out

\* The ring delivers every message once, in order, to the consumer that took
\* it, and takes none in once it is closed.
ImplementsFifo == Fifo!Spec

\* Shutdown gets every thread out of its call: nobody stays in
\* pthread_cond_wait (include/queue.h, "wakes all waiters").
ShutdownReleasesCallers ==
    /\ \A p \in Producers : closed /\ ppc[p] = "push" ~> ppc[p] # "push"
    /\ \A c \in Consumers : closed /\ cpc[c] = "pop" ~> cpc[c] # "pop"

\* A full queue delays rx_thread, it does not stop it: every push returns.
EveryPushReturns == \A p \in Producers : ppc[p] = "push" ~> ppc[p] # "push"
=============================================================================
