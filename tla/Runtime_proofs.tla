--------------------------- MODULE Runtime_proofs ---------------------------
(***************************************************************************)
(* Proofs about Runtime, for every set of messages and queue capacity: the *)
(* threads use the request queue as UdsQueue specifies it, so that what is *)
(* proved of the queue holds in the process; main destroys only what no    *)
(* thread uses; and a receiver that fails loses no request.                *)
(***************************************************************************)
EXTENDS Runtime, FiniteSetTheorems, TLAPS

\* The theorems about the queue, for this producer and this consumer.
QP == INSTANCE UdsQueue_proofs WITH Producers <- {rx}, Consumers <- {dispatcher}

-----------------------------------------------------------------------------
(* The process uses the queue as UdsQueue specifies it. *)

LEMMA QueueConstants == QP!QueueAssumption
<1>1. ASSUME NEW S PROVE IsFiniteSet(S) <=> QP!IsFiniteSet(S)
  BY Zenon DEF IsFiniteSet, QP!IsFiniteSet
<1> QED
  BY <1>1, RuntimeAssumption, FS_Singleton

\* Q and QP are the same instance of UdsQueue.
LEMMA SameInit == Q!Init <=> QP!Init
  BY DEF Q!Init, QP!Init, Q!Indices, QP!Indices

LEMMA SameNext == Q!Next <=> QP!Next
<1>1. ASSUME NEW p, NEW m PROVE Q!PushCall(p, m) <=> QP!PushCall(p, m)
  BY DEF Q!PushCall, QP!PushCall, Q!qVars, QP!qVars, Q!cVars, QP!cVars
<1>2. ASSUME NEW p PROVE Q!Push(p) <=> QP!Push(p)
  BY DEF Q!Push, QP!Push, Q!PushWait, QP!PushWait, Q!PushClosed, QP!PushClosed,
         Q!PushStore, QP!PushStore, Q!InPush, QP!InPush, Q!PushReturns, QP!PushReturns,
         Q!NextIndex, QP!NextIndex, Q!signal_not_empty, QP!signal_not_empty,
         Q!Woken, QP!Woken, Q!qVars, QP!qVars, Q!cVars, QP!cVars
<1>3. ASSUME NEW c PROVE Q!PopCall(c) <=> QP!PopCall(c)
  BY DEF Q!PopCall, QP!PopCall, Q!qVars, QP!qVars, Q!pVars, QP!pVars
<1>4. ASSUME NEW c PROVE Q!Pop(c) <=> QP!Pop(c)
  BY DEF Q!Pop, QP!Pop, Q!PopWait, QP!PopWait, Q!PopClosed, QP!PopClosed,
         Q!PopTake, QP!PopTake, Q!InPop, QP!InPop,
         Q!NextIndex, QP!NextIndex, Q!signal_not_full, QP!signal_not_full,
         Q!Woken, QP!Woken, Q!qVars, QP!qVars, Q!pVars, QP!pVars
<1>5. Q!Shutdown <=> QP!Shutdown
  BY DEF Q!Shutdown, QP!Shutdown
<1>6. Q!SpuriousWakeup <=> QP!SpuriousWakeup
  BY DEF Q!SpuriousWakeup, QP!SpuriousWakeup, Q!qVars, QP!qVars
<1> QED
  BY <1>1, <1>2, <1>3, <1>4, <1>5, <1>6 DEF Q!Next, QP!Next

LEMMA SameVars == Q!vars = QP!vars /\ Q!vars' = QP!vars'
  BY DEF Q!vars, QP!vars, Q!qVars, QP!qVars, Q!pVars, QP!pVars, Q!cVars, QP!cVars

LEMMA SameProperties ==
    /\ Q!TypeOK <=> QP!TypeOK
    /\ Q!TypeOK' <=> QP!TypeOK'
    /\ Q!NoLostWakeup <=> QP!NoLostWakeup
<1>1. Q!TypeOK <=> QP!TypeOK
  BY DEF Q!TypeOK, QP!TypeOK, Q!Indices, QP!Indices
<1>2. Q!TypeOK' <=> QP!TypeOK'
  BY DEF Q!TypeOK, QP!TypeOK, Q!Indices, QP!Indices
<1>3. Q!NoLostWakeup <=> QP!NoLostWakeup
  BY DEF Q!NoLostWakeup, QP!NoLostWakeup, Q!InPop, QP!InPop, Q!InPush, QP!InPush,
         Q!Cardinality, QP!Cardinality, Q!IsFiniteSet, QP!IsFiniteSet
<1> QED
  BY <1>1, <1>2, <1>3

\* A step of the process is a step of the queue, or leaves it alone.
LEMMA QueueStep == [Next]_vars => [Q!Next]_(Q!vars)
<1> SUFFICES ASSUME [Next]_vars PROVE [Q!Next]_(Q!vars)
  OBVIOUS
<1>1. ASSUME UNCHANGED queueVars PROVE UNCHANGED Q!vars
  BY <1>1 DEF queueVars, Q!vars, Q!qVars, Q!pVars, Q!cVars
<1>2. CASE Rx
  BY <1>1, <1>2 DEF Rx, RxTest, RxEnterRead, RxTimeout, RxPush, RxLeave, Q!Next
<1>3. CASE Dispatch
  BY <1>1, <1>3 DEF Dispatch, DispatchTest, DispatchPop, DispatchHandle, Q!Next
<1>4. ASSUME NEW t \in {"app", "s3"}, LoopEnds(t) PROVE UNCHANGED Q!vars
  BY <1>1, <1>4 DEF LoopEnds
<1>5. CASE Main
  <2>1. CASE Open
    BY <1>1, <2>1 DEF Open, OpenSocket, OpenStep, OpenFails
  <2>2. CASE MainShutdown
    BY <2>2 DEF MainShutdown, Q!Next
  <2> QED
    BY <1>1, <1>5, <2>1, <2>2
       DEF Main, InstallHandlers, CreateThread, MainTest, MainPause, MainClose, MainJoin
<1>6. CASE Bus
  BY <1>1, <1>6 DEF Bus, RxMessage, RxNothing, RxError, Q!Next
<1>7. CASE Signal \/ SignalKills
  BY <1>1, <1>7 DEF Signal, SignalKills
<1>8. CASE SpuriousWakeup
  BY <1>8 DEF SpuriousWakeup, Q!Next
<1>9. CASE UNCHANGED vars
  BY <1>1, <1>9 DEF vars
<1> QED
  BY <1>2, <1>3, <1>4, <1>5, <1>6, <1>7, <1>8, <1>9 DEF Next

\* The threads call the queue only as UdsQueue allows: one producer and one
\* consumer, each in one call at a time, and a shutdown from either side.
THEOREM UsesQueueAsSpecified == Spec => Q!Spec
<1>1. Init => Q!Init
  BY DEF Init
<1> QED
  BY <1>1, QueueStep, PTL DEF Spec, Q!Spec

LEMMA QueueBehaviour == Spec => QP!Spec
<1>1. Init => QP!Init
  BY SameInit DEF Init
<1>2. [Next]_vars => [QP!Next]_(QP!vars)
  BY QueueStep, SameNext, SameVars
<1> QED
  BY <1>1, <1>2, PTL DEF Spec, QP!Spec

\* In the running process no wake-up of rx_thread or dispatch_thread is lost,
\* and dispatch_thread gets the requests in the order in which rx_thread
\* stored them, each one once.
THEOREM RequestsDeliveredInOrder == Spec => []Q!NoLostWakeup /\ Q!ImplementsFifo
<1>1. QP!Spec => []QP!NoLostWakeup
  BY QueueConstants, QP!NoWakeupIsLost, PTL
<1>2. QP!Spec => QP!ImplementsFifo
  BY QueueConstants, QP!RingImplementsFifo, PTL
<1>3. QP!NoLostWakeup => Q!NoLostWakeup
  BY SameProperties
<1>4. QP!ImplementsFifo => Q!ImplementsFifo
  <2>1. Q!Queued = QP!Queued /\ Q!Queued' = QP!Queued'
    BY DEF Q!Queued, QP!Queued
  <2>2. QP!Fifo!Init => Q!Fifo!Init
    BY <2>1 DEF QP!Fifo!Init, Q!Fifo!Init
  <2>3. [QP!Fifo!Next]_(QP!Fifo!vars) => [Q!Fifo!Next]_(Q!Fifo!vars)
    BY <2>1 DEF QP!Fifo!Next, Q!Fifo!Next, QP!Fifo!vars, Q!Fifo!vars, QP!Fifo!Put, Q!Fifo!Put,
                QP!Fifo!Take, Q!Fifo!Take, QP!Fifo!Close, Q!Fifo!Close
  <2> QED
    BY <2>2, <2>3, PTL DEF QP!ImplementsFifo, Q!ImplementsFifo, QP!Fifo!Spec, Q!Fifo!Spec
<1> QED
  BY QueueBehaviour, <1>1, <1>2, <1>3, <1>4, PTL
-----------------------------------------------------------------------------
(* The threads. *)

\* The places main is in before it has created a thread.
Early == Starting \cup {"failed", "killed", "create_rx"}

\* A thread runs only once main has created it, and is over once main has
\* joined it.
ThreadsFollowMain ==
    /\ mpc \in Early => rpc = "new"
    /\ mpc \in Early \cup {"create_dispatch"} => dpc = "new"
    /\ mpc \in Early \cup {"create_dispatch", "create_app"} => loops = {}
    /\ mpc = "exit" => rpc = "done" /\ dpc = "done" /\ loops = {}

\* The descriptor is open only between socket() and close().
SocketFollowsMain == mpc \in {"socket", "join"} \cup Ended => ~fdOpen

\* main leaves its loop, and closes the queue, only after a signal.
StopFollowsSignal ==
    /\ mpc \in {"shutdown", "close", "join", "exit"} => stop
    /\ closed => stop \/ rpc = "done"

\* What TypeOK says besides the queue's own types.
ThreadTypes ==
    /\ stop \in BOOLEAN /\ fdOpen \in BOOLEAN /\ sock \in BOOLEAN
    /\ errno \in {"none", "EAGAIN", "EINTR", "EBADF", "other"}
    /\ mpc \in Starting \cup Ended \cup
              {"create_rx", "create_dispatch", "create_app", "create_s3",
               "test", "call_pause", "pause", "shutdown", "close", "join"}
    /\ rpc \in {"new", "loop", "recv", "read", "push", "leave", "done"}
    /\ dpc \in {"new", "loop", "pop", "handle", "done"}
    /\ loops \subseteq {"app", "s3"}
    /\ rpc = "push" <=> ppc[rx] = "push"
    /\ dpc = "pop" <=> cpc[dispatcher] = "pop"

ThreadInv ==
    /\ ThreadTypes
    /\ ThreadsFollowMain
    /\ SocketFollowsMain
    /\ StopFollowsSignal
    /\ ReceiverFailureLosesNothing

LEMMA TypeParts == TypeOK <=> Q!TypeOK /\ ThreadTypes
  BY DEF TypeOK, ThreadTypes

LEMMA InitThreads == Init => ThreadInv
<1> SUFFICES ASSUME Init PROVE ThreadInv
  OBVIOUS
<1>1. ppc[rx] = "idle" /\ cpc[dispatcher] = "idle" /\ ~closed
  BY DEF Init, Q!Init
<1>2. ThreadTypes
  BY <1>1 DEF Init, ThreadTypes, Starting
<1>3. ThreadsFollowMain
  BY DEF Init, ThreadsFollowMain
<1>4. SocketFollowsMain /\ StopFollowsSignal /\ ReceiverFailureLosesNothing
  BY <1>1 DEF Init, SocketFollowsMain, StopFollowsSignal, ReceiverFailureLosesNothing
<1> QED
  BY <1>2, <1>3, <1>4 DEF ThreadInv

\* The steps of main, and of a signal, before the threads and after them.
LEMMA OpenThreads == ThreadInv /\ Open => ThreadInv'
<1> USE DEF ThreadInv, ThreadTypes, ThreadsFollowMain, SocketFollowsMain, StopFollowsSignal,
            ReceiverFailureLosesNothing, Early, Starting, Ended, queueVars
<1>1. ASSUME ThreadInv, OpenSocket PROVE ThreadInv'
  <2>1. /\ mpc = "socket" /\ ~fdOpen /\ rpc = "new" /\ dpc = "new" /\ loops = {}
        /\ UNCHANGED <<queueVars, stop, sock, errno, rpc, dpc, loops>>
    BY <1>1 DEF OpenSocket
  <2>2. CASE mpc' = "options" /\ fdOpen' = TRUE
    BY <1>1, <2>1, <2>2
  <2>3. CASE mpc' = "failed" /\ UNCHANGED fdOpen
    BY <1>1, <2>1, <2>3
  <2> QED
    BY <1>1, <2>2, <2>3 DEF OpenSocket
<1>2. ASSUME ThreadInv, NEW at \in Starting, NEW next \in {"ifindex", "bind", "handlers"},
             OpenStep(at, next)
      PROVE  ThreadInv'
  <2>1. sock' \in BOOLEAN
    BY <1>2 DEF OpenStep
  <2> QED
    BY <1>2, <2>1 DEF OpenStep
<1>3. ASSUME ThreadInv, NEW at \in {"options", "ifindex", "bind"}, OpenFails(at) PROVE ThreadInv'
  BY <1>3 DEF OpenFails
<1> HIDE DEF ThreadInv
<1> QED
  BY <1>1, <1>2, <1>3 DEF Open

LEMMA MainThreads ==
    ASSUME ThreadInv,
           InstallHandlers \/ MainTest \/ MainPause \/ MainClose \/ MainJoin \/ Signal \/ SignalKills
    PROVE  ThreadInv'
<1> USE DEF ThreadInv, ThreadTypes, ThreadsFollowMain, SocketFollowsMain, StopFollowsSignal,
            ReceiverFailureLosesNothing, Early, Starting, Ended, queueVars, ioVars
<1>1. CASE InstallHandlers
  BY <1>1 DEF InstallHandlers
<1>2. CASE MainTest
  BY <1>2 DEF MainTest
<1>3. CASE MainPause
  BY <1>3 DEF MainPause
<1>4. CASE MainClose
  <2>1. mpc = "close" /\ UNCHANGED <<queueVars, stop, errno, rpc, dpc, loops>>
    BY <1>4 DEF MainClose
  <2>2. CASE fdOpen' = FALSE /\ UNCHANGED <<sock, mpc>>
    <3>a. ThreadTypes'
      BY <2>1, <2>2
    <3>b. ThreadsFollowMain'
      BY <2>1, <2>2
    <3>c. SocketFollowsMain' /\ StopFollowsSignal' /\ ReceiverFailureLosesNothing'
      BY <2>1, <2>2
    <3> QED
      BY <3>a, <3>b, <3>c
  <2>3. CASE ~fdOpen /\ sock' = FALSE /\ mpc' = "join" /\ UNCHANGED fdOpen
    <3>a. ThreadTypes'
      BY <2>1, <2>3
    <3>b. ThreadsFollowMain'
      BY <2>1, <2>3
    <3>c. SocketFollowsMain' /\ StopFollowsSignal' /\ ReceiverFailureLosesNothing'
      BY <2>1, <2>3
    <3> QED
      BY <3>a, <3>b, <3>c
  <2> QED
    BY <1>4, <2>2, <2>3 DEF MainClose
<1>5. CASE MainJoin
  BY <1>5 DEF MainJoin, WorkersDone
<1>6. CASE Signal
  BY <1>6 DEF Signal
<1>7. CASE SignalKills
  BY <1>7 DEF SignalKills
<1> QED
  BY <1>1, <1>2, <1>3, <1>4, <1>5, <1>6, <1>7

\* main creates a thread.
LEMMA CreateThreads == ThreadInv /\ CreateThread => ThreadInv'
<1> USE DEF ThreadInv, ThreadTypes, ThreadsFollowMain, SocketFollowsMain, StopFollowsSignal,
            ReceiverFailureLosesNothing, Early, Starting, Ended, queueVars, ioVars
<1> SUFFICES ASSUME ThreadInv, CreateThread PROVE ThreadInv'
  OBVIOUS
<1>1. CASE mpc = "create_rx"
  <2>1. /\ mpc' = "create_dispatch" /\ rpc' = "loop"
        /\ UNCHANGED <<queueVars, stop, ioVars, errno, dpc, loops>>
    BY <1>1 DEF CreateThread
  <2>a. ThreadTypes'
    BY <1>1, <2>1
  <2>b. ThreadsFollowMain'
    BY <1>1, <2>1
  <2>c. SocketFollowsMain' /\ StopFollowsSignal' /\ ReceiverFailureLosesNothing'
    BY <1>1, <2>1
  <2> QED
    BY <2>a, <2>b, <2>c
<1>2. CASE mpc = "create_dispatch"
  <2>1. /\ mpc' = "create_app" /\ dpc' = "loop"
        /\ UNCHANGED <<queueVars, stop, ioVars, errno, rpc, loops>>
    BY <1>2 DEF CreateThread
  <2>a. ThreadTypes'
    BY <1>2, <2>1
  <2>b. ThreadsFollowMain'
    BY <1>2, <2>1
  <2>c. SocketFollowsMain' /\ StopFollowsSignal' /\ ReceiverFailureLosesNothing'
    BY <1>2, <2>1
  <2> QED
    BY <2>a, <2>b, <2>c
<1>3. CASE mpc = "create_app"
  <2>1. /\ mpc' = "create_s3" /\ loops' = loops \cup {"app"}
        /\ UNCHANGED <<queueVars, stop, ioVars, errno, rpc, dpc>>
    BY <1>3 DEF CreateThread
  <2>a. ThreadTypes'
    BY <1>3, <2>1
  <2>b. ThreadsFollowMain'
    BY <1>3, <2>1
  <2>c. SocketFollowsMain' /\ StopFollowsSignal' /\ ReceiverFailureLosesNothing'
    BY <1>3, <2>1
  <2> QED
    BY <2>a, <2>b, <2>c
<1>4. CASE mpc = "create_s3"
  <2>1. /\ mpc' = "test" /\ loops' = loops \cup {"s3"}
        /\ UNCHANGED <<queueVars, stop, ioVars, errno, rpc, dpc>>
    BY <1>4 DEF CreateThread
  <2>a. ThreadTypes'
    BY <1>4, <2>1
  <2>b. ThreadsFollowMain'
    BY <1>4, <2>1
  <2>c. SocketFollowsMain' /\ StopFollowsSignal' /\ ReceiverFailureLosesNothing'
    BY <1>4, <2>1
  <2> QED
    BY <2>a, <2>b, <2>c
<1> QED
  BY <1>1, <1>2, <1>3, <1>4 DEF CreateThread

\* The steps of rx_thread, app_thread, s3_thread and dispatch_thread that do
\* not touch the queue.
LEMMA LoopThreads ==
    ASSUME ThreadInv,
           \/ RxTest \/ RxEnterRead \/ RxTimeout \/ RxNothing \/ RxError \/ DispatchHandle
           \/ \E t \in {"app", "s3"} : LoopEnds(t)
    PROVE  ThreadInv'
<1> USE DEF ThreadInv, ThreadTypes, ThreadsFollowMain, SocketFollowsMain, StopFollowsSignal,
            ReceiverFailureLosesNothing, Early, Starting, Ended, queueVars, ioVars
<1>1. CASE RxTest
  BY <1>1 DEF RxTest
<1>2. CASE RxEnterRead
  BY <1>2 DEF RxEnterRead, AfterFailure
<1>3. CASE RxTimeout
  BY <1>3 DEF RxTimeout, AfterFailure
<1>4. CASE RxNothing
  BY <1>4 DEF RxNothing
<1>5. CASE RxError
  BY <1>5 DEF RxError, AfterFailure
<1>6. CASE DispatchHandle
  BY <1>6 DEF DispatchHandle
<1>7. ASSUME NEW t \in {"app", "s3"}, LoopEnds(t) PROVE ThreadInv'
  BY <1>7 DEF LoopEnds
<1> QED
  BY <1>1, <1>2, <1>3, <1>4, <1>5, <1>6, <1>7
\* The queue's view of the two threads.
LEMMA QueueTypes ==
    ASSUME Q!TypeOK
    PROVE  /\ ppc \in [{rx} -> {"idle", "push", "done"}]
           /\ cpc \in [{dispatcher} -> {"idle", "pop", "done"}]
           /\ count \in 0..UDS_QUEUE_CAP /\ closed \in BOOLEAN
  BY DEF Q!TypeOK

\* The steps of rx_thread in the queue.
LEMMA RxMessageThreads ==
    ASSUME Q!TypeOK, ThreadInv, NEW m \in Messages, RxMessage(m)
    PROVE  ThreadInv'
<1>1. /\ rpc = "read" /\ rpc' = "push"
      /\ ppc' = [ppc EXCEPT ![rx] = "push"]
      /\ UNCHANGED <<count, closed, cpc, stop, fdOpen, sock, errno, mpc, dpc, loops>>
  BY DEF RxMessage, Q!PushCall, Q!qVars, Q!cVars, ioVars
<1>2. ppc'[rx] = "push"
  BY <1>1, QueueTypes
<1> QED
  BY <1>1, <1>2 DEF ThreadInv, ThreadTypes, ThreadsFollowMain, SocketFollowsMain,
                    StopFollowsSignal, ReceiverFailureLosesNothing, Early, Starting, Ended

LEMMA RxPushThreads ==
    ASSUME Q!TypeOK, ThreadInv, RxPush
    PROVE  ThreadInv'
<1>1. rpc = "push" /\ UNCHANGED <<stop, fdOpen, sock, errno, mpc, dpc, loops>>
  BY DEF RxPush, ioVars
<1>2. /\ UNCHANGED <<cpc, closed>>
      /\ \/ UNCHANGED ppc /\ ppc'[rx] = "push" /\ UNCHANGED count /\ rpc' = "push"
         \/ ppc'[rx] = "done" /\ UNCHANGED count /\ rpc' = "leave"
         \/ ppc'[rx] = "idle" /\ rpc' = "loop"
  <2>1. CASE Q!PushWait(rx)
    BY <2>1 DEF RxPush, Q!PushWait, Q!InPush, Q!qVars, Q!cVars
  <2>2. CASE Q!PushClosed(rx)
    <3>1. ppc' = [ppc EXCEPT ![rx] = "done"] /\ UNCHANGED <<cpc, closed, count>>
      BY <2>2 DEF Q!PushClosed, Q!PushReturns, Q!qVars, Q!cVars
    <3>2. ppc'[rx] = "done"
      BY <3>1, QueueTypes
    <3> QED
      BY <3>1, <3>2 DEF RxPush
  <2>3. CASE Q!PushStore(rx)
    <3>1. ppc' = [ppc EXCEPT ![rx] = "idle"] /\ UNCHANGED <<cpc, closed>>
      BY <2>3 DEF Q!PushStore, Q!PushReturns
    <3>2. ppc'[rx] = "idle"
      BY <3>1, QueueTypes
    <3> QED
      BY <3>1, <3>2 DEF RxPush
  <2> QED
    BY <2>1, <2>2, <2>3 DEF RxPush, Q!Push
<1> QED
  BY <1>1, <1>2 DEF ThreadInv, ThreadTypes, ThreadsFollowMain, SocketFollowsMain,
                    StopFollowsSignal, ReceiverFailureLosesNothing, Early, Starting, Ended

LEMMA RxLeaveThreads == ThreadInv /\ RxLeave => ThreadInv'
<1> SUFFICES ASSUME ThreadInv, RxLeave PROVE ThreadInv'
  OBVIOUS
<1>1. /\ rpc = "leave" /\ rpc' = "done"
      /\ UNCHANGED <<count, ppc, cpc, stop, fdOpen, sock, errno, mpc, dpc, loops>>
  BY DEF RxLeave, Q!Shutdown, ioVars
<1> QED
  BY <1>1 DEF ThreadInv, ThreadTypes, ThreadsFollowMain, SocketFollowsMain,
              StopFollowsSignal, ReceiverFailureLosesNothing, Early, Starting, Ended

\* The steps of dispatch_thread in the queue.
LEMMA DispatchTestThreads ==
    ASSUME Q!TypeOK, ThreadInv, DispatchTest
    PROVE  ThreadInv'
<1>1. /\ dpc = "loop"
      /\ UNCHANGED <<count, closed, ppc, stop, fdOpen, sock, errno, mpc, rpc, loops>>
  BY DEF DispatchTest, Q!PopCall, Q!qVars, Q!pVars, queueVars, ioVars
<1>2. CASE stop /\ dpc' = "done" /\ UNCHANGED cpc
  BY <1>1, <1>2 DEF ThreadInv, ThreadTypes, ThreadsFollowMain, SocketFollowsMain,
                    StopFollowsSignal, ReceiverFailureLosesNothing, Early, Starting, Ended
<1>3. CASE dpc' = "pop" /\ cpc' = [cpc EXCEPT ![dispatcher] = "pop"]
  <2>1. cpc'[dispatcher] = "pop"
    BY <1>3, QueueTypes
  <2> QED
    BY <1>1, <1>3, <2>1 DEF ThreadInv, ThreadTypes, ThreadsFollowMain, SocketFollowsMain,
                    StopFollowsSignal, ReceiverFailureLosesNothing, Early, Starting, Ended
<1> QED
  BY <1>2, <1>3 DEF DispatchTest, Q!PopCall, queueVars

LEMMA DispatchPopThreads ==
    ASSUME Q!TypeOK, ThreadInv, DispatchPop
    PROVE  ThreadInv'
<1>1. dpc = "pop" /\ UNCHANGED <<stop, fdOpen, sock, errno, mpc, rpc, loops>>
  BY DEF DispatchPop, ioVars
<1>2. /\ UNCHANGED <<ppc, closed>>
      /\ \/ cpc'[dispatcher] = "pop" /\ dpc' = "pop"
         \/ cpc'[dispatcher] = "idle" /\ dpc' = "handle"
         \/ cpc'[dispatcher] = "done" /\ dpc' = "done" /\ closed /\ count' = 0
  <2>1. CASE Q!PopWait(dispatcher)
    BY <2>1 DEF DispatchPop, Q!PopWait, Q!InPop, Q!qVars, Q!pVars
  <2>2. CASE Q!PopClosed(dispatcher)
    <3>1. /\ cpc' = [cpc EXCEPT ![dispatcher] = "done"] /\ UNCHANGED <<ppc, closed>>
          /\ closed /\ count' = 0
      BY <2>2 DEF Q!PopClosed, Q!qVars, Q!pVars
    <3>2. cpc'[dispatcher] = "done"
      BY <3>1, QueueTypes
    <3> QED
      BY <3>1, <3>2 DEF DispatchPop
  <2>3. CASE Q!PopTake(dispatcher)
    <3>1. cpc' = [cpc EXCEPT ![dispatcher] = "idle"] /\ UNCHANGED <<ppc, closed>>
      BY <2>3 DEF Q!PopTake
    <3>2. cpc'[dispatcher] = "idle"
      BY <3>1, QueueTypes
    <3> QED
      BY <3>1, <3>2 DEF DispatchPop
  <2> QED
    BY <2>1, <2>2, <2>3 DEF DispatchPop, Q!Pop
<1> QED
  BY <1>1, <1>2 DEF ThreadInv, ThreadTypes, ThreadsFollowMain, SocketFollowsMain,
                    StopFollowsSignal, ReceiverFailureLosesNothing, Early, Starting, Ended

LEMMA MainShutdownThreads == ThreadInv /\ MainShutdown => ThreadInv'
<1> SUFFICES ASSUME ThreadInv, MainShutdown PROVE ThreadInv'
  OBVIOUS
<1>1. /\ mpc = "shutdown" /\ mpc' = "close"
      /\ UNCHANGED <<count, ppc, cpc, stop, fdOpen, sock, errno, rpc, dpc, loops>>
  BY DEF MainShutdown, Q!Shutdown, ioVars
<1> QED
  BY <1>1 DEF ThreadInv, ThreadTypes, ThreadsFollowMain, SocketFollowsMain,
              StopFollowsSignal, ReceiverFailureLosesNothing, Early, Starting, Ended

LEMMA QuietThreads == ThreadInv /\ (SpuriousWakeup \/ UNCHANGED vars) => ThreadInv'
<1> SUFFICES ASSUME ThreadInv, SpuriousWakeup \/ UNCHANGED vars PROVE ThreadInv'
  OBVIOUS
<1>1. UNCHANGED <<count, closed, ppc, cpc, stop, fdOpen, sock, errno, mpc, rpc, dpc, loops>>
  BY DEF SpuriousWakeup, Q!SpuriousWakeup, Q!qVars, vars, queueVars, ioVars
<1> QED
  BY <1>1 DEF ThreadInv, ThreadTypes, ThreadsFollowMain, SocketFollowsMain,
              StopFollowsSignal, ReceiverFailureLosesNothing

LEMMA StepThreads == Q!TypeOK /\ ThreadInv /\ [Next]_vars => ThreadInv'
<1> SUFFICES ASSUME Q!TypeOK, ThreadInv, [Next]_vars PROVE ThreadInv'
  OBVIOUS
<1>1. CASE Rx
  BY <1>1, LoopThreads, RxPushThreads, RxLeaveThreads DEF Rx
<1>2. CASE Dispatch
  BY <1>2, LoopThreads, DispatchTestThreads, DispatchPopThreads DEF Dispatch
<1>3. CASE Main
  BY <1>3, OpenThreads, MainThreads, CreateThreads, MainShutdownThreads DEF Main
<1>4. CASE Bus
  BY <1>4, LoopThreads, RxMessageThreads DEF Bus
<1> QED
  BY <1>1, <1>2, <1>3, <1>4, LoopThreads, MainThreads, QuietThreads DEF Next

-----------------------------------------------------------------------------
(* The theorems. *)

LEMMA AlwaysQueueInv == Spec => []QP!Inv
<1>1. QP!Spec => []QP!Inv
  BY QueueConstants, QP!AlwaysInv, PTL
<1> QED
  BY QueueBehaviour, <1>1, PTL

LEMMA AlwaysThreadInv == Spec => []ThreadInv
<1>1. QP!Inv => Q!TypeOK
  BY SameProperties DEF QP!Inv
<1> QED
  BY <1>1, AlwaysQueueInv, InitThreads, StepThreads, PTL DEF Spec

\* The process keeps its types, and each thread is in a call of the queue
\* exactly when the queue has it in one.
THEOREM TypeCorrect == Spec => []TypeOK
<1>1. QP!Inv /\ ThreadInv => TypeOK
  BY SameProperties, TypeParts DEF QP!Inv, ThreadInv
<1> QED
  BY <1>1, AlwaysQueueInv, AlwaysThreadInv, PTL

\* However the process ends, in whichever place the signal or the failure
\* finds it, main destroys the queue and the state when no thread runs or
\* waits, and leaves no descriptor open.
THEOREM NothingDestroyedInUse == Spec => []DestroyedUnused
<1>1. QP!Inv /\ ThreadInv => DestroyedUnused
  <2> SUFFICES ASSUME QP!Inv, ThreadInv, mpc \in Ended PROVE DestroyedUnused
    BY DEF DestroyedUnused
  <2>1. rpc \in {"new", "done"} /\ dpc \in {"new", "done"} /\ loops = {} /\ ~fdOpen
    BY DEF ThreadInv, ThreadsFollowMain, SocketFollowsMain, Early, Ended
  <2>2. ppc[rx] # "push" /\ cpc[dispatcher] # "pop"
    BY <2>1 DEF ThreadInv, ThreadTypes
  <2>3. /\ not_full \subseteq {rx} /\ not_empty \subseteq {dispatcher}
        /\ \A p \in not_full : ppc[p] = "push"
        /\ \A c \in not_empty : cpc[c] = "pop"
    BY DEF QP!Inv, QP!TypeOK, QP!WaitersInCall
  <2>4. not_full = {} /\ not_empty = {}
    BY <2>2, <2>3
  <2> QED
    BY <2>1, <2>4 DEF DestroyedUnused
<1> QED
  BY <1>1, AlwaysQueueInv, AlwaysThreadInv, PTL

\* Unless a signal stops it, dispatch_thread ends only after rx_thread has,
\* and with the queue drained.
THEOREM NoRequestLost == Spec => []ReceiverFailureLosesNothing
<1>1. ThreadInv => ReceiverFailureLosesNothing
  BY DEF ThreadInv
<1> QED
  BY <1>1, AlwaysThreadInv, PTL
=============================================================================
