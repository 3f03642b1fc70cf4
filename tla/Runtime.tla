------------------------------ MODULE Runtime ------------------------------
(***************************************************************************)
(* src/main.c and the thread loops of src/threads.c: how the process       *)
(* starts, runs and ends, the socket of src/isotp_kernel.c included.  The  *)
(* request queue is UdsQueue, with rx_thread as its producer and           *)
(* dispatch_thread as its consumer; handling a request (Vecu) is one step  *)
(* here, and so is a turn of app_thread or s3_thread, which only matter    *)
(* for being joined.                                                       *)
(*                                                                         *)
(* Linux hands a signal sent to the process to its main thread, and a      *)
(* close() does not wake a read() in progress: that one ends with its      *)
(* one-second timeout, or with a message.                                  *)
(***************************************************************************)
EXTENDS Naturals

CONSTANTS Messages, NoMessage, UDS_QUEUE_CAP

ASSUME RuntimeAssumption ==
    /\ UDS_QUEUE_CAP \in Nat \ {0}
    /\ NoMessage \notin Messages

VARIABLES
    slots, head, tail, count, closed,           \* req_q, see UdsQueue
    not_full, ppc, data, not_empty, cpc, out,
    stop,      \* g_stop
    fdOpen,    \* the descriptor is open
    sock,      \* isotp_kio_t.sock is a descriptor, and not -1
    errno,     \* rx_thread's errno, as far as rx_thread_main tells it apart
    mpc,       \* where main is
    rpc,       \* where rx_thread is
    dpc,       \* where dispatch_thread is
    loops      \* the ones of app_thread and s3_thread that still run

rx == "rx"
dispatcher == "dispatcher"

Q == INSTANCE UdsQueue WITH Producers <- {rx}, Consumers <- {dispatcher}

queueVars == <<slots, head, tail, count, closed, not_full, ppc, data, not_empty, cpc, out>>
ioVars    == <<fdOpen, sock>>
vars      == <<queueVars, stop, ioVars, errno, mpc, rpc, dpc, loops>>

\* main is about to open the socket, and no thread has been created.  The
\* queue is initialised before any thread can use it.
Init ==
    /\ Q!Init
    /\ stop = FALSE
    /\ fdOpen = FALSE /\ sock = FALSE
    /\ errno = "none"
    /\ mpc = "socket"
    /\ rpc = "new"
    /\ dpc = "new"
    /\ loops = {}

-----------------------------------------------------------------------------
(* main: isotp_kio_open, then the handlers and the threads. *)

\* The places of main up to the installation of the signal handlers.
Starting == {"socket", "options", "ifindex", "bind", "handlers"}

OpenSocket ==
    /\ mpc = "socket"
    /\ \/ mpc' = "options" /\ fdOpen' = TRUE
       \/ mpc' = "failed" /\ UNCHANGED fdOpen
    /\ UNCHANGED <<queueVars, stop, sock, errno, rpc, dpc, loops>>

\* setsockopt, if_nametoindex and bind, in this order.
OpenStep(at, next) ==
    /\ mpc = at
    /\ mpc' = next
    /\ sock' = (next = "handlers")
    /\ UNCHANGED <<queueVars, stop, fdOpen, errno, rpc, dpc, loops>>

MutantFailureLeaksSocket(at) ==
    /\ mpc = at
    /\ mpc' = "failed"
    /\ UNCHANGED <<queueVars, stop, ioVars, errno, rpc, dpc, loops>>

\* One of them fails: isotp_kio_open closes the socket, and main destroys the
\* state and returns EXIT_FAILURE.
OpenFails(at) ==
    /\ mpc = at
    /\ fdOpen' = FALSE
    /\ mpc' = "failed"
    /\ UNCHANGED <<queueVars, stop, sock, errno, rpc, dpc, loops>>

\* The receive timeout, the queue and the two sigactions.
InstallHandlers ==
    /\ mpc = "handlers"
    /\ mpc' = "create_rx"
    /\ UNCHANGED <<queueVars, stop, ioVars, errno, rpc, dpc, loops>>

\* The four pthread_creates; a thread runs before the next one exists.
CreateThread ==
    /\ \/ /\ mpc = "create_rx" /\ mpc' = "create_dispatch"
          /\ rpc' = "loop" /\ UNCHANGED <<dpc, loops>>
       \/ /\ mpc = "create_dispatch" /\ mpc' = "create_app"
          /\ dpc' = "loop" /\ UNCHANGED <<rpc, loops>>
       \/ /\ mpc = "create_app" /\ mpc' = "create_s3"
          /\ loops' = loops \cup {"app"} /\ UNCHANGED <<rpc, dpc>>
       \/ /\ mpc = "create_s3" /\ mpc' = "test"
          /\ loops' = loops \cup {"s3"} /\ UNCHANGED <<rpc, dpc>>
    /\ UNCHANGED <<queueVars, stop, ioVars, errno>>

-----------------------------------------------------------------------------
(* rx_thread_main *)

RxTest ==
    /\ rpc = "loop"
    /\ rpc' = IF stop THEN "leave" ELSE "recv"
    /\ UNCHANGED <<queueVars, stop, ioVars, errno, mpc, dpc, loops>>

\* How the loop goes on after a failed isotp_kio_recv (not EINTR).
AfterFailure(err) == IF err = "EAGAIN" THEN "loop" ELSE "leave"

\* isotp_kio_recv looks at k->sock while main may be closing it.  A negative
\* one fails without touching errno, which is then the one of an earlier call.
RxEnterRead ==
    /\ rpc = "recv"
    /\ \/ /\ sock /\ fdOpen
          /\ rpc' = "read"
          /\ UNCHANGED errno
       \/ /\ sock /\ ~fdOpen
          /\ errno' = "EBADF"
          /\ rpc' = AfterFailure("EBADF")
       \/ /\ ~sock
          /\ rpc' = AfterFailure(errno)
          /\ UNCHANGED errno
    /\ UNCHANGED <<queueVars, stop, ioVars, mpc, dpc, loops>>

\* read() delivers a request, and the thread calls uds_queue_push.
RxMessage(m) ==
    /\ rpc = "read"
    /\ rpc' = "push"
    /\ Q!PushCall(rx, m)
    /\ UNCHANGED <<stop, ioVars, errno, mpc, dpc, loops>>

\* read() delivers nothing: an empty message, or EINTR.
RxNothing ==
    /\ rpc = "read"
    /\ rpc' = "loop"
    /\ errno' \in {errno, "EINTR"}
    /\ UNCHANGED <<queueVars, stop, ioVars, mpc, dpc, loops>>

\* SO_RCVTIMEO expires.
RxTimeout ==
    /\ rpc = "read"
    /\ errno' = "EAGAIN"
    /\ rpc' = AfterFailure("EAGAIN")
    /\ UNCHANGED <<queueVars, stop, ioVars, mpc, dpc, loops>>

\* Any other error of read().
RxError ==
    /\ rpc = "read"
    /\ errno' = "other"
    /\ rpc' = AfterFailure("other")
    /\ UNCHANGED <<queueVars, stop, ioVars, mpc, dpc, loops>>

RxPush ==
    /\ rpc = "push"
    /\ Q!Push(rx)
    /\ rpc' = CASE ppc'[rx] = "push" -> "push"
                [] ppc'[rx] = "idle" -> "loop"
                [] ppc'[rx] = "done" -> "leave"
    /\ UNCHANGED <<stop, ioVars, errno, mpc, dpc, loops>>

MutantLeavesSilently ==
    /\ rpc = "leave"
    /\ rpc' = "done"
    /\ UNCHANGED <<queueVars, stop, ioVars, errno, mpc, dpc, loops>>

\* "Wake the dispatcher so it sees shutdown."
RxLeave ==
    /\ rpc = "leave"
    /\ Q!Shutdown
    /\ rpc' = "done"
    /\ UNCHANGED <<stop, ioVars, errno, mpc, dpc, loops>>

-----------------------------------------------------------------------------
(* dispatch_thread_main *)

DispatchTest ==
    /\ dpc = "loop"
    /\ \/ stop /\ dpc' = "done" /\ UNCHANGED queueVars
       \/ ~stop /\ dpc' = "pop" /\ Q!PopCall(dispatcher)
    /\ UNCHANGED <<stop, ioVars, errno, mpc, rpc, loops>>

DispatchPop ==
    /\ dpc = "pop"
    /\ Q!Pop(dispatcher)
    /\ dpc' = CASE cpc'[dispatcher] = "pop"  -> "pop"
                [] cpc'[dispatcher] = "idle" -> "handle"
                [] cpc'[dispatcher] = "done" -> "done"
    /\ UNCHANGED <<stop, ioVars, errno, mpc, rpc, loops>>

\* uds_process_request, and isotp_kio_send, whose failure is ignored.
DispatchHandle ==
    /\ dpc = "handle"
    /\ dpc' = "loop"
    /\ UNCHANGED <<queueVars, stop, ioVars, errno, mpc, rpc, loops>>

\* app_thread_main and s3_thread_main leave their loops after a nap.
LoopEnds(t) ==
    /\ t \in loops
    /\ stop
    /\ loops' = loops \ {t}
    /\ UNCHANGED <<queueVars, stop, ioVars, errno, mpc, rpc, dpc>>

-----------------------------------------------------------------------------
(* main: waiting for a signal, and the way out. *)

Ended == {"exit", "failed", "killed"}

\* Without a handler the signal ends the process, and the kernel closes its
\* socket.
SignalKills ==
    /\ mpc \in Starting
    /\ mpc' = "killed"
    /\ fdOpen' = FALSE
    /\ UNCHANGED <<queueVars, stop, sock, errno, rpc, dpc, loops>>

\* on_signal, between any two steps of main; pause() returns once it has run.
Signal ==
    /\ mpc \notin Starting \cup Ended
    /\ stop' = TRUE
    /\ mpc' = IF mpc = "pause" THEN "test" ELSE mpc
    /\ UNCHANGED <<queueVars, ioVars, errno, rpc, dpc, loops>>

\* while (!g_stop) pause(): the test, and then the system call.
MainTest ==
    /\ mpc = "test"
    /\ mpc' = IF stop THEN "shutdown" ELSE "call_pause"
    /\ UNCHANGED <<queueVars, stop, ioVars, errno, rpc, dpc, loops>>

MainPause ==
    /\ mpc = "call_pause"
    /\ mpc' = "pause"
    /\ UNCHANGED <<queueVars, stop, ioVars, errno, rpc, dpc, loops>>

MutantNoQueueShutdown ==
    /\ mpc = "shutdown"
    /\ mpc' = "close"
    /\ UNCHANGED <<queueVars, stop, ioVars, errno, rpc, dpc, loops>>

MainShutdown ==
    /\ mpc = "shutdown"
    /\ Q!Shutdown
    /\ mpc' = "close"
    /\ UNCHANGED <<stop, ioVars, errno, rpc, dpc, loops>>

\* isotp_kio_close: close(), then sock = -1.
MainClose ==
    /\ mpc = "close"
    /\ \/ fdOpen /\ fdOpen' = FALSE /\ UNCHANGED <<sock, mpc>>
       \/ ~fdOpen /\ sock' = FALSE /\ mpc' = "join" /\ UNCHANGED fdOpen
    /\ UNCHANGED <<queueVars, stop, errno, rpc, dpc, loops>>

WorkersDone == rpc = "done" /\ dpc = "done" /\ loops = {}

MutantJoinsNotTheReceiver ==
    /\ mpc = "join"
    /\ dpc = "done" /\ loops = {}
    /\ mpc' = "exit"
    /\ UNCHANGED <<queueVars, stop, ioVars, errno, rpc, dpc, loops>>

\* The four pthread_joins; then queue and state are destroyed and main returns.
MainJoin ==
    /\ mpc = "join"
    /\ WorkersDone
    /\ mpc' = "exit"
    /\ UNCHANGED <<queueVars, stop, ioVars, errno, rpc, dpc, loops>>

SpuriousWakeup ==
    /\ Q!SpuriousWakeup
    /\ UNCHANGED <<stop, ioVars, errno, mpc, rpc, dpc, loops>>

-----------------------------------------------------------------------------

Rx == RxTest \/ RxEnterRead \/ RxTimeout \/ RxPush \/ RxLeave

Dispatch == DispatchTest \/ DispatchPop \/ DispatchHandle

Open ==
    \/ OpenSocket
    \/ OpenStep("options", "ifindex") \/ OpenStep("ifindex", "bind") \/ OpenStep("bind", "handlers")
    \/ \E at \in {"options", "ifindex", "bind"} : OpenFails(at)

Main == Open \/ InstallHandlers \/ CreateThread
        \/ MainTest \/ MainPause \/ MainShutdown \/ MainClose \/ MainJoin

Bus == (\E m \in Messages : RxMessage(m)) \/ RxNothing \/ RxError

Next == Rx \/ Dispatch \/ (\E t \in {"app", "s3"} : LoopEnds(t)) \/ Main
        \/ Bus \/ Signal \/ SignalKills \/ SpuriousWakeup

Spec == Init /\ [][Next]_vars

\* Every thread is scheduled, reads time out and naps end.  No request, error
\* or signal has to come, nor a wake-up that nobody signalled.
FairSpec ==
    /\ Spec
    /\ WF_vars(Rx) /\ WF_vars(Dispatch) /\ WF_vars(Main)
    /\ \A t \in {"app", "s3"} : WF_vars(LoopEnds(t))

-----------------------------------------------------------------------------
(* Properties. *)

\* Type invariant, the queue's included, and that the threads' places agree
\* with the queue's view of them.
TypeOK ==
    /\ Q!TypeOK
    /\ stop \in BOOLEAN /\ fdOpen \in BOOLEAN /\ sock \in BOOLEAN
    /\ errno \in {"none", "EAGAIN", "EINTR", "EBADF", "other"}
    /\ mpc \in Starting \cup Ended \cup
              {"create_rx", "create_dispatch", "create_app", "create_s3",
               "test", "call_pause", "pause", "shutdown", "close", "join"}
    /\ rpc \in {"new", "loop", "recv", "read", "push", "leave", "done"}
    /\ dpc \in {"new", "loop", "pop", "handle", "done"}
    /\ loops \subseteq {"app", "s3"}
    /\ rpc = "push" <=> ppc[rx] = "push"
    /\ dpc = "pop" <=> cpc[dispatcher] = "pop"

(***************************************************************************)
(* main destroys the queue and the ECU state, and returns from the frame   *)
(* they live in, only when no thread can touch them any more; and on every *)
(* way out, the four ways to fail at start-up included, the socket it      *)
(* opened is closed.                                                       *)
(***************************************************************************)
DestroyedUnused ==
    mpc \in Ended =>
        /\ rpc \in {"new", "done"} /\ dpc \in {"new", "done"} /\ loops = {}
        /\ not_full = {} /\ not_empty = {}
        /\ ~fdOpen

\* When the receiver dies of a read error, every request it had queued is
\* still handled: the dispatcher does not stop before the queue is drained.
ReceiverFailureLosesNothing == dpc = "done" /\ ~stop => rpc = "done" /\ count = 0

(***************************************************************************)
(* A receiver that has left, for whatever reason and however early, takes  *)
(* the dispatcher with it: it does not wait for ever on a queue that       *)
(* nobody fills.  (main is not told.)                                      *)
(***************************************************************************)
DispatcherFollowsReceiver == (rpc = "done") ~> (dpc = "done")

\* Once main is out of its loop the process ends, whatever the threads were
\* blocked in: a full queue, an empty queue, or a read.
ShutdownCompletes == (mpc = "shutdown") ~> (mpc = "exit")

\* runbook/RUN.md: "Pour stopper : Ctrl+C (clean shutdown)".
SignalStopsProcess == stop ~> (mpc = "exit")
=============================================================================
