# vecu-uds: TLA+ verification project

vecu-uds is a virtual ECU that answers UDS (ISO 14229) diagnostic requests on a
CAN bus. This directory holds TLA+ models of its core, the TLC configurations
that check them on small instances, and TLAPS proofs of their main properties
for every value of the constants. `PROJECT.json` maps every definition to the
lines it models.

To run: `tlc -config MCVecu.cfg MCVecu`, `tlapm Vecu_proofs.tla`, and so on
for the other configurations and `*_proofs` modules.

## 1. Inventory

### Components

| Component | Source | State | Operations |
|---|---|---|---|
| Security access | `src/security.c` | level, pending seed, `seed_issued`, failure count, end of lock-out | requestSeed, sendKey, is_unlocked; cleared in place by ECUReset (`uds.c`) and by S3 (`threads.c`) |
| Service handlers | `src/uds.c` | none of their own | eight services, `uds_process_request` |
| ECU state | `src/vecu.c` | session, time stamp of the last TesterPresent, owner name | get/set session, mark tester present, owner read/write |
| S3 timer | `src/threads.c` `s3_thread_main` | two locals | poll; revert and relock on a timeout |
| Request queue | `src/queue.c` | ring, `closed`, two condition variables | push, pop, shutdown |
| DTC memory | `src/dtc_mem.c` | the list of trouble codes | add (boot only), clear, snapshot by mask |
| DID table | `src/did_table.c` | constant after boot | add (boot only), lookup |
| Runtime | `src/main.c`, the rx and dispatch loops of `src/threads.c` | `g_stop`, the socket | start, pump, signal, shut down, join |
| Engine simulator | `src/app_engine.c` | rpm, speed, coolant | tick, three reads |
| Userspace ISO-TP | `src/isotp.c` over `src/can_io.c` | a reassembly | send, receive |
| Kernel ISO-TP | `src/isotp_kernel.c` | a socket | open, read, write, close |
| Client | `client/diag_tool.py` | none that outlives an invocation | seven sub-commands, each a sequence of requests through udsoncan |

### Interaction

`rx_thread` reads requests from the socket and pushes them on the queue;
`dispatch_thread` pops one at a time, runs its handler and writes the response;
`app_thread` moves the simulator; `s3_thread` polls the session. All four share
`vecu_state_t`. Each part of it has a mutex of its own and no code holds two at
once, so a handler that consults several parts is not atomic: the S3 thread can
come between any two of its critical sections, and a handler between two of
the S3 thread's. The queue is the only place where threads wait for each other.

An invocation of the client opens a socket of its own, sends its requests one
at a time and waits up to two seconds for each answer. All invocations use the
same two CAN identifiers, so an answer reaches every tool that is running.

### What is hard, and what makes each component correct

* **Security access**: a counter, a flag, a clock and a level that must agree
  after any sequence of seeds, keys, resets and timeouts; at most `MAX_FAILS`
  guesses per delay; a seed is good for one key.
* **Handlers against S3**: checks made under one lock and used under another.
  A write must rest on one instant at which it was allowed; a late key must not
  unlock an ECU that has timed out.
* **S3**: unsigned time arithmetic on two readings taken at different times, a
  decision that is stale when it is carried out, and a timer that must
  eventually fire.
* **Responses**: the suppress bit, the buffer limit, and an answer in all other
  cases.
* **Queue**: lost wake-ups, spurious wake-ups, shutdown while blocked, the wrap
  of the ring.
* **Runtime**: a signal before `pause()`, closing a descriptor another thread
  reads, a receive error nobody reports. Every thread must get out of whatever
  blocks it, and nothing may be destroyed before that.
* **ISO-TP**: lost frames, transfers given up half-way, sequence numbers modulo
  16, deadlines that are only looked at when a frame arrives. A message must
  arrive whole or not at all.
* **Client**: requests and answers that are lost, a tool that gives up while the
  ECU is still at its request, answers meant for another tool, an ECU that an
  earlier command left unlocked or half unlocked, a timer that takes session and
  access away between two requests. A tool that reports success must be right,
  must not get the ECU to count wrong keys, must not be refused without a reason,
  and must end.
* **Engine**: three values read under three locks while the engine moves, two
  encodings.

`PROJECT.json` lists the hazards line by line, with the properties that cover
them.

## 2. Modules

```
UdsTypes  <- Security  <- SecurityAccess <- SecurityGuesses <- MCSecurity
             Security  <- Vecu <- UdsRequests <- MCVecu
             VecuData  <- Vecu    UdsRequests <- DiagTool <- ToolHistory <- MCDiagTool
SeedKeyProtocol   implemented by SecurityAccess
SecurityAccess    implemented by Vecu
BoundedFifo       implemented by UdsQueue
UdsQueue          instantiated by Runtime
IsoTp     <- MCIsoTp
M         <- M_proofs, for M = Security, SecurityAccess (and SecurityGuesses),
             Vecu, UdsQueue, Runtime, IsoTp, AppEngine, DiagTool (and ToolHistory)
Security_proofs  <- SecurityAccess_proofs, Vecu_proofs <- DiagTool_proofs
UdsQueue_proofs  instantiated by Runtime_proofs
```

**Security** turns each function of `security.c` into a transformer: from the
state record, the clock and the arguments to the new state, the return code,
the NRC and the seed. The two places that edit the structure directly,
`h_ecu_reset` and `s3_thread_main`, are `security_reset` and `security_relock`.
The exclusive or is a constant operator, so the proofs hold for any key
function. A failed, short or zero `getrandom` ends in the fallback seed; one
raw value, 0, stands for all three. The clock is read more than once inside a
function, always under the lock; it is one reading here.

**SecurityAccess** is that component alone, its callers calling in any order.
**SecurityGuesses** adds a history of the wrong keys, to state the rate limit.
**SeedKeyProtocol** is the abstract specification: four phases, no seeds, no
keys.

**VecuData** holds the DID table as `vecu_init` fills it, the owner name and
the trouble codes. Payloads are lengths, because lengths are what the handlers
decide on.

**Vecu** is the dispatcher thread and the S3 thread on the shared state. An
action is one critical section and the thread-local code around it; `dpc` and
`spc` are the places between critical sections. ECUReset has two actions,
SecurityAccess two, WriteDataByIdentifier three, S3 five; the other handlers
have one. `Pop` stands for the queue and the bus: any request may come next.
`Respond` sends or drops the response as `dispatch_thread_main` does. A request
is the record of the fields the handlers decode.

**UdsQueue** splits `push` and `pop` at `pthread_cond_wait`. `not_full` and
`not_empty` are the sets of waiting threads. A signal wakes one or more of
them, a waiter may wake up unasked, and a woken thread repeats the loop's test.
**BoundedFifo** is what `queue.h` promises.

**Runtime** is `main` from the opening of the socket to its return, the loops of
`threads.c`, and `UdsQueue` between rx and dispatcher, instantiated with one
producer and one consumer. Each of the four calls of `isotp_kio_open` may fail;
a signal that comes before the handlers are installed kills the process; the
threads come into being one after the other and run at once. Handling a request
is one step (Vecu has the rest).
`isotp_kio_recv` and `isotp_kio_close` are split where they race: at the look at
`k->sock`, at `close()` and at the assignment of -1. Two facts about Linux are
built in: a signal to the process runs its handler in the main thread, and a
`close()` does not wake a `read()` that is under way, which then ends with its
timeout.

**IsoTp** is one endpoint in `isotp_send` and one in `isotp_recv`, with two
socket buffers between them. Length fields are split into nibble and byte and
put together again as the code does it; payload bytes carry the message they
belong to, so that a splice of two messages shows. Deadlines are facts ("it has
passed") that the code consults where it consults its clock.

**UdsRequests** builds the records of well-formed requests, as testers do.
**DiagTool** puts the command line tool in front of the ECU of Vecu, which it
extends: `EcuTakes`, `EcuHandles`, `EcuAnswers` and `EcuTimer` are Vecu's own
actions with the bus around them. A sub-command is the sequence of requests it
makes (`Script`); an invocation is its command, the step it is at, whether it is
about to send or waits, and what it keeps from earlier answers (the seed, the
name read back). `Send` empties the receive queue as `empty_rxqueue` does, which
leaves whatever comes in before the request is out. `Receive` looks at the next
message, whoever it was meant for: the positive answer to this request goes on
to the next step, a negative answer to this service ends the command with exit
code 2, anything else is an exception that `main` does not handle. The monitor
shows its errors and begins another round. udsoncan is external: what it does is
taken from how the tool uses it and from `read_owner_raw`, which does the same by
hand. The bus loses requests; a lost answer is an `isotp_kio_send` that failed,
which the dispatcher ignores.

**ToolHistory** adds a history variable to DiagTool: `s3Acted` says of each
terminal whether the S3 thread has reverted the session or relocked since the
command last typed there began. `HStart` and `HTimer` write it, and no action
reads it.

**AppEngine** is `app_engine.c` and the round of the monitor that reads it: the
three values are fetched one at a time, ticks fall in between, a failed read
begins the round again. Encodings and decodings are those of the two programs.

Names follow the source. Definitions called `Mutant...` are not part of any
specification: each is a plausible mistake in the definition that follows it,
used to confirm that a property notices it.

## 3. Runs

| Run | Configuration | Checks | States |
|---|---|---|---|
| `security` | `MCSecurity.cfg` | `TypeOK`, `SecurityConsistent`, `RateLimited`, `LockOutHolds`, `ImplementsProtocol` | 4 thousand |
| `vecu` | `MCVecu.cfg` | `TypeOK`, `ResponseFits`, `WriteWasAuthorised`, `DefaultSessionLocked`, `ImplementsSecurityAccess`, `SilenceEndsAccess`, `AnsweredUnlessSuppressed` | 1082 thousand |
| `queue` | `MCUdsQueue.cfg` | `TypeOK`, `NoLostWakeup`, `ImplementsFifo`, `ShutdownReleasesCallers`, `EveryPushReturns` | 7 thousand |
| `runtime` | `MCRuntime.cfg` | `TypeOK`, `DestroyedUnused`, `ReceiverFailureLosesNothing`, `ShutdownCompletes`, `DispatcherFollowsReceiver` | 156 thousand |
| `isotp` | `MCIsoTp.cfg` | `TypeOK`, `Integrity`, `EveryMessageArrives`, `FcDeadlineSeenOnTraffic` | 288 thousand |
| `diag_tool` | `MCDiagTool.cfg` | `ToolTypeOK`, `SuccessIsTrue`, `HonestToolNotPenalised`, `LoneWriteAccepted`, `CommandsEnd` | 386 thousand |
| `engine` | `MCAppEngine.cfg` | `TypeOK`, `CoolantFollowsTicks`, `DrawsWhatWas`, `ScreenWarmsOnly`, `WarmsUp` | 92 thousand |

What they show, in words:

* `SecurityConsistent`: a pending seed excludes a lock-out (the second lock-out
  test of `security_send_key` is unreachable, as its comment supposes), the
  lock-out stands exactly while its failures are counted, an unlocked ECU holds
  no failures, and an issued seed is never zero.
* `RateLimited`: a wrong key and the `MAX_FAILS`-th one after it are a whole
  lock-out apart, unless an ECU reset or a right key came between. S3 timeouts
  do not help: `security_relock` keeps the counter.
* `LockOutHolds`: only an ECU reset ends a running lock-out. (It does so in any
  session and without a key, by intention: "a logical reset", `uds.c:116`. The
  delay promised at `security.h:13-14` is therefore one until the next reset.)
* `WriteWasAuthorised`: although session and level are checked under two locks,
  a write that goes through was allowed at one single instant, the session
  check. It need not be allowed any more when it is carried out.
* `DefaultSessionLocked`: a key on its way when S3 fires cannot leave the ECU
  unlocked in the default session. The one way to be there unlocked is a
  tester's own `10 01`.
* `ImplementsSecurityAccess`: the ECU takes only steps of SecurityAccess on the
  security state, so what holds there holds here.
* `SilenceEndsAccess`: a tester that leaves in a non-default session, wherever S3
  is in its round and whatever the handlers did before, finds the ECU locked in
  the default session. The request in hand is handled before the last ticks: the
  clock waits for it (see Fairness).
* `AnsweredUnlessSuppressed`: a request goes unanswered exactly when it is a
  sub-function service with bit 7 set and succeeded.
* `NoLostWakeup`: while someone sleeps, every queued message (free slot) has an
  awake thread in its call that will see it.
* `EveryPushReturns`: a full queue delays its one producer and does not stop it.
  (With two producers it would not hold: a signal may always wake the same one.)
* `ShutdownCompletes`: from main's first step after its loop the process ends,
  also when the receiver waits for space in a queue that the dispatcher, gone on
  `g_stop`, will never empty.
* `ReceiverFailureLosesNothing`, `DispatcherFollowsReceiver`: a read error closes
  the queue, and the dispatcher handles what is in it before it leaves; and it
  does leave, also when the receiver was gone before it was created. (main is not
  told: it stays in `pause()` and the process serves nobody until a signal comes.
  The repository does not say what should happen.)
* `DestroyedUnused`: on every way out, the failures of `isotp_kio_open` and a
  signal before the handlers included, no thread is left that could use what is
  destroyed, and the descriptor is closed.
* `Integrity`: `isotp_recv` returns only what some `isotp_send` was called
  with. It holds on a bus without losses whatever else goes wrong, and with
  losses as long as no transfer is given up: length and sequence numbers show a
  gap, and a transfer whose first frame is lost does not go on, because its
  sender waits for a flow control frame. (Under losses alone the length would
  do without the numbers, so they may even wrap.) With one of each it does not hold: the flow
  control frame of a transfer that was given up stays in the sender's socket,
  starts the next transfer, and, if that one's first frame is lost, its frames
  continue the old message. ISO-TP has no identifier that could tell them
  apart.

* `FcDeadlineSeenOnTraffic`: the deadline of `wait_for_fc` takes effect as soon as
  a foreign frame makes the code look at it. On a silent bus it never does:
  `isotp.h:52-53` promises "a 1s timeout", while line 16 of the same file lists
  the N_Bs timeout as out of scope.
* `SuccessIsTrue`: an exit code of 0 is earned. The name was written and is the one
  read back, the trouble codes are gone, the ECU is unlocked, although answers of
  an earlier request or to the monitor may arrive at any time: service,
  sub-function and identifier of an answer tell them apart. The name is printed
  and never compared (`diag_tool.py:181`); the property says that a comparison
  would not fail while one terminal writes. It has a limit: when three tools in a
  row begin before the ECU is done with their predecessor, each can take the
  answers to the one before for its own, and the last one exits with 0 with
  another's name confirmed and its own still to be written. And it makes one
  exception, for the S3 timer: between its reversion and its relock (`threads.c:97-102`) a tester can
  get back to the extended session and unlock, and the relock takes this away.
* `HonestToolNotPenalised`: the key that `unlock` computes for the seed 0 of an
  unlocked ECU is refused without being counted, and a lost or late message does
  not make the tool send a wrong key. With two tools that begin before the ECU is
  done with their predecessor it does not hold: a late seed can be answered when
  the next one is already pending.
* `LoneWriteAccepted`: `write-name` asks nothing of the ECU it finds. Locked,
  unlocked, left half way by a command that lost its answer, or reverted by S3: the
  write of a legal name ends with a refusal or an unexpected answer only if S3
  reverted or relocked while this very command ran (`s3Acted`). That does happen,
  in three ways: the command takes longer than the S3 timeout; S3 has
  decided on an old time stamp and reverts after the command's `10 03`; or it has
  read the clock, the `10 03` renews the time stamp, and the difference wraps (the
  race of `s3_live_session`). Losses and any passage of time are allowed; what is
  excluded is a command that begins before the ECU is done with its predecessor,
  and a monitor at work.
* `CommandsEnd`: no command waits for ever, whatever is lost.
* `CoolantFollowsTicks`, `WarmsUp`: one degree per 30 ticks up to the limit, and
  nothing more when the counter wraps. (From 60 to 92 degrees that is 96 seconds;
  the comment at `app_engine.c:33` speaks of about five minutes.)
* `DrawsWhatWas`, `ScreenWarmsOnly`: the monitor shows values that the engine had
  during the round, and no temperature from an earlier one.

### Runs that find a disagreement

| Run | The text | The code |
|---|---|---|
| `s3_live_session` | `threads.c:79-81`: revert "if no TesterPresent is received within S3_TIMEOUT_MS" | `now` is read before the time stamp; when a TesterPresent falls between, the unsigned difference wraps and a live session is reverted. A TesterPresent between the comparison and the reversion is undone in the same way |
| `stays_unlocked` | `threads.c:80-81`: S3 "keeps a real ECU from staying unlocked when the tester walks away" | unlock, `10 01`, silence: unlocked for good, S3 ignores the default session |
| `signal_before_pause` | `RUN.md:80`: "Pour stopper : Ctrl+C (clean shutdown)" | a signal between the test of `g_stop` and `pause()` sets the flag and wakes nobody; main sleeps until another one comes |
| `monitor_crosstalk` | `DEMO.md:151`: leave the monitor running while the other commands are shown | an answer to the monitor that arrives between a command's request and its answer raises an exception `main` does not handle, and the command dies |
| `write_without_unlock` | `RUN.md:121`: `write-name` "nécessite unlock préalable + extended session"; `DEMO.md:183-184`: "sans avoir débloqué la sécurité. L'ECU doit refuser."; `DEMO.md:255-256`: after the S3 timeout `write-name` would get NRC 0x33 | `cmd_write_name` selects the session and unlocks by itself (`diag_tool.py:176-177`): as the first command after the boot it succeeds |

### Bounds

* Time is a counter of abstract milliseconds. The lock-out and the S3 timeout
  are a few ticks; what matters is which of two readings is larger. `MCSecurity`
  has 7 ticks and a delay of 3: two lock-outs and a third round. `MCVecu.cfg`
  has an S3 timeout of 1, a tester that stays for 3 ticks, which is a timeout and
  a second session after it, and two more ticks for the silence at the end.
* `U64` is the modulus of the S3 subtraction. Any value above the largest
  difference plus the timeout shows the same wrap as 2^64; the runs use 64.
* Seeds and keys have two bits and the real exclusive or. The fallback seed,
  a right and a wrong key are all there, and in `MCSecurity` and `MCDiagTool`
  two seeds, so that a key may belong to the previous seed.
* Requests: `SessionRequests` has one of each that moves the shared state, with an
  owner name that fills its buffer; `ServiceRequests` adds the programming
  session, for each handler one request per early return, the suppress bit, and
  an owner name of one byte too many. Emptying the fault memory is left to
  `MCDiagTool`: nothing in the other handlers depends on it but the length of the
  list. `RESP_CAP` is 16, so that 17 bytes of VIN do not fit and a positive DTC
  list does.
* The queue has two slots, one producer, as the program, two consumers, one more
  than the program, and two messages: full, empty, wrapped, and two waiters on
  `not_empty` are all reached.
* Runtime: two slots, so that the receiver can block; two messages. Signals and
  errors are not counted.
* ISO-TP: messages of 5, 14, 41 and 42 bytes: one, three, six and six frames, the
  last one byte too long for the receiver (`OutCap` = 41). The modulus of the
  sequence numbers is 2 in place of 16, so that they wrap in six frames.
  `Budgets` are pairs of losses and faults: three of either let one transfer be
  given up or lose its tail and another be disturbed.
* DiagTool: a terminal for commands (unlock, clear-dtc, write-name with two legal
  names, one of them of 32 characters, and with an over-long one) and one for the
  monitor. `Budgets` bounds how often each kind of event comes, in four
  combinations: a loss next to the monitor; a loss, a late answer and three
  commands; two late answers and three commands; two commands, a loss and two
  ticks. With an S3 timeout of 1 the ticks are enough for S3 to expire between the
  two commands, or within either. Two entropy values, so that a key may belong to
  an earlier seed. `RESP_CAP` is 64, more than any answer a tool asks for.
  `EcuTimer` has the guard `now > 0`: S3 makes its first round after the first
  tick. At time 0 nothing is older than the timeout, so that all it could do is
  read the clock, which it can do one tick later with the same outcomes; the guard
  keeps rounds that do nothing out of the combinations without ticks.
  `monitor_crosstalk` and `write_without_unlock` have two commands, one round of
  the monitor, and no losses.
* Engine: two degrees of three ticks each, a counter that wraps at 10 (not a
  multiple of 3, as 2^32 is none of 30), the extreme values of the sinusoids and
  one whose two bytes both matter. The proofs cover the real numbers.

### Fairness

* `Vecu!FairSpec`: weak fairness of the handler steps, the S3 thread and the
  clock: threads that can run are scheduled, and mutexes are held for a few
  instructions. Testers owe nothing: no fairness on `Pop`. After `TesterLeaves`
  no request arrives and the clock waits for the request in hand, which takes
  milliseconds where the timeout takes seconds.
* `UdsQueue!FairSpec`: weak fairness of each thread's steps inside a call, and
  of the dispatcher coming back for the next message (its loop does nothing
  else; its handlers do not block). None for producers, for shutdown or for
  spurious wake-ups.
* `Runtime!FairSpec`: weak fairness of each thread. For rx_thread this
  includes the read timeout (`SO_RCVTIMEO`), but no message and no error.
  Signals are not fair.
* `IsoTp!FairSpec`: weak fairness of both endpoints, none for faults.
* `ToolHistory!HFairSpec`: weak fairness of the ECU's two threads and of each
  tool's steps, its timeout among them; nobody has to type a command, and time
  need not pass.
* `AppEngine!FairSpec`: weak fairness of `app_engine_tick`: app_thread naps and
  ticks. The monitor owes nothing.
* The ECU, queue, runtime, ISO-TP and tool runs switch the deadlock check off:
  with the tester gone, the queue closed, main returned, all messages sent or all
  commands typed the system comes to rest. All other passing runs check it.

## 4. Proofs

| Module | Theorem | Statement |
|---|---|---|
| `SecurityAccess_proofs` | `TypeCorrect`, `Consistent` | `Spec => []TypeOK`, `Spec => []SecurityConsistent` |
| | `LockOutStands` | `Spec => LockOutHolds` |
| | `ProtocolRefinement` | `Spec => ImplementsProtocol` |
| | `GuessRate` | `GSpec => []RateLimited`, of SecurityGuesses |
| `Vecu_proofs` | `TypeCorrect`, `WritesAuthorised`, `DefaultLocked`, `ResponsesFit` | the invariants of the same content |
| | `RequestsAnswered` | `Spec => AnsweredUnlessSuppressed` |
| | `UsesSecurityAccess` | `Spec => ImplementsSecurityAccess` |
| `UdsQueue_proofs` | `TypeCorrect`, `NoWakeupIsLost` | `Spec => []TypeOK`, `Spec => []NoLostWakeup` |
| | `RingImplementsFifo` | `Spec => ImplementsFifo` |
| `Runtime_proofs` | `TypeCorrect`, `NothingDestroyedInUse`, `NoRequestLost` | `TypeOK`, `DestroyedUnused` and `ReceiverFailureLosesNothing` as invariants |
| | `UsesQueueAsSpecified`, `RequestsDeliveredInOrder` | the process is a behaviour of UdsQueue, so `NoLostWakeup` and `ImplementsFifo` hold of its queue |
| `IsoTp_proofs` | `TypeCorrect`, `WholeMessagesOnly` | `Spec => []TypeOK`, `Spec => []Integrity` |
| `DiagTool_proofs` | `ToolTypeCorrect` | `ToolSpec => []ToolTypeOK` |
| | `WritesAccepted` | `HSpec => []LoneWriteAccepted`, of ToolHistory |
| | `ToolsInvariant`, `HonestNotPenalised`, `SuccessTrue` | `ToolSpec => []HonestToolNotPenalised`, `ToolSpec => []SuccessIsTrue`, both from `ToolSpec => []ToolsInv` |
| | `ToolsUseEcu` | `ToolSpec => Spec`, the one of Vecu: its theorems hold next to the tools |
| `AppEngine_proofs` | `TypeCorrect`, `FollowsTicks`, `DrawsTruth` | `TypeOK`, `CoolantFollowsTicks` and `DrawsWhatWas` as invariants |
| | `WarmsOnly` | `Spec => ScreenWarmsOnly` |

`Security_proofs` has the lemmas about the transformers: what each does to a
well-typed, consistent state.

*Assumptions*: those stated in the modules.

* Security and Vecu: `MAX_FAILS`, the delay and the fallback seed are positive,
  entropy values are naturals, the owner buffer holds the boot name, `RESP_CAP >=
  6`, and `U64` exceeds every time difference. Nothing is assumed of the key
  function. `RESP_CAP >= 6` is needed: `h_security_access` writes six bytes
  without looking at the capacity. The program passes 4095 (`threads.c:43`) and
  the smoke test 16.
* UdsQueue and Runtime: the capacity is positive, `NoMessage` is no message, and
  there are finitely many threads (`NoLostWakeup` counts them).
* IsoTp: messages are of 1 to `ISOTP_MAX_PAYLOAD` bytes, which is at most 4095 (12
  bits), and the sequence numbers have at most four bits.
* DiagTool: the commands are among the seven verbs, and the set `Requests` of
  Vecu has what they send (`CommandsAssumption`); the owner buffer takes the
  32 characters that the client's codec lets through and the response buffer a
  whole name (`SizesAssumption`; at run time 32 and 4095). `WriterAssumption`
  states what "alone" means in `LoneWriteAccepted`: all commands but the monitor
  are typed in one terminal. Two writers take the seed from each other, and one
  of them is refused. `HonestNotPenalised` and the `write-name` part of
  `SuccessTrue` need the same assumption, for the same reason; the other parts of
  `SuccessTrue` hold for any terminals.

*Argument for SecurityAccess*: `SecurityConsistent` is inductive with `TypeOK`.
It is what the refinement needs, because the abstract "challenged" phase
excludes a bar, and what `LockOutHolds` needs, because a lock-out excludes an
outstanding seed.

*Argument for the rate limit*: `RateLimited` is not inductive. The
strengthening, `GuessesBehindDelay`, says that all guesses but the last
`fail_count` are a delay old, and that a standing lock-out ends a delay after
every guess. The MAX_FAILS-th guess turns the first statement into the second,
and the expiry of the lock-out turns it back.

*Argument for Vecu*: the write is justified because only the dispatcher
unlocks: between the two checks the S3 thread can only lower the level, so a
level seen at the second check was there at the first. The invariant carries,
for each place of `dpc` inside a write or a security access, the request and
the authorisation that led there. For `DefaultSessionLocked` the invariant adds
that when the S3 thread has reverted the session under a security access that
had already passed its session check, either the relock is still to come, or it
is done and the key on its way finds no seed. The two named parts are
`WriteInFlight` and `SecurityInFlight`.

*Argument for the answers*: `AnsweredUnlessSuppressed` speaks of the step that
drops a response, after the handler has built it. `AnswerInv` says that a response
that waits to be sent is the right one for its request (`RightAnswer`: it goes out,
or it is positive and suppressed); each handler establishes it, and the S3 thread
leaves it alone.

*Argument for the queue*: `Inv` adds to the types that waiters are in their
calls, that a pusher has a message, and that head, tail and count agree modulo
the capacity. `NoLostWakeup` is inductive on top of it, part by part: a push
adds a message and, if someone sleeps, wakes at least one, so that the number of
awake poppers grows with the number of messages; a pop takes one of each. The
refinement maps the ring to the sequence of its `count` slots from `head` on;
the two lemmas it rests on say that two places of the ring are two slots
(`PlacesDiffer`) and what a store and a load do to the sequence.

*Argument for the runtime*: every step of the process is a step of UdsQueue on
the queue's variables or leaves them alone, which makes UdsQueue's theorems
available. `ThreadInv` adds how far a thread can be, given where main is, that the
descriptor is closed from `close()` on, and that the queue is closed only after a
signal or by a receiver that has left. That nobody waits on the destroyed queue
then follows from the queue's own invariant: a thread that is over is in no call.

*Argument for ISO-TP*: `IInv` has three parts. First, the frames on the bus are
what `isotp_send` makes of started messages, in order and at offsets that are 6
modulo 7. Second (`AllLed`), a consecutive frame never meets the receiver in the
transfer of another message: whatever could put it there is followed by the first
frame of its own. On a bus without losses this is so because first frames go ahead
(`FirstGoesAhead`); with losses but no faults, because there is one token between
the two ends, the first frame or the flow control frame that answers it
(`OneToken`). Third (`TransferOK`), the receiver's buffer is a prefix of its
message, or a frame is missing and then all that is still to come has too high an
offset for the announced length to be reached. With both losses and faults
neither reason is left, which is the limit `Integrity` states. The sequence numbers
are not used in the proof: the lengths are enough.

*Argument for the client*: `TInv` is the type invariant with what it needs, Vecu's
`VInv` among it: a seed in a response is one the ECU can give, so that every request
a script can come to is one of `Requests`. For `LoneWriteAccepted`, `Lone` follows
a writer's command as long as nothing is overtaken and S3 does not act. At most
one request is on its way, it is the one the command is at, and `Stage` says where
it is: about to be sent, on the bus, with the dispatcher, answered. `Pre` is
what the ECU's state has to be for the request (extended session for a seed, this
very seed pending for a key, unlocked for a write), `Post` what it is afterwards and
what the answer says. The dispatcher takes `Pre` to `Post` (`ServeStep`), and a
command's next request has its `Pre` from the `Post` of the one before (`NextPre`).
The clock and the S3 thread up to its decision leave all this alone (`ClockLone`).
When S3 reverts or relocks, `Lone` is lost until the next command begins; what is
left, always, is `Bare`: no request under way but the writer's, no monitor that has
read anything, no lock-out. It is enough for the next command, because every script
begins by not asking anything of the ECU (`FirstPre`, `StartLone`): the same holds
after a command that gave up half way. That S3 can
disturb a command and yet bring about no lock-out is not visible in `Bare`; it
follows from `HonestToolNotPenalised`, which holds with the S3 timer and is proved
below: no key is counted as wrong, and without one no lock-out begins
(`NoLockOut`). `LoneInv` is `Bare`, and `Lone` unless `s3Acted`.

*Argument for the client's late answers* (`HonestNotPenalised`, `SuccessTrue`): a
command can take the answer to a request of its predecessor, as long as service
and sub-function agree, so it can run ahead of its own requests. What bounds this is
order. The `Line` of the writing terminal is what is to come to it: its inbox, the
answer the dispatcher is at, the requests on their way. Entries are taken at the
front and added at the end; the entries that no monitor sends are the `Strays`. `Lag` says
that strays can be ranked: ranks grow along the line, a request of the command at
work has its step number, one of a predecessor a number below the first step,
and a rank of 1 or more tells the kind of the entry. An overtaking command lets the
lowest rank sink by one; an answer that is taken uses the ranks up to its own.
After `o` overtakes a command that got past step `o + 1` has thus left all strays of
its predecessors behind (`Low`). The rest of `ToolsInv` draws on that:

* `Honest`: after at most one overtake there is one SecurityAccess request or answer
  under way at a time, and a pending seed is the one that this request, this
  answer, or the tool about to answer it carries. So no key is wrong.
* `WriteInv`: after at most two overtakes no other write is under way once the
  name is sent, and nothing at all once the owner is to be read back. So the
  positive answer and the name read back are about this write.
* `TruthInv`: `clear-dtc` and `unlock` take answers of others too, but what such an
  answer says stays true: nothing fills the fault memory, and only S3 locks the ECU
  again. This part needs no bound on the overtakes.
* `HeldInv`: the ECU holds nothing but requests of scripts.

The bounds one and two are those of the properties; a second and a third overtake
break them.

*Argument for AppEngine*: the invariant adds to the listed ones that what has been
read in the round under way was the engine's (`RoundRead`) and that the screen is
not ahead of the engine nor of the round (`ScreenBehind`). The wrap of the counter
needs the one assumption that the counter is wide enough for the way from `COLD`
to `WARM`: then the coolant has stopped before the counter wraps.

*Only model-checked*: the liveness properties (`SilenceEndsAccess`,
`ShutdownReleasesCallers`, `EveryPushReturns`, `ShutdownCompletes`,
`DispatcherFollowsReceiver`, `EveryMessageArrives`, `FcDeadlineSeenOnTraffic`,
`CommandsEnd`, `WarmsUp`), which the prover cannot treat. Every invariant and every
safety action property of the runs has a theorem.

## 5. Not modelled

* Payload bytes, response layout and log output.
* `vecu_destroy` and the other destructors, which run after the threads have
  been joined; NULL arguments, which no caller passes.
* Handler paths that the table filled by `vecu_init` cannot reach: a static DID
  longer than 256 bytes, a DID with neither data nor callback, a failing read
  callback.
* `h_session_control` with a buffer under six bytes changes the session and then
  fails. The program never passes one, and the assumption on `RESP_CAP` excludes
  it; the model keeps the order of the two.
* In Vecu, `sent` means "passed to `isotp_kio_send`"; that the call may fail is in
  DiagTool. A failing `setsockopt(SO_RCVTIMEO)` or `CAN_ISOTP_RECV_FC`, whose
  results are ignored.
* Failing `pthread_create`s: main ignores them and later joins an indeterminate
  `pthread_t`, which is undefined.
* An ISO-TP endpoint that sends and receives on one socket: `main` uses the kernel
  socket, and nothing in the repository runs `isotp.c` on a live bus (its smoke
  test passes wrong arguments and a closed socket).
* Opening and closing the raw CAN socket, which only the smoke tests do.
* `unlock --level` with a level other than 1, which the ECU refuses; command line
  parsing and display; the DTC names.
* The sinusoids of the engine, and its callbacks before
  `app_engine_install_did_callbacks`, which `vecu_init` calls before the threads run.
* Tests, containers and CI.

## 6. Plan

Done: security access, the handlers against S3, the queue, the runtime with its
start-up, ISO-TP, the client against the ECU, and the engine; proofs of all their
safety properties. What a change of the code would call for next: a second DID or
session that the security level guards (Vecu, and `Pre`/`Post` of the client), and
`isotp.c` on a live bus, once something in the repository uses it there.
