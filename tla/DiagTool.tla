------------------------------ MODULE DiagTool ------------------------------
(***************************************************************************)
(* client/diag_tool.py against the ECU of Vecu: invocations of the command *)
(* line tool, one after the other in each terminal, several terminals at   *)
(* a time.                                                                 *)
(*                                                                         *)
(* A terminal's requests reach the ECU in the order they were sent (the    *)
(* kernel socket, rx_thread and the queue are first-in first-out).  An     *)
(* answer reaches every tool that is running, because they all listen on   *)
(* 0x7E8.  A request may be lost on the bus, and so may an answer, whose   *)
(* isotp_kio_send the dispatcher does not check.                           *)
(*                                                                         *)
(* udsoncan is modelled from how the tool uses it: a call empties the      *)
(* receive queue, sends, waits for the next message and raises an          *)
(* exception unless it is the positive answer to this very request.        *)
(***************************************************************************)
EXTENDS UdsRequests, Sequences

CONSTANTS
    Terminals,
    Commands(_),   \* terminal -> the commands typed there: records of the
                   \* sub-command, the name and the length of the name
    Budgets        \* bounds: how often each kind of event may come

VARIABLES
    toEcu,      \* requests on their way: pairs of terminal and request
    serving,    \* the terminal whose request the dispatcher has in hand
    tool,       \* terminal -> the invocation
    inbox,      \* terminal -> messages received and not yet looked at
    spent       \* how often each kind of event came

toolVars == <<toEcu, serving, tool, inbox, spent>>

(***************************************************************************)
(* commands: invocations of the tool.  losses: requests and answers lost,  *)
(* sockets that fail.  overtakes: commands and rounds of the monitor that  *)
(* begin before the ECU is done with what it was sent from the same        *)
(* terminal.  rounds: of the monitor.  ticks: of the clock.                *)
(***************************************************************************)
Nothing == [commands |-> 0, losses |-> 0, overtakes |-> 0, rounds |-> 0, ticks |-> 0]

\* The events u come on top of what there was.
Spend(u) ==
    /\ spent' = [f \in DOMAIN spent |-> spent[f] + u[f]]
    /\ \E b \in Budgets : \A f \in DOMAIN spent : spent'[f] <= b[f]

Once(f) == [Nothing EXCEPT ![f] = 1]

Nobody == "nobody"

ASSUME DiagToolAssumption ==
    /\ \A b \in Budgets : \A f \in DOMAIN Nothing : b[f] \in Nat
    /\ Nobody \notin Terminals

\* Exit codes, and -- for an invocation that runs -- whether it waits for an
\* answer.
EXIT_OK       == 0
EXIT_UNCAUGHT == 1    \* an exception that main does not handle
EXIT_NRC      == 2
EXIT_TIMEOUT  == 3
EXIT_IO       == 4
SENDING == 5
WAITING == 6

\* `seed' is what request_seed returned, `confirmed' what read_owner_raw did.
Invocation(k, status) ==
    [cmd |-> k, step |-> 1, status |-> status, seed |-> 0, confirmed |-> "none"]

NoCommand == [verb |-> "none", name |-> "none", len |-> 0]

ToolInit ==
    /\ Init
    /\ toEcu = <<>> /\ serving = Nobody
    /\ tool = [t \in Terminals |-> Invocation(NoCommand, EXIT_OK)]
    /\ inbox = [t \in Terminals |-> <<>>]
    /\ spent = Nothing

Running(t) == tool[t].status \in {SENDING, WAITING}

-----------------------------------------------------------------------------
(* The sub-commands: the requests each makes, in order. *)

Extended    == Plain(UDS_SID_DIAGNOSTIC_SESSION_CONTROL, UDS_SESSION_EXTENDED)
RequestSeed == Plain(UDS_SID_SECURITY_ACCESS, 1)
ReadOwner   == Read("F200 owner")

\* security_algo, the tool's own copy of the ECU's.
security_algo(seed) == XorU32(seed, SECURITY_KEY_CONSTANT)

WriteName(k) == [Write("F200 owner", 3 + k.len) EXCEPT !.name = k.name]

MutantKeyForZeroSeed(seed) == <<SendKey(security_algo(seed))>>

\* unlock_security_access sends no key for the seed 0, "already unlocked".
\* cmd_unlock does.
UnlockKey(seed) == IF seed = 0 THEN <<>> ELSE <<SendKey(security_algo(seed))>>

cmd_unlock(seed) == <<Extended, RequestSeed, SendKey(security_algo(seed))>>

cmd_write_name(k, seed) ==
    <<Extended, RequestSeed>> \o UnlockKey(seed) \o <<WriteName(k), ReadOwner>>

cmd_monitor == <<Read("010C rpm"), Read("010D speed"), Read("0105 coolant")>>

\* The requests of command k, given the seed it got.
Script(k, seed) ==
    CASE k.verb = "read-vin"    -> <<Read("F190 VIN")>>
      [] k.verb = "read-serial" -> <<Read("F18C serial")>>
      [] k.verb = "read-dtc"    -> <<ReadDtc(2, {DTC_STATUS_TEST_FAILED, DTC_STATUS_CONFIRMED})>>
      [] k.verb = "clear-dtc"   -> <<ClearDtc(TRUE)>>
      [] k.verb = "unlock"      -> cmd_unlock(seed)
      [] k.verb = "write-name"  -> cmd_write_name(k, seed)
      [] k.verb = "monitor"     -> cmd_monitor

Steps(v) == Script(v.cmd, v.seed)

\* The request an invocation is about to send, or waits for the answer to.
Current(v) == Steps(v)[v.step]

\* VarAsciiCodec.encode raises ValueError for more than 32 characters.
Encodable(r) == r.sid = UDS_SID_WRITE_DATA_BY_IDENTIFIER => r.len - 3 <= 32

Verbs == {"read-vin", "read-serial", "read-dtc", "clear-dtc", "unlock", "write-name", "monitor"}

\* The requests of Vecu include what the tools send, for every seed they can get.
ASSUME CommandsAssumption ==
    \A t \in Terminals : \A k \in Commands(t) :
        /\ k.verb \in Verbs
        /\ \A seed \in Seeds \cup {0} : \A i \in 1..Len(Script(k, seed)) :
              Encodable(Script(k, seed)[i]) => Script(k, seed)[i] \in Requests

\* The sizes at run time are 32 and UDS_MAX_MSG_LEN, 4095.
ASSUME SizesAssumption == OWNER_NAME_CAP >= 32 /\ RESP_CAP >= 3 + OWNER_NAME_CAP

\* All commands but the monitor are typed in one terminal.
OnlyWriter(w) == \A t \in Terminals \ {w} : \A k \in Commands(t) : k.verb = "monitor"

ASSUME WriterAssumption == \E w \in Terminals : OnlyWriter(w)

-----------------------------------------------------------------------------
(* The tool. *)

\* main: an error ends the command, except that the monitor shows it and
\* starts the next round.
Fails(v, code) ==
    IF v.cmd.verb = "monitor" THEN [v EXCEPT !.step = 1, !.status = SENDING]
                              ELSE [v EXCEPT !.status = code]

MutantSocketStaysOpen(v, queue) == queue

\* What is left of an invocation's receive queue: a process that has ended
\* takes its socket with it.
Kept(v, queue) == IF v.status \in {SENDING, WAITING} THEN queue ELSE <<>>

\* The invocation in terminal t becomes v, and its receive queue `queue'.
Becomes(t, v, queue) ==
    /\ tool' = [tool EXCEPT ![t] = v]
    /\ inbox' = [inbox EXCEPT ![t] = Kept(v, queue)]

\* The ECU has not answered everything that came from this terminal.
Behind(t) == serving = t \/ \E i \in 1..Len(toEcu) : toEcu[i][1] = t

\* A new process with a new socket, if it can be opened.
Start(t, k) ==
    /\ ~Running(t)
    /\ \E failed \in {0, 1} :
          /\ Becomes(t, Invocation(k, IF failed = 1 THEN EXIT_IO ELSE SENDING), <<>>)
          /\ Spend([Once("commands") EXCEPT !.losses = failed,
                                             !.overtakes = IF Behind(t) THEN 1 ELSE 0])
    /\ UNCHANGED <<vars, toEcu, serving>>

\* A client call up to its wait.  empty_rxqueue leaves what is received while
\* the queue is emptied or before the request is sent.
Send(t) ==
    /\ tool[t].status = SENDING
    /\ Encodable(Current(tool[t]))
    /\ \E i \in 1..(Len(inbox[t]) + 1) :
          Becomes(t, [tool[t] EXCEPT !.status = WAITING], SubSeq(inbox[t], i, Len(inbox[t])))
    /\ \E lost \in {0, 1} :
          /\ toEcu' = IF lost = 1 THEN toEcu ELSE Append(toEcu, <<t, Current(tool[t])>>)
          /\ LET round == IF tool[t].cmd.verb = "monitor" /\ tool[t].step = 1 THEN 1 ELSE 0
             IN  Spend([Nothing EXCEPT !.losses = lost, !.rounds = round,
                                         !.overtakes = IF Behind(t) THEN round ELSE 0])
    /\ UNCHANGED <<vars, serving>>

\* The name cannot be encoded, or the socket refuses the request.
SendFails(t) ==
    /\ tool[t].status = SENDING
    /\ \/ /\ Encodable(Current(tool[t]))
          /\ Spend(Once("losses"))
          /\ Becomes(t, Fails(tool[t], EXIT_IO), inbox[t])
       \/ /\ ~Encodable(Current(tool[t]))
          /\ Becomes(t, Fails(tool[t], EXIT_UNCAUGHT), inbox[t])
          /\ UNCHANGED spent
    /\ UNCHANGED <<vars, toEcu, serving>>

MutantOnlyServiceChecked(r, m) == m.sid = r.sid /\ m.nrc = NO_NRC

\* The message is the positive answer to r: service, sub-function and DID.
Answers(r, m) == m.sid = r.sid /\ m.nrc = NO_NRC /\ m.sub = Sub(r) /\ m.did = r.did

\* A negative answer, as far as udsoncan looks at it.  read_owner_raw takes
\* one for an unexpected response.
Refuses(v, m) == m.sid = Current(v).sid /\ m.nrc # NO_NRC /\ Current(v) # ReadOwner

\* The invocation after the answer m to its current request.
Answered(v, m) ==
    LET u == [v EXCEPT !.seed = IF Current(v) = RequestSeed THEN m.seed ELSE @,
                       !.confirmed = IF Current(v) = ReadOwner THEN m.name ELSE @]
    IN  IF v.step < Len(Steps(u)) THEN {[u EXCEPT !.step = @ + 1, !.status = SENDING]}
        ELSE IF v.cmd.verb = "monitor"
          THEN {[u EXCEPT !.step = 1, !.status = s] : s \in {SENDING, EXIT_OK}}   \* q quits
        ELSE {[u EXCEPT !.status = EXIT_OK]}

Receive(t) ==
    /\ tool[t].status = WAITING /\ inbox[t] # <<>>
    /\ LET v == tool[t]
           m == Head(inbox[t])
           rest == Tail(inbox[t])
       IN  \/ Answers(Current(v), m) /\ \E u \in Answered(v, m) : Becomes(t, u, rest)
           \/ Refuses(v, m) /\ Becomes(t, Fails(v, EXIT_NRC), rest)
           \/ /\ ~Answers(Current(v), m) /\ ~Refuses(v, m)
              /\ Becomes(t, Fails(v, EXIT_UNCAUGHT), rest)
    /\ UNCHANGED <<vars, toEcu, serving, spent>>

MutantNoTimeout(t) == FALSE

\* Two seconds without a message; the ECU may still be at it.
Timeout(t) ==
    /\ tool[t].status = WAITING /\ inbox[t] = <<>>
    /\ Becomes(t, Fails(tool[t], EXIT_TIMEOUT), <<>>)
    /\ UNCHANGED <<vars, toEcu, serving, spent>>

-----------------------------------------------------------------------------
(* The ECU. *)

EcuTakes ==
    /\ toEcu # <<>>
    /\ Pop(Head(toEcu)[2])
    /\ toEcu' = Tail(toEcu) /\ serving' = Head(toEcu)[1]
    /\ UNCHANGED <<inbox, tool, spent>>

EcuHandles == dpc # "respond" /\ Handler /\ UNCHANGED toolVars

\* A bound on the states: the S3 thread polls from the first tick on.  Before
\* it a poll finds a clock and a time stamp of 0.
EcuTimer == now > 0 /\ S3 /\ UNCHANGED toolVars

\* What the dispatcher sends, as far as the tools look at it.
Answer ==
    [sid |-> req.sid, sub |-> Sub(req), did |-> req.did, nrc |-> resp.nrc, seed |-> resp.seed,
     name |-> IF req = ReadOwner THEN owner.name ELSE "none"]

EcuAnswers ==
    /\ Respond
    /\ serving' = Nobody
    /\ \/ /\ inbox' = [t \in Terminals |->
                          IF sent' THEN Kept(tool[t], Append(inbox[t], Answer)) ELSE inbox[t]]
          /\ UNCHANGED spent
       \/ sent' /\ Spend(Once("losses")) /\ UNCHANGED inbox
    /\ UNCHANGED <<toEcu, tool>>

TimePasses ==
    /\ Tick
    /\ Spend(Once("ticks"))
    /\ UNCHANGED <<toEcu, serving, tool, inbox>>

-----------------------------------------------------------------------------

Ecu == EcuTakes \/ EcuHandles \/ EcuAnswers \/ EcuTimer

Tool(t) == Send(t) \/ SendFails(t) \/ Receive(t) \/ Timeout(t)

ToolNext ==
    \/ Ecu \/ TimePasses
    \/ \E t \in Terminals : Tool(t) \/ \E k \in Commands(t) : Start(t, k)

ToolSpec == ToolInit /\ [][ToolNext]_<<vars, toolVars>>

\* The ECU's threads and the tools are scheduled; nobody has to type a command.
ToolFairness ==
    /\ WF_<<vars, toolVars>>(EcuTakes \/ EcuHandles \/ EcuAnswers)
    /\ WF_<<vars, toolVars>>(EcuTimer)
    /\ \A t \in Terminals : WF_<<vars, toolVars>>(Tool(t))

-----------------------------------------------------------------------------
(* Properties. *)

\* Type invariant; nothing is received where no tool runs.
ToolTypeOK ==
    /\ \A i \in 1..Len(toEcu) : toEcu[i][1] \in Terminals /\ toEcu[i][2] \in Requests
    /\ serving \in Terminals \cup {Nobody} /\ (serving = Nobody <=> dpc = "pop")
    /\ \A t \in Terminals :
          /\ tool[t].cmd \in Commands(t) \cup {NoCommand}
          /\ tool[t].status \in EXIT_OK..WAITING
          /\ Running(t) => tool[t].step \in 1..Len(Steps(tool[t]))
          /\ ~Running(t) => inbox[t] = <<>>
    /\ spent \in [DOMAIN Nothing -> Nat]

Ended(t, verb, code) == tool[t].cmd.verb = verb /\ tool[t].status = code

(***************************************************************************)
(* A tool that exits with 0 tells the truth, whatever was lost, late or    *)
(* meant for the monitor: write-name has written its name and confirmed    *)
(* this very name, clear-dtc has emptied the memory, unlock has unlocked   *)
(* the ECU, unless the S3 timer comes.  One terminal writes.  With three   *)
(* tools that begin before the ECU is done with their predecessor it does  *)
(* not hold: each takes the answers to the one before for its own, step by *)
(* step, and the last one confirms the name of another.                    *)
(***************************************************************************)
SuccessIsTrue ==
    spent.overtakes <= 2 => \A t \in Terminals :
        /\ Ended(t, "write-name", EXIT_OK) =>
              owner.name = tool[t].cmd.name /\ tool[t].confirmed = tool[t].cmd.name
        /\ Ended(t, "clear-dtc", EXIT_OK) => dtcs = {}
        /\ Ended(t, "unlock", EXIT_OK) => Unlocked \/ defaultBy = "s3"

(***************************************************************************)
(* The ECU never counts a wrong key against a tool that knows the key      *)
(* function, not for the key it sends to an ECU that is already unlocked,  *)
(* not after lost requests and answers, and not next to a monitor.  It     *)
(* takes two tools in a row that begin before the ECU is done with their   *)
(* predecessor to answer the seed of one request with the next pending.    *)
(***************************************************************************)
HonestToolNotPenalised == spent.overtakes <= 1 => sec.fail_count = 0

(***************************************************************************)
(* No command hangs: every one but the monitor comes to an end, although   *)
(* the dispatcher ignores a failed isotp_kio_send and nobody repeats a     *)
(* request.                                                                *)
(***************************************************************************)
CommandsEnd ==
    \A t \in Terminals :
        (Running(t) /\ tool[t].cmd.verb # "monitor") ~> ~Running(t)

(* runbook/DEMO.md leaves the monitor running in its window ("Laisse-le    *)
(* tourner en fond pendant la suite") and shows the output of the commands *)
(* that follow in the other one: none of them dies of an exception.        *)
NoUncaughtException == \A t \in Terminals : tool[t].status # EXIT_UNCAUGHT

(* runbook/RUN.md says of write-name that it needs an unlock before it     *)
(* ("nécessite unlock préalable"), and runbook/DEMO.md that an ECU that is *)
(* locked has to refuse it ("sans avoir débloqué la sécurité. L'ECU doit   *)
(* refuser"): a write-name that is the first command typed after the boot  *)
(* does not succeed.                                                       *)
UnlockComesFirst ==
    \A t \in Terminals : Ended(t, "write-name", EXIT_OK) => spent.commands > 1
=============================================================================
