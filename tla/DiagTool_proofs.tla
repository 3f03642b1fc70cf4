--------------------------- MODULE DiagTool_proofs ---------------------------
(***************************************************************************)
(* Proofs about DiagTool: what the command line tool sends is what the ECU *)
(* of Vecu is proved about, whatever terminals, commands and budgets there *)
(* are; a lone writer is refused only if S3 acted while it ran; and late   *)
(* answers of earlier commands neither make the tool report a success that *)
(* is none nor make it send a wrong key, within the bounds the properties  *)
(* state.                                                                  *)
(***************************************************************************)
EXTENDS ToolHistory, Vecu_proofs, SequenceTheorems

-----------------------------------------------------------------------------
(* Types. *)

\* What security_request_seed can put into a response.
GivenSeeds == Seeds \cup {0}

Names == OwnerNames \cup {"ANONYMOUS", "none"}

\* The messages on 0x7E8, as far as the tools look at them.
Mail ==
    [sid : {r.sid : r \in Requests}, sub : Nat, did : {r.did : r \in Requests},
     nrc : NRCs \cup {NO_NRC}, seed : GivenSeeds, name : Names]

Live(v) == v.status \in {SENDING, WAITING}

InvocationType(t) ==
    [cmd : Commands(t) \cup {NoCommand}, step : Nat, status : EXIT_OK..WAITING,
     seed : GivenSeeds, confirmed : Names]

\* An invocation in terminal t.  One that runs is at a step of its script.
GoodInvocation(t, v) ==
    /\ v \in InvocationType(t)
    /\ Live(v) => v.cmd \in Commands(t) /\ v.step \in 1..Len(Steps(v))

ToolsTyped ==
    /\ tool = [t \in Terminals |-> tool[t]]
    /\ inbox = [t \in Terminals |-> inbox[t]]
    /\ \A t \in Terminals :
          /\ GoodInvocation(t, tool[t])
          /\ inbox[t] \in Seq(Mail)
          /\ ~Live(tool[t]) => inbox[t] = <<>>

EcuTyped ==
    /\ toEcu \in Seq(Terminals \X Requests)
    /\ serving \in Terminals \cup {Nobody}
    /\ serving = Nobody <=> dpc = "pop"
    /\ resp.seed \in GivenSeeds

SpentTyped == spent \in [DOMAIN Nothing -> Nat]

TInv == VInv /\ EcuTyped /\ ToolsTyped /\ SpentTyped

-----------------------------------------------------------------------------
(* Scripts. *)

\* Every script is a sequence of at least one request, the monitor's of three.
LEMMA ScriptLength ==
    ASSUME NEW k, k.verb \in Verbs, NEW seed
    PROVE  /\ Len(Script(k, seed)) \in Nat \ {0}
           /\ k.verb = "monitor" => Script(k, seed) = cmd_monitor
<1>1. Len(cmd_monitor) = 3 /\ Len(cmd_unlock(seed)) = 3
  BY DEF cmd_monitor, cmd_unlock
<1>2. Len(cmd_write_name(k, seed)) \in Nat \ {0}
  <2>1. CASE seed = 0
    <3>1. cmd_write_name(k, seed) = <<Extended, RequestSeed>> \o <<>> \o <<WriteName(k), ReadOwner>>
      BY <2>1 DEF cmd_write_name, UnlockKey
    <3> QED BY <3>1
  <2>2. CASE seed # 0
    <3>1. cmd_write_name(k, seed)
             = <<Extended, RequestSeed>> \o <<SendKey(security_algo(seed))>>
               \o <<WriteName(k), ReadOwner>>
      BY <2>2 DEF cmd_write_name, UnlockKey
    <3> QED BY <3>1
  <2> QED BY <2>1, <2>2
<1>3. CASE k.verb = "unlock"
  BY <1>1, <1>3 DEF Script
<1>4. CASE k.verb = "write-name"
  BY <1>2, <1>4 DEF Script
<1>5. CASE k.verb = "monitor"
  BY <1>1, <1>5 DEF Script
<1>6. CASE k.verb \in {"read-vin", "read-serial", "read-dtc", "clear-dtc"}
  <2>1. \E r : Script(k, seed) = <<r>>
    BY <1>6, Zenon DEF Script
  <2> QED BY <1>6, <2>1
<1> QED BY <1>3, <1>4, <1>5, <1>6 DEF Verbs

\* What a running tool sends is a request of Vecu.
LEMMA CurrentIsRequest ==
    ASSUME NEW t \in Terminals, NEW v, GoodInvocation(t, v), Live(v), Encodable(Current(v))
    PROVE  Current(v) \in Requests
BY CommandsAssumption DEF GoodInvocation, InvocationType, Current, Steps, GivenSeeds

\* The first step of a script is one.
LEMMA FirstStep ==
    ASSUME NEW t \in Terminals, NEW k \in Commands(t), NEW seed
    PROVE  1 \in 1..Len(Script(k, seed))
<1>1. k.verb \in Verbs
  BY CommandsAssumption
<1>2. Len(Script(k, seed)) \in Nat \ {0}
  BY <1>1, ScriptLength
<1> QED BY <1>2

-----------------------------------------------------------------------------
(* A step of a tool. *)

Moved(v, i, s) == [v EXCEPT !.step = i, !.status = s]

\* An invocation goes to another step.
LEMMA AtStep ==
    ASSUME NEW t, NEW v \in InvocationType(t), NEW i \in Nat, NEW s \in EXIT_OK..WAITING
    PROVE  LET w == Moved(v, i, s)
           IN  /\ w \in InvocationType(t)
               /\ w.cmd = v.cmd /\ w.seed = v.seed /\ w.confirmed = v.confirmed
               /\ w.step = i /\ w.status = s
<1> DEFINE a == [v EXCEPT !.step = i]
           w == Moved(v, i, s)
<1>1. a \in InvocationType(t) /\ a.cmd = v.cmd /\ a.seed = v.seed /\ a.step = i
      /\ a.confirmed = v.confirmed
  BY DEF InvocationType
<1>2. w = [a EXCEPT !.status = s]
  BY DEF Moved
<1> HIDE DEF a, w
<1>3. /\ w \in InvocationType(t) /\ w.cmd = a.cmd /\ w.seed = a.seed /\ w.step = a.step
      /\ w.confirmed = a.confirmed /\ w.status = s
  BY <1>1, <1>2 DEF InvocationType
<1> QED BY <1>1, <1>3 DEF w

\* A new invocation.
LEMMA InvocationGood ==
    ASSUME NEW t \in Terminals, NEW k \in Commands(t), NEW status \in {EXIT_IO, SENDING}
    PROVE  GoodInvocation(t, Invocation(k, status))
<1>1. 1 \in 1..Len(Script(k, 0))
  BY FirstStep
<1>2. status \in EXIT_OK..WAITING
  BY DEF EXIT_IO, SENDING, WAITING, EXIT_OK
<1> QED BY <1>1, <1>2 DEF GoodInvocation, InvocationType, Invocation, Steps, GivenSeeds, Names

\* An error, of the monitor's or another command's.
LEMMA FailsGood ==
    ASSUME NEW t \in Terminals, NEW v, GoodInvocation(t, v), Live(v),
           NEW code \in {EXIT_UNCAUGHT, EXIT_NRC, EXIT_TIMEOUT, EXIT_IO}
    PROVE  GoodInvocation(t, Fails(v, code))
<1>1. code \in EXIT_OK..WAITING /\ code \notin {SENDING, WAITING} /\ SENDING \in EXIT_OK..WAITING
  BY DEF EXIT_OK, EXIT_UNCAUGHT, EXIT_NRC, EXIT_TIMEOUT, EXIT_IO, SENDING, WAITING
<1>2. CASE v.cmd.verb = "monitor"
  <2>1. Fails(v, code) = Moved(v, 1, SENDING)
    BY <1>2 DEF Fails, Moved
  <2>2. 1 \in 1..Len(Script(v.cmd, v.seed))
    BY FirstStep DEF GoodInvocation
  <2>3. v.cmd \in Commands(t)
    BY DEF GoodInvocation
  <2> DEFINE w == Fails(v, code)
  <2>4. /\ w \in InvocationType(t)
        /\ w.cmd = v.cmd /\ w.step = 1 /\ w.seed = v.seed
    <3>1. v \in InvocationType(t) /\ 1 \in Nat
      BY DEF GoodInvocation
    <3> QED BY <1>1, <2>1, <3>1, AtStep
  <2> HIDE DEF w
  <2> QED BY <2>2, <2>3, <2>4 DEF GoodInvocation, Steps, w
<1>3. CASE v.cmd.verb # "monitor"
  <2>1. Fails(v, code) = [v EXCEPT !.status = code]
    BY <1>3 DEF Fails
  <2> QED BY <1>1, <2>1 DEF GoodInvocation, Live, InvocationType
<1> QED BY <1>2, <1>3

\* The expected answer.
LEMMA AnsweredGood ==
    ASSUME NEW t \in Terminals, NEW v, GoodInvocation(t, v), Live(v), NEW m \in Mail,
           NEW u \in Answered(v, m)
    PROVE  GoodInvocation(t, u)
<1> DEFINE w == [v EXCEPT !.seed = IF Current(v) = RequestSeed THEN m.seed ELSE @,
                          !.confirmed = IF Current(v) = ReadOwner THEN m.name ELSE @]
<1>1. /\ w \in InvocationType(t)
      /\ w.cmd = v.cmd /\ w.step = v.step
  BY DEF GoodInvocation, InvocationType, Mail
<1>2. \/ v.step < Len(Steps(w)) /\ u = [w EXCEPT !.step = @ + 1, !.status = SENDING]
      \/ v.cmd.verb = "monitor" /\ \E s \in {SENDING, EXIT_OK} : u = [w EXCEPT !.step = 1, !.status = s]
      \/ u = [w EXCEPT !.status = EXIT_OK]
  BY DEF Answered
<1>3. v.cmd \in Commands(t) /\ v.step \in Nat \ {0}
  BY DEF GoodInvocation, InvocationType
<1>4. Len(Script(v.cmd, w.seed)) \in Nat
  BY <1>3, ScriptLength, CommandsAssumption
<1> HIDE DEF w
<1>5. 1 \in 1..Len(Script(v.cmd, w.seed))
  BY <1>3, FirstStep
<1>6. SENDING \in EXIT_OK..WAITING /\ EXIT_OK \in EXIT_OK..WAITING /\ EXIT_OK \notin {SENDING, WAITING}
  BY DEF EXIT_OK, SENDING, WAITING
<1>7. CASE v.step < Len(Steps(w)) /\ u = [w EXCEPT !.step = @ + 1, !.status = SENDING]
  <2>1. v.step + 1 \in 1..Len(Script(v.cmd, w.seed))
    BY <1>1, <1>3, <1>4, <1>7 DEF Steps
  <2>2. u = Moved(w, v.step + 1, SENDING)
    BY <1>1, <1>7 DEF Moved
  <2>3. u \in InvocationType(t) /\ u.cmd = v.cmd /\ u.seed = w.seed /\ u.step = v.step + 1
    <3> DEFINE i == v.step + 1
    <3>1. i \in Nat /\ u = Moved(w, i, SENDING)
      BY <1>3, <2>2
    <3> HIDE DEF i
    <3>2. u \in InvocationType(t) /\ u.cmd = w.cmd /\ u.seed = w.seed /\ u.step = i
      BY ONLY <1>1, <1>6, <3>1, AtStep
    <3> QED BY <1>1, <3>2 DEF i
  <2> QED BY <1>3, <2>1, <2>3 DEF GoodInvocation, Steps
<1>8. ASSUME NEW s \in {SENDING, EXIT_OK}, u = [w EXCEPT !.step = 1, !.status = s]
      PROVE  GoodInvocation(t, u)
  <2>1. /\ u \in InvocationType(t)
        /\ u.cmd = v.cmd /\ u.step = 1 /\ u.seed = w.seed
    <3>1. u = Moved(w, 1, s)
      BY <1>8 DEF Moved
    <3> QED BY <1>1, <1>6, <3>1, AtStep
  <2> QED BY <1>3, <1>5, <2>1 DEF GoodInvocation, Steps
<1>9. CASE u = [w EXCEPT !.status = EXIT_OK]
  BY <1>1, <1>6, <1>9 DEF GoodInvocation, Live, InvocationType
<1> QED BY <1>2, <1>7, <1>8, <1>9

\* A terminal's invocation and receive queue change; the others stay.
LEMMA BecomesTyped ==
    ASSUME ToolsTyped, NEW t \in Terminals, NEW v, GoodInvocation(t, v), NEW queue \in Seq(Mail),
           Becomes(t, v, queue)
    PROVE  ToolsTyped'
<1>1. tool' = [tool EXCEPT ![t] = v] /\ inbox' = [inbox EXCEPT ![t] = Kept(v, queue)]
  BY DEF Becomes
<1>2. tool' = [u \in Terminals |-> tool'[u]] /\ inbox' = [u \in Terminals |-> inbox'[u]]
  BY <1>1 DEF ToolsTyped
<1>3. tool'[t] = v /\ inbox'[t] = Kept(v, queue)
  BY <1>1 DEF ToolsTyped
<1>4. Kept(v, queue) \in Seq(Mail) /\ (~Live(v) => Kept(v, queue) = <<>>)
  <2>1. <<>> \in Seq(Mail)
    OBVIOUS
  <2> QED BY <2>1 DEF Kept, Live
<1>5. ASSUME NEW u \in Terminals
      PROVE  /\ GoodInvocation(u, tool'[u])
             /\ inbox'[u] \in Seq(Mail)
             /\ ~Live(tool'[u]) => inbox'[u] = <<>>
  <2>1. CASE u = t
    BY <1>3, <1>4, <2>1
  <2>2. CASE u # t
    <3>1. tool'[u] = tool[u] /\ inbox'[u] = inbox[u]
      BY <1>1, <2>2 DEF ToolsTyped
    <3> QED BY <3>1 DEF ToolsTyped
  <2> QED BY <2>1, <2>2
<1> QED BY <1>2, <1>5 DEF ToolsTyped

-----------------------------------------------------------------------------
(* What is spent. *)

\* Counts of events stay natural numbers.
LEMMA SpendTyped ==
    ASSUME SpentTyped, NEW u \in [DOMAIN Nothing -> Nat], Spend(u)
    PROVE  SpentTyped'
<1>1. spent' = [f \in DOMAIN Nothing |-> spent[f] + u[f]]
  BY DEF Spend, SpentTyped
<1> HIDE DEF Spend
<1> QED BY <1>1 DEF SpentTyped

\* The events of the actions.
LEMMA EventTypes ==
    ASSUME NEW a \in {0, 1}, NEW b \in {0, 1}, NEW c \in {0, 1}
    PROVE  /\ Once("losses") \in [DOMAIN Nothing -> Nat]
           /\ Once("ticks") \in [DOMAIN Nothing -> Nat]
           /\ [Once("commands") EXCEPT !.losses = a, !.overtakes = b] \in [DOMAIN Nothing -> Nat]
           /\ [Nothing EXCEPT !.losses = a, !.rounds = b, !.overtakes = c]
                 \in [DOMAIN Nothing -> Nat]
<1>1. DOMAIN Nothing = {"commands", "losses", "overtakes", "rounds", "ticks"}
  BY DEF Nothing
<1>2. Nothing \in [DOMAIN Nothing -> Nat]
  BY <1>1 DEF Nothing
<1>3. ASSUME NEW f \in DOMAIN Nothing PROVE Once(f) \in [DOMAIN Nothing -> Nat]
  BY <1>2 DEF Once
<1>4. ASSUME NEW g \in [DOMAIN Nothing -> Nat], NEW f \in DOMAIN Nothing, NEW n \in {0, 1}
      PROVE  [g EXCEPT ![f] = n] \in [DOMAIN Nothing -> Nat]
  OBVIOUS
<1>5. "losses" \in DOMAIN Nothing /\ "ticks" \in DOMAIN Nothing /\ "commands" \in DOMAIN Nothing
      /\ "overtakes" \in DOMAIN Nothing /\ "rounds" \in DOMAIN Nothing
  BY <1>1
<1> HIDE DEF Nothing
<1>6. Once("losses") \in [DOMAIN Nothing -> Nat] /\ Once("ticks") \in [DOMAIN Nothing -> Nat]
  BY <1>3, <1>5
<1>7. [Once("commands") EXCEPT !.losses = a, !.overtakes = b] \in [DOMAIN Nothing -> Nat]
  <2> DEFINE g == Once("commands")
             h == [g EXCEPT !.losses = a]
  <2>1. g \in [DOMAIN Nothing -> Nat]
    BY <1>3, <1>5
  <2> HIDE DEF g
  <2>2. h \in [DOMAIN Nothing -> Nat]
    BY <1>4, <1>5, <2>1
  <2> HIDE DEF h
  <2>3. [h EXCEPT !.overtakes = b] \in [DOMAIN Nothing -> Nat]
    BY <1>4, <1>5, <2>2
  <2> QED BY <2>3 DEF g, h
<1>8. [Nothing EXCEPT !.losses = a, !.rounds = b, !.overtakes = c] \in [DOMAIN Nothing -> Nat]
  <2> DEFINE g == [Nothing EXCEPT !.losses = a]
             h == [g EXCEPT !.rounds = b]
  <2>1. g \in [DOMAIN Nothing -> Nat]
    BY <1>2, <1>4, <1>5
  <2> HIDE DEF g
  <2>2. h \in [DOMAIN Nothing -> Nat]
    BY <1>4, <1>5, <2>1
  <2> HIDE DEF h
  <2>3. [h EXCEPT !.overtakes = c] \in [DOMAIN Nothing -> Nat]
    BY <1>4, <1>5, <2>2
  <2> QED BY <2>3 DEF g, h
<1> QED BY <1>6, <1>7, <1>8

-----------------------------------------------------------------------------
(* The tools keep the invariant. *)

\* The ECU rests while a tool moves.
LEMMA EcuRests ==
    ASSUME TInv, UNCHANGED vars
    PROVE  VInv' /\ dpc' = dpc /\ resp' = resp
<1>1. VInv'
  BY NextVInv DEF TInv
<1> QED BY <1>1 DEF vars, dispVars

\* A new process.
LEMMA StartTInv ==
    ASSUME TInv, NEW t \in Terminals, NEW k \in Commands(t), Start(t, k)
    PROVE  TInv'
<1>1. PICK failed \in {0, 1} :
         /\ Becomes(t, Invocation(k, IF failed = 1 THEN EXIT_IO ELSE SENDING), <<>>)
         /\ Spend([Once("commands") EXCEPT !.losses = failed,
                                            !.overtakes = IF Behind(t) THEN 1 ELSE 0])
  BY DEF Start
<1>2. ToolsTyped'
  <2> DEFINE v == Invocation(k, IF failed = 1 THEN EXIT_IO ELSE SENDING)
  <2>1. GoodInvocation(t, v)
    BY InvocationGood
  <2>2. <<>> \in Seq(Mail)
    OBVIOUS
  <2> HIDE DEF v
  <2>3. Becomes(t, v, <<>>)
    BY <1>1 DEF v
  <2> QED BY <2>1, <2>2, <2>3, BecomesTyped DEF TInv
<1>3. SpentTyped'
  <2> DEFINE u == [Once("commands") EXCEPT !.losses = failed,
                                           !.overtakes = IF Behind(t) THEN 1 ELSE 0]
  <2>1. u \in [DOMAIN Nothing -> Nat]
    <3> DEFINE o == IF Behind(t) THEN 1 ELSE 0
    <3>1. o \in {0, 1}
      OBVIOUS
    <3> HIDE DEF o
    <3>2. [Once("commands") EXCEPT !.losses = failed, !.overtakes = o] \in [DOMAIN Nothing -> Nat]
      BY <3>1, EventTypes
    <3> QED BY <3>2 DEF o
  <2>2. Spend(u)
    BY <1>1
  <2> HIDE DEF u
  <2> QED BY <2>1, <2>2, SpendTyped DEF TInv
<1>4. VInv' /\ EcuTyped'
  BY EcuRests DEF TInv, Start, EcuTyped
<1> QED BY <1>2, <1>3, <1>4 DEF TInv

\* What a running tool has of a script is typed.
LEMMA SendTInv ==
    ASSUME TInv, NEW t \in Terminals, Send(t)
    PROVE  TInv'
<1> DEFINE v == tool[t]
           queue == inbox[t]
           r == Current(v)
<1>1. /\ GoodInvocation(t, v) /\ queue \in Seq(Mail) /\ Live(v) /\ v.status = SENDING
      /\ Encodable(r)
  BY DEF TInv, ToolsTyped, Send, Live
<1>2. r \in Requests
  BY <1>1, CurrentIsRequest
<1>3. ToolsTyped'
  <2>1. PICK i \in 1..(Len(queue) + 1) :
           Becomes(t, [v EXCEPT !.status = WAITING], SubSeq(queue, i, Len(queue)))
    BY DEF Send
  <2>2. SubSeq(queue, i, Len(queue)) \in Seq(Mail)
    <3>1. Len(queue) \in Nat
      BY <1>1
    <3>2. i \in 1..(Len(queue) + 1) /\ Len(queue) \in i-1..Len(queue)
      BY <2>1, <3>1
    <3>3. \A j \in i..Len(queue) : queue[j] \in Mail
      <4>1. \A j \in 1..Len(queue) : queue[j] \in Mail
        BY <1>1, ElementOfSeq
      <4> QED BY <3>1, <3>2, <4>1
    <3> HIDE DEF queue
    <3> QED BY <1>1, <3>1, <3>2, <3>3, SubSeqProperties
  <2>3. GoodInvocation(t, [v EXCEPT !.status = WAITING])
    <3>1. WAITING \in EXIT_OK..WAITING
      BY DEF EXIT_OK, WAITING
    <3> DEFINE w == [v EXCEPT !.status = WAITING]
    <3> HIDE DEF v
    <3>2. w \in InvocationType(t) /\ w.cmd = v.cmd /\ w.step = v.step /\ w.seed = v.seed
      BY <1>1, <3>1 DEF GoodInvocation, InvocationType
    <3> HIDE DEF w
    <3>3. GoodInvocation(t, w)
      BY <1>1, <3>2 DEF GoodInvocation, Steps
    <3> QED BY <3>3 DEF w
  <2> HIDE DEF v, queue
  <2> QED BY <2>1, <2>2, <2>3, BecomesTyped DEF TInv
<1>4. PICK lost \in {0, 1} :
         /\ toEcu' = IF lost = 1 THEN toEcu ELSE Append(toEcu, <<t, r>>)
         /\ LET round == IF v.cmd.verb = "monitor" /\ v.step = 1 THEN 1 ELSE 0
            IN  Spend([Nothing EXCEPT !.losses = lost, !.rounds = round,
                                      !.overtakes = IF Behind(t) THEN round ELSE 0])
  BY DEF Send
<1>5. SpentTyped'
  <2> DEFINE b == IF v.cmd.verb = "monitor" /\ v.step = 1 THEN 1 ELSE 0
             c == IF Behind(t) THEN b ELSE 0
             u == [Nothing EXCEPT !.losses = lost, !.rounds = b, !.overtakes = c]
  <2>1. b \in {0, 1} /\ c \in {0, 1}
    OBVIOUS
  <2>2. Spend(u)
    BY <1>4
  <2> HIDE DEF b, c
  <2>3. u \in [DOMAIN Nothing -> Nat]
    BY <2>1, EventTypes
  <2> HIDE DEF u
  <2> QED BY <2>2, <2>3, SpendTyped DEF TInv
<1>6. toEcu' \in Seq(Terminals \X Requests)
  <2> HIDE DEF v, r
  <2>1. toEcu \in Seq(Terminals \X Requests) /\ <<t, r>> \in Terminals \X Requests
    BY <1>2 DEF TInv, EcuTyped
  <2>2. Append(toEcu, <<t, r>>) \in Seq(Terminals \X Requests)
    BY <2>1, AppendProperties
  <2> QED BY <1>4, <2>1, <2>2
<1>7. VInv' /\ dpc' = dpc /\ resp' = resp /\ serving' = serving
  BY EcuRests DEF Send
<1>8. EcuTyped'
  BY <1>6, <1>7 DEF TInv, EcuTyped
<1> QED BY <1>3, <1>5, <1>7, <1>8 DEF TInv

\* A request that is not sent.
LEMMA SendFailsTInv ==
    ASSUME TInv, NEW t \in Terminals, SendFails(t)
    PROVE  TInv'
<1>1. GoodInvocation(t, tool[t]) /\ inbox[t] \in Seq(Mail) /\ Live(tool[t])
  BY DEF TInv, ToolsTyped, SendFails, Live
<1>2. \E code \in {EXIT_UNCAUGHT, EXIT_IO} : Becomes(t, Fails(tool[t], code), inbox[t])
  BY DEF SendFails
<1>3. ToolsTyped'
  BY <1>1, <1>2, FailsGood, BecomesTyped DEF TInv
<1>4. SpentTyped'
  <2>1. Spend(Once("losses")) \/ spent' = spent
    BY DEF SendFails
  <2>2. Once("losses") \in [DOMAIN Nothing -> Nat]
    BY EventTypes
  <2>3. CASE Spend(Once("losses"))
    BY <2>2, <2>3, SpendTyped DEF TInv
  <2>4. CASE spent' = spent
    BY <2>4 DEF TInv, SpentTyped
  <2> QED BY <2>1, <2>3, <2>4
<1>5. VInv' /\ EcuTyped'
  BY EcuRests DEF TInv, SendFails, EcuTyped
<1> QED BY <1>3, <1>4, <1>5 DEF TInv

\* A message, or none.
LEMMA ReceiveTInv ==
    ASSUME TInv, NEW t \in Terminals, Receive(t) \/ Timeout(t)
    PROVE  TInv'
<1> DEFINE v == tool[t]
           queue == inbox[t]
<1>1. GoodInvocation(t, v) /\ queue \in Seq(Mail) /\ Live(v)
  BY DEF TInv, ToolsTyped, Receive, Timeout, Live
<1>2. ASSUME Receive(t) PROVE ToolsTyped'
  <2>0. queue # <<>>
    BY <1>2 DEF Receive
  <2>1. Head(queue) \in Mail /\ Tail(queue) \in Seq(Mail)
    <3> HIDE DEF queue
    <3> QED BY <1>1, <2>0, HeadTailProperties
  <2>2. \/ \E u \in Answered(v, Head(queue)) : Becomes(t, u, Tail(queue))
        \/ \E code \in {EXIT_UNCAUGHT, EXIT_NRC} : Becomes(t, Fails(v, code), Tail(queue))
    BY <1>2 DEF Receive
  <2> HIDE DEF v, queue
  <2>3. ASSUME NEW u \in Answered(v, Head(queue)), Becomes(t, u, Tail(queue))
        PROVE  ToolsTyped'
    <3>1. GoodInvocation(t, u)
      BY <1>1, <2>1, AnsweredGood
    <3> QED BY <2>1, <2>3, <3>1, BecomesTyped DEF TInv
  <2>4. ASSUME NEW code \in {EXIT_UNCAUGHT, EXIT_NRC}, Becomes(t, Fails(v, code), Tail(queue))
        PROVE  ToolsTyped'
    <3>1. GoodInvocation(t, Fails(v, code))
      BY <1>1, FailsGood
    <3> QED BY <2>1, <2>4, <3>1, BecomesTyped DEF TInv
  <2> QED BY <2>2, <2>3, <2>4
<1>3. ASSUME Timeout(t) PROVE ToolsTyped'
  <2>1. Becomes(t, Fails(v, EXIT_TIMEOUT), <<>>)
    BY <1>3 DEF Timeout
  <2>2. GoodInvocation(t, Fails(v, EXIT_TIMEOUT)) /\ <<>> \in Seq(Mail)
    BY <1>1, FailsGood
  <2> HIDE DEF v
  <2> QED BY <2>1, <2>2, BecomesTyped DEF TInv
<1>4. ToolsTyped'
  BY <1>2, <1>3
<1>5. UNCHANGED <<vars, toEcu, serving, spent>>
  BY DEF Receive, Timeout
<1>6. VInv' /\ EcuTyped' /\ SpentTyped'
  BY <1>5, EcuRests DEF TInv, EcuTyped, SpentTyped
<1> QED BY <1>4, <1>6 DEF TInv

-----------------------------------------------------------------------------
(* The ECU keeps it. *)

\* The seed in a handler's response.
LEMMA ReturnSeed ==
    ASSUME NEW r, Return(r), r.seed \in GivenSeeds
    PROVE  dpc' = "respond" /\ resp'.seed \in GivenSeeds
BY DEF Return

\* Responses without a seed.
LEMMA ZeroSeeds ==
    /\ 0 \in GivenSeeds
    /\ \A nrc : build_nrc(nrc).seed \in GivenSeeds
    /\ \A len : Positive(len).seed \in GivenSeeds
    /\ \A r, len : PositiveSub(r, len, 0).seed \in GivenSeeds
    /\ NoResponse.seed \in GivenSeeds
BY DEF GivenSeeds, build_nrc, Positive, PositiveSub, NoResponse

\* A handler stays with its request until it responds, and the seed in its
\* response is one that security_request_seed gives.
LEMMA HandlerSeeds ==
    ASSUME VInv, Handler, dpc # "respond"
    PROVE  /\ dpc # "pop" /\ dpc' # "pop"
           /\ resp' = resp \/ resp'.seed \in GivenSeeds
<1> DEFINE Goal == /\ dpc # "pop" /\ dpc' # "pop"
                   /\ resp' = resp \/ resp'.seed \in GivenSeeds
<1>1. ASSUME NEW r, Return(r), r.seed \in GivenSeeds, dpc # "pop" PROVE Goal
  BY <1>1, ReturnSeed
<1>2. ASSUME NEW pc, GoTo(pc), pc # "pop", dpc # "pop" PROVE Goal
  BY <1>2 DEF GoTo
<1> HIDE DEF Goal
<1>3. CASE h_session_control
  <2>1. dpc # "pop"
    BY <1>3 DEF h_session_control, Handling
  <2>2. \E r : Return(r) /\ r.seed \in GivenSeeds
    BY <1>3, ZeroSeeds DEF h_session_control
  <2> QED BY <1>1, <2>1, <2>2 DEF Goal
<1>4. CASE h_ecu_reset
  <2>1. dpc # "pop"
    BY <1>4 DEF h_ecu_reset, Handling
  <2>2. (\E r : Return(r) /\ r.seed \in GivenSeeds) \/ GoTo("reset_security")
    BY <1>4, ZeroSeeds DEF h_ecu_reset
  <2> QED BY <1>1, <1>2, <2>1, <2>2 DEF Goal
<1>5. CASE h_ecu_reset_security
  <2>1. dpc # "pop" /\ \E r : Return(r) /\ r.seed \in GivenSeeds
    BY <1>5, ZeroSeeds DEF h_ecu_reset_security
  <2> QED BY <1>1, <2>1 DEF Goal
<1>6. CASE h_clear_dtc
  <2>1. dpc # "pop"
    BY <1>6 DEF h_clear_dtc, Handling
  <2>2. \E r : Return(r) /\ r.seed \in GivenSeeds
    BY <1>6, ZeroSeeds DEF h_clear_dtc
  <2> QED BY <1>1, <2>1, <2>2 DEF Goal
<1>7. CASE h_read_dtc \/ h_read_did
  <2>0. dpc # "pop"
    BY <1>7 DEF h_read_dtc, h_read_did, Handling
  <2>1. dtcs \subseteq DtcsAtBoot /\ owner.len \in Nat /\ req \in Requests
    BY <2>0, VecuDataAssumption DEF VInv, TypeOK
  <2>2. ReadDtcResponse(req).seed \in GivenSeeds /\ ReadDidResponse(req).seed \in GivenSeeds
    BY <2>1, ReadForms, ZeroSeeds
  <2>3. \E r : Return(r) /\ r.seed \in GivenSeeds
    BY <1>7, <2>2 DEF h_read_dtc, h_read_did
  <2> QED BY <1>1, <2>0, <2>3 DEF Goal
<1>8. CASE h_security_access
  <2>1. dpc # "pop"
    BY <1>8 DEF h_security_access, Handling
  <2>2. (\E r : Return(r) /\ r.seed \in GivenSeeds) \/ GoTo("security")
    BY <1>8, ZeroSeeds DEF h_security_access
  <2> QED BY <1>1, <1>2, <2>1, <2>2 DEF Goal
<1>9. ASSUME NEW raw \in Entropy, h_request_seed(raw) PROVE Goal
  <2> DEFINE out == security_request_seed(sec, Level(req), now, raw)
  <2>1. dpc # "pop" /\ Return(SecurityResponse(req, out, 6))
    BY <1>9 DEF h_request_seed
  <2>2. out.seed \in GivenSeeds
    BY FreshSeedType DEF security_request_seed, Refused, GivenSeeds
  <2> HIDE DEF out
  <2>3. SecurityResponse(req, out, 6).seed \in GivenSeeds
    BY <2>2, ZeroSeeds DEF SecurityResponse, PositiveSub
  <2> QED BY <1>1, <2>1, <2>3
<1>10. CASE h_send_key
  <2> DEFINE out == security_send_key(sec, Level(req), req.key, now)
  <2>1. dpc # "pop" /\ Return(SecurityResponse(req, out, 2))
    BY <1>10 DEF h_send_key
  <2>2. out.seed = 0
    BY DEF security_send_key, Refused
  <2> HIDE DEF out
  <2>3. SecurityResponse(req, out, 2).seed \in GivenSeeds
    BY <2>2, ZeroSeeds DEF SecurityResponse, PositiveSub
  <2> QED BY <1>1, <2>1, <2>3 DEF Goal
<1>11. CASE h_write_did
  <2>1. dpc # "pop"
    BY <1>11 DEF h_write_did, Handling
  <2>2. (\E r : Return(r) /\ r.seed \in GivenSeeds) \/ GoTo("write_security")
    BY <1>11, ZeroSeeds DEF h_write_did
  <2> QED BY <1>1, <1>2, <2>1, <2>2 DEF Goal
<1>12. CASE h_write_did_security
  <2>1. dpc # "pop"
    BY <1>12 DEF h_write_did_security
  <2>2. (\E r : Return(r) /\ r.seed \in GivenSeeds) \/ GoTo("write_owner")
    BY <1>12, ZeroSeeds DEF h_write_did_security
  <2> QED BY <1>1, <1>2, <2>1, <2>2 DEF Goal
<1>13. CASE h_write_did_owner
  <2>1. dpc # "pop" /\ \E r : Return(r) /\ r.seed \in GivenSeeds
    BY <1>13, ZeroSeeds DEF h_write_did_owner
  <2> QED BY <1>1, <2>1 DEF Goal
<1>14. CASE h_tester_present \/ service_not_supported
  <2>1. dpc # "pop"
    BY <1>14 DEF h_tester_present, service_not_supported, Handling
  <2>2. \E r : Return(r) /\ r.seed \in GivenSeeds
    BY <1>14, ZeroSeeds DEF h_tester_present, service_not_supported
  <2> QED BY <1>1, <2>1, <2>2 DEF Goal
<1>15. ~Respond
  BY DEF Respond
<1>16. Goal
  BY <1>3, <1>4, <1>5, <1>6, <1>7, <1>8, <1>9, <1>10, <1>11, <1>12, <1>13, <1>14, <1>15
     DEF Handler, Goal
<1> QED BY <1>16 DEF Goal

\* The dispatcher takes a tool's request.
LEMMA TakesTInv == TInv /\ EcuTakes => TInv'
<1> SUFFICES ASSUME TInv, EcuTakes PROVE TInv'
  OBVIOUS
<1>1. toEcu \in Seq(Terminals \X Requests) /\ toEcu # <<>>
  BY DEF TInv, EcuTyped, EcuTakes
<1>2. Head(toEcu) \in Terminals \X Requests /\ Tail(toEcu) \in Seq(Terminals \X Requests)
  BY ONLY <1>1, HeadTailProperties
<1>3. Head(toEcu)[1] \in Terminals /\ Head(toEcu)[2] \in Requests
  BY <1>2
<1>4. VInv'
  BY <1>3, PopVInv DEF TInv, EcuTakes
<1>5. EcuTyped'
  <2>1. dpc' = "handle" /\ resp' = resp /\ serving' = Head(toEcu)[1] /\ toEcu' = Tail(toEcu)
    BY DEF EcuTakes, Pop
  <2>2. serving' # Nobody
    BY <1>3, <2>1, DiagToolAssumption
  <2>3. toEcu' \in Seq(Terminals \X Requests) /\ serving' \in Terminals
    BY <1>2, <1>3, <2>1
  <2> QED BY <2>1, <2>2, <2>3 DEF TInv, EcuTyped
<1>6. ToolsTyped' /\ SpentTyped'
  BY DEF TInv, EcuTakes, ToolsTyped, SpentTyped
<1> QED BY <1>4, <1>5, <1>6 DEF TInv

\* A handler's step.
LEMMA HandlesTInv == TInv /\ EcuHandles => TInv'
<1> SUFFICES ASSUME TInv, EcuHandles PROVE TInv'
  OBVIOUS
<1>1. VInv /\ Handler /\ dpc # "respond"
  BY DEF TInv, EcuHandles
<1>2. VInv'
  BY <1>1, NextVInv DEF Next
<1>3. EcuTyped'
  BY <1>1, HandlerSeeds DEF TInv, EcuTyped, EcuHandles, toolVars
<1>4. ToolsTyped' /\ SpentTyped'
  BY DEF TInv, EcuHandles, toolVars, ToolsTyped, SpentTyped
<1> QED BY <1>2, <1>3, <1>4 DEF TInv

\* The S3 thread and the clock.
LEMMA TimerTInv == TInv /\ (EcuTimer \/ TimePasses) => TInv'
<1> SUFFICES ASSUME TInv, EcuTimer \/ TimePasses PROVE TInv'
  OBVIOUS
<1>1. S3 \/ Tick
  BY DEF EcuTimer, TimePasses
<1>2. VInv'
  BY <1>1, NextVInv DEF TInv, Next
<1>3. dpc' = dpc /\ resp' = resp
  BY <1>1 DEF S3, S3Poll, S3ReadNow, S3ReadTp, S3Revert, S3Relock, Tick, dispVars
<1>4. UNCHANGED <<toEcu, serving, tool, inbox>>
  BY DEF EcuTimer, TimePasses, toolVars
<1>5. EcuTyped' /\ ToolsTyped'
  BY <1>3, <1>4 DEF TInv, EcuTyped, ToolsTyped
<1>6. SpentTyped'
  <2>1. Spend(Once("ticks")) \/ spent' = spent
    BY DEF EcuTimer, TimePasses, toolVars
  <2>2. Once("ticks") \in [DOMAIN Nothing -> Nat]
    BY EventTypes
  <2>3. CASE Spend(Once("ticks"))
    BY <2>2, <2>3, SpendTyped DEF TInv
  <2>4. CASE spent' = spent
    BY <2>4 DEF TInv, SpentTyped
  <2> QED BY <2>1, <2>3, <2>4
<1> QED BY <1>2, <1>5, <1>6 DEF TInv

\* What the dispatcher sends is a message the tools understand.
LEMMA AnswerIsMail ==
    ASSUME TInv, dpc = "respond"
    PROVE  Answer \in Mail
<1>1. req \in Requests /\ resp \in Responses /\ resp.seed \in GivenSeeds
      /\ owner.name \in OwnerNames \cup {"ANONYMOUS"}
  BY DEF TInv, VInv, TypeOK, EcuTyped
<1>2. Sub(req) \in Nat
  BY <1>1, VecuAssumption DEF Sub, Bytes
<1>3. resp.nrc \in NRCs \cup {NO_NRC}
  BY <1>1 DEF Responses
<1>4. (IF req = ReadOwner THEN owner.name ELSE "none") \in Names
  BY <1>1 DEF Names
<1> QED BY <1>1, <1>2, <1>3, <1>4 DEF Answer, Mail

\* The dispatcher's answer reaches the tools that run, or is lost.
LEMMA AnswersTInv == TInv /\ EcuAnswers => TInv'
<1> SUFFICES ASSUME TInv, EcuAnswers PROVE TInv'
  OBVIOUS
<1>1. Respond
  BY DEF EcuAnswers
<1>2. VInv'
  BY <1>1, NextVInv DEF TInv, Next, Handler
<1>3. EcuTyped'
  BY <1>1, ZeroSeeds DEF TInv, EcuTyped, EcuAnswers, Respond
<1>4. Answer \in Mail
  BY <1>1, AnswerIsMail DEF Respond
<1>5. ToolsTyped'
  <2>0. tool' = tool
    BY DEF EcuAnswers
  <2>1. \/ inbox' = inbox
        \/ inbox' = [t \in Terminals |->
                        IF sent' THEN Kept(tool[t], Append(inbox[t], Answer)) ELSE inbox[t]]
    BY DEF EcuAnswers
  <2>2. CASE inbox' = inbox
    BY <2>0, <2>2 DEF TInv, ToolsTyped
  <2>3. CASE inbox' = [t \in Terminals |->
                         IF sent' THEN Kept(tool[t], Append(inbox[t], Answer)) ELSE inbox[t]]
    <3>1. ASSUME NEW t \in Terminals
          PROVE  inbox'[t] \in Seq(Mail) /\ (~Live(tool'[t]) => inbox'[t] = <<>>)
      <4>1. inbox[t] \in Seq(Mail) /\ (~Live(tool[t]) => inbox[t] = <<>>)
        BY DEF TInv, ToolsTyped
      <4>2. Append(inbox[t], Answer) \in Seq(Mail) /\ <<>> \in Seq(Mail)
        BY <1>4, <4>1
      <4>3. inbox'[t] = IF sent' THEN Kept(tool[t], Append(inbox[t], Answer)) ELSE inbox[t]
        BY <2>3
      <4> QED BY <2>0, <4>1, <4>2, <4>3 DEF Kept, Live
    <3>2. inbox' = [t \in Terminals |-> inbox'[t]]
      BY <2>3
    <3> QED BY <2>0, <3>1, <3>2 DEF TInv, ToolsTyped
  <2> QED BY <2>1, <2>2, <2>3
<1>6. SpentTyped'
  <2>1. Spend(Once("losses")) \/ spent' = spent
    BY DEF EcuAnswers
  <2>2. Once("losses") \in [DOMAIN Nothing -> Nat]
    BY EventTypes
  <2>3. CASE Spend(Once("losses"))
    BY <2>2, <2>3, SpendTyped DEF TInv
  <2>4. CASE spent' = spent
    BY <2>4 DEF TInv, SpentTyped
  <2> QED BY <2>1, <2>3, <2>4
<1> QED BY <1>2, <1>3, <1>5, <1>6 DEF TInv

-----------------------------------------------------------------------------

\* Nobody has typed a command.
LEMMA InitTInv == ToolInit => TInv
<1> SUFFICES ASSUME ToolInit PROVE TInv
  OBVIOUS
<1>1. VInv
  BY InitVInv DEF ToolInit
<1>2. EcuTyped
  BY ZeroSeeds DEF ToolInit, Init, EcuTyped
<1>3. ToolsTyped
  <2> DEFINE v == Invocation(NoCommand, EXIT_OK)
  <2>1. \A t \in Terminals : v \in InvocationType(t)
    BY DEF Invocation, InvocationType, EXIT_OK, WAITING, GivenSeeds, Names
  <2>2. ~Live(v)
    BY DEF Live, Invocation, EXIT_OK, SENDING, WAITING
  <2> HIDE DEF v
  <2>3. tool = [t \in Terminals |-> v] /\ inbox = [t \in Terminals |-> <<>>]
    BY DEF ToolInit, v
  <2>4. <<>> \in Seq(Mail)
    OBVIOUS
  <2> QED BY <2>1, <2>2, <2>3, <2>4 DEF ToolsTyped, GoodInvocation
<1>4. SpentTyped
  BY DEF ToolInit, SpentTyped, Nothing
<1> QED BY <1>1, <1>2, <1>3, <1>4 DEF TInv

\* Every step preserves the invariant.
LEMMA NextTInv == TInv /\ [ToolNext]_<<vars, toolVars>> => TInv'
<1> SUFFICES ASSUME TInv, [ToolNext]_<<vars, toolVars>> PROVE TInv'
  OBVIOUS
<1>1. CASE Ecu
  BY <1>1, TakesTInv, HandlesTInv, AnswersTInv, TimerTInv DEF Ecu
<1>2. CASE TimePasses
  BY <1>2, TimerTInv
<1>3. ASSUME NEW t \in Terminals, Tool(t) PROVE TInv'
  BY <1>3, SendTInv, SendFailsTInv, ReceiveTInv DEF Tool
<1>4. ASSUME NEW t \in Terminals, NEW k \in Commands(t), Start(t, k) PROVE TInv'
  BY <1>4, StartTInv
<1>5. CASE UNCHANGED <<vars, toolVars>>
  <2>1. VInv' /\ EcuTyped'
    BY <1>5, EcuRests DEF TInv, EcuTyped, toolVars
  <2> QED BY <1>5, <2>1 DEF TInv, ToolsTyped, SpentTyped, toolVars
<1> QED BY <1>1, <1>2, <1>3, <1>4, <1>5 DEF ToolNext

\* The inductive invariant holds in every reachable state.
THEOREM ToolInvariant == ToolSpec => []TInv
<1>1. ToolInit => TInv
  BY InitTInv
<1>2. TInv /\ [ToolNext]_<<vars, toolVars>> => TInv'
  BY NextTInv
<1> QED BY <1>1, <1>2, PTL DEF ToolSpec

\* The tools' state keeps its type: a running tool is at a step of its
\* script, and the socket of one that has ended keeps nothing.
THEOREM ToolTypeCorrect == ToolSpec => []ToolTypeOK
<1>1. TInv => ToolTypeOK
  <2> SUFFICES ASSUME TInv PROVE ToolTypeOK
    OBVIOUS
  <2>1. \A i \in 1..Len(toEcu) : toEcu[i][1] \in Terminals /\ toEcu[i][2] \in Requests
    <3>1. \A i \in 1..Len(toEcu) : toEcu[i] \in Terminals \X Requests
      BY ElementOfSeq DEF TInv, EcuTyped
    <3> QED BY <3>1
  <2>2. serving \in Terminals \cup {Nobody} /\ (serving = Nobody <=> dpc = "pop")
    BY DEF TInv, EcuTyped
  <2>3. ASSUME NEW t \in Terminals
        PROVE  /\ tool[t].cmd \in Commands(t) \cup {NoCommand}
               /\ tool[t].status \in EXIT_OK..WAITING
               /\ Running(t) => tool[t].step \in 1..Len(Steps(tool[t]))
               /\ ~Running(t) => inbox[t] = <<>>
    BY DEF TInv, ToolsTyped, GoodInvocation, InvocationType, Live, Running
  <2>4. spent \in [DOMAIN Nothing -> Nat]
    BY DEF TInv, SpentTyped
  <2> QED BY <2>1, <2>2, <2>3, <2>4 DEF ToolTypeOK
<1> QED BY <1>1, ToolInvariant, PTL

\* What a step is to the ECU.
LEMMA EcuStep == TInv /\ [ToolNext]_<<vars, toolVars>> => [Next]_vars
<1> SUFFICES ASSUME TInv, [ToolNext]_<<vars, toolVars>> PROVE [Next]_vars
  OBVIOUS
<1>1. CASE EcuTakes
  <2>1. toEcu \in Seq(Terminals \X Requests) /\ toEcu # <<>>
    BY <1>1 DEF TInv, EcuTyped, EcuTakes
  <2>2. Head(toEcu) \in Terminals \X Requests
    BY ONLY <2>1, HeadTailProperties
  <2>3. Head(toEcu)[2] \in Requests /\ Pop(Head(toEcu)[2])
    BY <1>1, <2>2 DEF EcuTakes
  <2> QED BY <2>3 DEF Next
<1>2. CASE EcuHandles
  BY <1>2 DEF EcuHandles, Next
<1>3. CASE EcuAnswers
  BY <1>3 DEF EcuAnswers, Next, Handler
<1>4. CASE EcuTimer
  BY <1>4 DEF EcuTimer, Next
<1>5. CASE TimePasses
  BY <1>5 DEF TimePasses, Next
<1>6. CASE \E t \in Terminals : Tool(t) \/ \E k \in Commands(t) : Start(t, k)
  BY <1>6 DEF Tool, Send, SendFails, Receive, Timeout, Start
<1>7. CASE UNCHANGED <<vars, toolVars>>
  BY <1>7
<1> QED BY <1>1, <1>2, <1>3, <1>4, <1>5, <1>6, <1>7 DEF ToolNext, Ecu

\* The ECU with tools as its testers is the ECU of Vecu: every theorem about
\* Vecu holds of it.
THEOREM ToolsUseEcu == ToolSpec => Spec
<1>1. ToolInit => Init
  BY DEF ToolInit
<1>2. TInv /\ [ToolNext]_<<vars, toolVars>> => [Next]_vars
  BY EcuStep
<1> QED BY <1>1, <1>2, ToolInvariant, PTL DEF ToolSpec, Spec

-----------------------------------------------------------------------------
(***************************************************************************)
(* A tool alone with the ECU.  As long as no tool begins before the ECU is *)
(* done with its predecessor and no monitor reads, at most one request is  *)
(* on its way and it is the one its tool is at; what the ECU's state has   *)
(* to be for it is there unless S3 took it away, and the answer says so.   *)
(***************************************************************************)

Quiet == spent.overtakes = 0 /\ spent.rounds = 0

\* What a script may ask, apart from the seeds.
Asked(r) ==
    \/ r.sid = UDS_SID_DIAGNOSTIC_SESSION_CONTROL /\ r.len = 2 /\ r.sub = UDS_SESSION_EXTENDED
    \/ r.sid = UDS_SID_SECURITY_ACCESS /\ r.len = 2 /\ r.sub = 1
    \/ r.sid = UDS_SID_SECURITY_ACCESS /\ r.len = 6 /\ r.sub = 2
    \/ r.sid = UDS_SID_WRITE_DATA_BY_IDENTIFIER /\ r.did = "F200 owner"
    \/ r.sid = UDS_SID_READ_DATA_BY_IDENTIFIER /\ r.len = 3
    \/ r.sid \in {UDS_SID_READ_DTC, UDS_SID_CLEAR_DTC}

\* The ECU's answer to a request for a seed was `seed', and it still stands.
Granted(seed) ==
    IF seed = 0 THEN Unlocked /\ ~sec.seed_issued
                ELSE sec.seed_issued /\ sec.pending_seed = seed

\* What the ECU has to be like for a tool that got `seed' to ask r.
Pre(r, seed) ==
    /\ r.sid = UDS_SID_SECURITY_ACCESS => session = UDS_SESSION_EXTENDED
    /\ r.sid = UDS_SID_SECURITY_ACCESS /\ r.sub = 2 => Granted(seed) /\ r.key = KeyFor(seed)
    /\ r.sid = UDS_SID_WRITE_DATA_BY_IDENTIFIER => session = UDS_SESSION_EXTENDED /\ Unlocked

\* What it is like once r is handled, and what it answers.
Post(r, seed, nrc, given) ==
    /\ r.sid = UDS_SID_DIAGNOSTIC_SESSION_CONTROL =>
          nrc = NO_NRC /\ session = UDS_SESSION_EXTENDED
    /\ r.sid = UDS_SID_SECURITY_ACCESS => session = UDS_SESSION_EXTENDED
    /\ r.sid = UDS_SID_SECURITY_ACCESS /\ r.sub = 1 => nrc = NO_NRC /\ Granted(given)
    /\ r.sid = UDS_SID_SECURITY_ACCESS /\ r.sub = 2 /\ seed # 0 => nrc = NO_NRC /\ Unlocked
    /\ r.sid = UDS_SID_WRITE_DATA_BY_IDENTIFIER /\ r.len - 3 \in 1..32 => nrc = NO_NRC
    /\ r.sid = UDS_SID_READ_DATA_BY_IDENTIFIER /\ r.did = "F200 owner" => nrc = NO_NRC

\* The dispatcher between its request and its response.
Serving(r, seed) ==
    /\ dpc \notin {"pop", "reset_security"}
    /\ dpc = "security" => r.sid = UDS_SID_SECURITY_ACCESS
    /\ dpc \in {"write_security", "write_owner"} => r.sid = UDS_SID_WRITE_DATA_BY_IDENTIFIER
    /\ IF dpc = "respond" THEN Post(r, seed, resp.nrc, resp.seed) ELSE Pre(r, seed)

\* No key was wrong.
Calm == sec.fail_count = 0 /\ sec.lock_until_ms = 0

Idle == toEcu = <<>> /\ serving = Nobody

\* The message is the ECU's answer to r, positive or not.
Addressed(r, m) == m.sid = r.sid /\ m.sub = Sub(r) /\ m.did = r.did

\* Where the terminal's command is: ended, about to send, ...
Resting(t) == Idle /\ ~Live(tool[t]) /\ inbox[t] = <<>>

Ready(t) == /\ Idle /\ tool[t].status = SENDING /\ inbox[t] = <<>>
            /\ Pre(Current(tool[t]), tool[t].seed)

\* ... its request on its way or with the dispatcher, whether it still waits
\* for the answer or not, ...
Pending(t) == /\ tool[t].cmd \in Commands(t) /\ tool[t].cmd.verb # "monitor"
              /\ tool[t].status \in {WAITING, EXIT_TIMEOUT} /\ inbox[t] = <<>>
              /\ tool[t].step \in 1..Len(Steps(tool[t]))
              /\ Encodable(Current(tool[t]))

Sent(t) == /\ Pending(t) /\ toEcu = <<<<t, Current(tool[t])>>>> /\ serving = Nobody
           /\ Pre(Current(tool[t]), tool[t].seed)

Served(t) == /\ Pending(t) /\ toEcu = <<>> /\ serving = t
             /\ req = Current(tool[t])
             /\ Serving(Current(tool[t]), tool[t].seed)

\* ... or the answer there, if there is one.
Arrived(t) ==
    /\ Idle /\ tool[t].status = WAITING /\ tool[t].cmd.verb # "monitor"
    /\ \/ inbox[t] = <<>>
       \/ /\ Len(inbox[t]) = 1 /\ Addressed(Current(tool[t]), inbox[t][1])
          /\ Post(Current(tool[t]), tool[t].seed, inbox[t][1].nrc, inbox[t][1].seed)

Stage(t) == Resting(t) \/ Ready(t) \/ Sent(t) \/ Served(t) \/ Arrived(t)

\* A write of a legal name.
LegalWrite(v) == v.cmd.verb = "write-name" /\ v.cmd.len \in 1..32

Accepted(v) == LegalWrite(v) => v.status \notin {EXIT_NRC, EXIT_UNCAUGHT}

\* A monitor that has not read anything.
Unread(v) == v.cmd.verb = "monitor" => v.step = 1 /\ v.status # WAITING

Lone(w) ==
    /\ Calm
    /\ \A t \in Terminals : Unread(tool[t]) /\ Accepted(tool[t])
    /\ Stage(w)

\* What S3 leaves: no request is under way but the writer's.
Bare(w) ==
    /\ Calm
    /\ \A t \in Terminals : Unread(tool[t])
    /\ serving \in {w, Nobody}
    /\ \A i \in 1..Len(toEcu) : toEcu[i][1] = w

\* What the tools' requests and the answers to them depend on.
Seen == <<session, sec, dpc, resp, req>>

-----------------------------------------------------------------------------
(* The requests of the scripts. *)

\* The fields the handlers look at.
LEMMA RequestFields ==
    /\ Extended.sid = UDS_SID_DIAGNOSTIC_SESSION_CONTROL /\ Extended.len = 2
    /\ Extended.sub = UDS_SESSION_EXTENDED
    /\ RequestSeed.sid = UDS_SID_SECURITY_ACCESS /\ RequestSeed.len = 2 /\ RequestSeed.sub = 1
    /\ \A key : /\ SendKey(key).sid = UDS_SID_SECURITY_ACCESS /\ SendKey(key).len = 6
                /\ SendKey(key).sub = 2 /\ SendKey(key).key = key
    /\ \A k : /\ WriteName(k).sid = UDS_SID_WRITE_DATA_BY_IDENTIFIER
              /\ WriteName(k).len = 3 + k.len /\ WriteName(k).did = "F200 owner"
    /\ \A d : /\ Read(d).sid = UDS_SID_READ_DATA_BY_IDENTIFIER
              /\ Read(d).len = 3 /\ Read(d).did = d
    /\ \A sub, mask : ReadDtc(sub, mask).sid = UDS_SID_READ_DTC
    /\ \A all : ClearDtc(all).sid = UDS_SID_CLEAR_DTC
<1> DEFINE F == {"sid", "len", "sub", "did", "name", "key", "mask", "all"}
<1>1. NoRequest = [f \in F |-> NoRequest[f]]
  BY DEF NoRequest
<1>2. Blank = [f \in F |-> Blank[f]]
  <2>1. ASSUME NEW g, g = [f \in F |-> g[f]], NEW n
        PROVE  [g EXCEPT !.name = n] = [f \in F |-> [g EXCEPT !.name = n][f]]
    BY <2>1, Zenon
  <2> HIDE DEF F
  <2> QED BY <1>1, <2>1 DEF Blank
<1>3. ASSUME NEW sid, NEW sub
      PROVE  /\ Plain(sid, sub) = [f \in F |-> Plain(sid, sub)[f]]
             /\ Plain(sid, sub).sid = sid /\ Plain(sid, sub).len = 2 /\ Plain(sid, sub).sub = sub
  BY <1>2, Zenon DEF Plain
<1>4. /\ Extended.sid = UDS_SID_DIAGNOSTIC_SESSION_CONTROL /\ Extended.len = 2
      /\ Extended.sub = UDS_SESSION_EXTENDED
      /\ RequestSeed.sid = UDS_SID_SECURITY_ACCESS /\ RequestSeed.len = 2 /\ RequestSeed.sub = 1
  BY <1>3 DEF Extended, RequestSeed
<1>5. ASSUME NEW key
      PROVE  /\ SendKey(key).sid = UDS_SID_SECURITY_ACCESS /\ SendKey(key).len = 6
             /\ SendKey(key).sub = 2 /\ SendKey(key).key = key
  <2> DEFINE p == Plain(UDS_SID_SECURITY_ACCESS, 2)
  <2>1. p = [f \in F |-> p[f]] /\ p.sid = UDS_SID_SECURITY_ACCESS /\ p.sub = 2
    BY <1>3
  <2> HIDE DEF p
  <2>2. SendKey(key) = [p EXCEPT !.len = 6, !.key = key]
    BY DEF SendKey, p
  <2> QED BY <2>1, <2>2, Zenon
<1>6. ASSUME NEW k
      PROVE  /\ WriteName(k).sid = UDS_SID_WRITE_DATA_BY_IDENTIFIER
             /\ WriteName(k).len = 3 + k.len /\ WriteName(k).did = "F200 owner"
  BY <1>2, Zenon DEF WriteName, Write
<1>7. ASSUME NEW d
      PROVE  /\ Read(d).sid = UDS_SID_READ_DATA_BY_IDENTIFIER
             /\ Read(d).len = 3 /\ Read(d).did = d
  BY <1>2, Zenon DEF Read
<1>8. ASSUME NEW sub, NEW mask PROVE ReadDtc(sub, mask).sid = UDS_SID_READ_DTC
  BY <1>2, Zenon DEF ReadDtc
<1>9. ASSUME NEW all PROVE ClearDtc(all).sid = UDS_SID_CLEAR_DTC
  BY <1>2, Zenon DEF ClearDtc
<1> QED BY <1>4, <1>5, <1>6, <1>7, <1>8, <1>9

\* The services are different.
LEMMA Sids ==
    /\ UDS_SID_DIAGNOSTIC_SESSION_CONTROL \notin
          {UDS_SID_SECURITY_ACCESS, UDS_SID_WRITE_DATA_BY_IDENTIFIER, UDS_SID_CLEAR_DTC,
           UDS_SID_READ_DATA_BY_IDENTIFIER, UDS_SID_READ_DTC, UDS_SID_ECU_RESET}
    /\ UDS_SID_SECURITY_ACCESS \notin
          {UDS_SID_WRITE_DATA_BY_IDENTIFIER, UDS_SID_CLEAR_DTC, UDS_SID_READ_DATA_BY_IDENTIFIER,
           UDS_SID_READ_DTC, UDS_SID_ECU_RESET}
    /\ UDS_SID_WRITE_DATA_BY_IDENTIFIER \notin
          {UDS_SID_CLEAR_DTC, UDS_SID_READ_DATA_BY_IDENTIFIER, UDS_SID_READ_DTC,
           UDS_SID_ECU_RESET}
    /\ UDS_SID_READ_DATA_BY_IDENTIFIER \notin {UDS_SID_CLEAR_DTC, UDS_SID_READ_DTC}
BY DEF UDS_SID_DIAGNOSTIC_SESSION_CONTROL, UDS_SID_SECURITY_ACCESS,
       UDS_SID_WRITE_DATA_BY_IDENTIFIER, UDS_SID_CLEAR_DTC, UDS_SID_READ_DATA_BY_IDENTIFIER,
       UDS_SID_READ_DTC, UDS_SID_ECU_RESET

\* The scripts, spelled out.
LEMMA UnlockScript ==
    ASSUME NEW k, k.verb = "unlock", NEW seed
    PROVE  Script(k, seed) = <<Extended, RequestSeed, SendKey(KeyFor(seed))>>
BY DEF Script, cmd_unlock, security_algo, KeyFor

\* unlock_security_access sends no key for the seed 0 ...
LEMMA WriteUnlockedScript ==
    ASSUME NEW k, k.verb = "write-name"
    PROVE  Script(k, 0) = <<Extended, RequestSeed, WriteName(k), ReadOwner>>
<1>1. Script(k, 0) = <<Extended, RequestSeed>> \o <<>> \o <<WriteName(k), ReadOwner>>
  BY DEF Script, cmd_write_name, UnlockKey
<1> QED BY <1>1

\* ... and the key for any other.
LEMMA WriteLockedScript ==
    ASSUME NEW k, k.verb = "write-name", NEW seed, seed # 0
    PROVE  Script(k, seed)
              = <<Extended, RequestSeed, SendKey(KeyFor(seed)), WriteName(k), ReadOwner>>
<1>1. security_algo(seed) = KeyFor(seed)
  BY DEF security_algo, KeyFor
<1>2. Script(k, seed) = <<Extended, RequestSeed>> \o <<SendKey(KeyFor(seed))>>
                        \o <<WriteName(k), ReadOwner>>
  BY <1>1 DEF Script, cmd_write_name, UnlockKey
<1>3. ASSUME NEW a, NEW b, NEW c, NEW d, NEW e
      PROVE  <<a, b>> \o <<c>> \o <<d, e>> = <<a, b, c, d, e>>
  <2> DEFINE S == {a, b, c, d, e}
             x == <<a, b>>
             y == <<c>>
             z == <<d, e>>
             all == <<a, b, c, d, e>>
  <2>1. /\ x \in Seq(S) /\ Len(x) = 2 /\ x[1] = a /\ x[2] = b
        /\ y \in Seq(S) /\ Len(y) = 1 /\ y[1] = c
        /\ z \in Seq(S) /\ Len(z) = 2 /\ z[1] = d /\ z[2] = e
    OBVIOUS
  <2>2. /\ all \in Seq(S) /\ Len(all) = 5 /\ all[1] = a /\ all[2] = b /\ all[3] = c
        /\ all[4] = d /\ all[5] = e
    OBVIOUS
  <2> HIDE DEF S, x, y, z, all
  <2>3. /\ x \o y \in Seq(S) /\ Len(x \o y) = 3
        /\ (x \o y)[1] = a /\ (x \o y)[2] = b /\ (x \o y)[3] = c
    <3>1. /\ x \o y \in Seq(S) /\ Len(x \o y) = Len(x) + Len(y)
          /\ \A i \in 1..Len(x) + Len(y) :
                (x \o y)[i] = IF i <= Len(x) THEN x[i] ELSE y[i - Len(x)]
      BY <2>1, ConcatProperties
    <3>2. Len(x \o y) = 3 /\ \A i \in 1..3 : (x \o y)[i] = IF i <= 2 THEN x[i] ELSE y[i - 2]
      BY <2>1, <3>1
    <3> QED BY <2>1, <3>1, <3>2
  <2> DEFINE xy == x \o y
  <2> HIDE DEF xy
  <2>4. /\ xy \o z \in Seq(S) /\ Len(xy \o z) = 5
        /\ (xy \o z)[1] = a /\ (xy \o z)[2] = b /\ (xy \o z)[3] = c
        /\ (xy \o z)[4] = d /\ (xy \o z)[5] = e
    <3>0. xy \in Seq(S) /\ Len(xy) = 3 /\ xy[1] = a /\ xy[2] = b /\ xy[3] = c
      BY <2>3 DEF xy
    <3>1. /\ xy \o z \in Seq(S) /\ Len(xy \o z) = Len(xy) + Len(z)
          /\ \A i \in 1..Len(xy) + Len(z) :
                (xy \o z)[i] = IF i <= Len(xy) THEN xy[i] ELSE z[i - Len(xy)]
      BY <2>1, <3>0, ConcatProperties
    <3>2. Len(xy \o z) = 5 /\ \A i \in 1..5 : (xy \o z)[i] = IF i <= 3 THEN xy[i] ELSE z[i - 3]
      BY <2>1, <3>0, <3>1
    <3> QED BY <2>1, <3>0, <3>1, <3>2
  <2>5. \A i \in 1..5 : (xy \o z)[i] = all[i]
    <3>1. \A i \in 1..5 : i = 1 \/ i = 2 \/ i = 3 \/ i = 4 \/ i = 5
      OBVIOUS
    <3> QED BY ONLY <2>2, <2>4, <3>1, Zenon
  <2>6. xy \o z = all
    BY <2>2, <2>4, <2>5, SeqEqual
  <2> QED BY <2>6 DEF x, y, z, xy, all
<1> QED BY <1>2, <1>3

\* A command that makes one request.
Single(r) ==
    /\ r.sid \in {UDS_SID_READ_DATA_BY_IDENTIFIER, UDS_SID_READ_DTC, UDS_SID_CLEAR_DTC}
    /\ r.sid = UDS_SID_READ_DATA_BY_IDENTIFIER => r.len = 3

LEMMA SingleScript ==
    ASSUME NEW k, k.verb \in Verbs \ {"unlock", "write-name", "monitor"}
    PROVE  \E r : Single(r) /\ \A seed : Script(k, seed) = <<r>>
<1>1. k.verb \in {"read-vin", "read-serial", "read-dtc", "clear-dtc"}
  BY DEF Verbs
<1>2. CASE k.verb = "read-vin"
  <2>1. \A seed : Script(k, seed) = <<Read("F190 VIN")>>
    BY <1>2 DEF Script
  <2>2. Single(Read("F190 VIN"))
    BY RequestFields DEF Single
  <2> QED BY <2>1, <2>2
<1>3. CASE k.verb = "read-serial"
  <2>1. \A seed : Script(k, seed) = <<Read("F18C serial")>>
    BY <1>3 DEF Script
  <2>2. Single(Read("F18C serial"))
    BY RequestFields DEF Single
  <2> QED BY <2>1, <2>2
<1>4. CASE k.verb = "read-dtc"
  <2> DEFINE mask == {DTC_STATUS_TEST_FAILED, DTC_STATUS_CONFIRMED}
             r == ReadDtc(2, mask)
  <2>1. \A seed : Script(k, seed) = <<r>>
    BY <1>4 DEF Script
  <2> HIDE DEF mask
  <2>2. r.sid = UDS_SID_READ_DTC
    <3>1. \A sub, m : ReadDtc(sub, m).sid = UDS_SID_READ_DTC
      BY RequestFields, Zenon
    <3> QED BY ONLY <3>1, Zenon
  <2> HIDE DEF r
  <2>3. Single(r)
    BY <2>2, Sids DEF Single
  <2> QED BY <2>1, <2>3
<1>5. CASE k.verb = "clear-dtc"
  <2>1. \A seed : Script(k, seed) = <<ClearDtc(TRUE)>>
    BY <1>5 DEF Script
  <2>2. Single(ClearDtc(TRUE))
    BY RequestFields, Sids DEF Single
  <2> QED BY <2>1, <2>2
<1> QED BY <1>1, <1>2, <1>3, <1>4, <1>5

\* No command but the monitor asks anything that is not accounted for.
LEMMA ScriptAsks ==
    ASSUME NEW k, k.verb \in Verbs \ {"monitor"}, NEW seed, NEW i \in 1..Len(Script(k, seed))
    PROVE  Asked(Script(k, seed)[i])
<1>1. Asked(Extended) /\ Asked(RequestSeed) /\ Asked(WriteName(k)) /\ Asked(ReadOwner)
      /\ Asked(SendKey(KeyFor(seed)))
  BY RequestFields DEF Asked, ReadOwner
<1>2. CASE k.verb = "unlock"
  <2>1. Script(k, seed) = <<Extended, RequestSeed, SendKey(KeyFor(seed))>>
    BY <1>2, UnlockScript
  <2> QED BY <1>1, <2>1
<1>3. CASE k.verb = "write-name" /\ seed = 0
  <2>1. Script(k, seed) = <<Extended, RequestSeed, WriteName(k), ReadOwner>>
    BY <1>3, WriteUnlockedScript
  <2> QED BY <1>1, <2>1
<1>4. CASE k.verb = "write-name" /\ seed # 0
  <2>1. Script(k, seed) = <<Extended, RequestSeed, SendKey(KeyFor(seed)), WriteName(k), ReadOwner>>
    BY <1>4, WriteLockedScript
  <2> QED BY <1>1, <2>1
<1>5. CASE k.verb \in Verbs \ {"unlock", "write-name", "monitor"}
  <2>1. PICK q : Single(q) /\ \A z : Script(k, z) = <<q>>
    BY <1>5, SingleScript
  <2>2. Asked(q)
    BY <2>1 DEF Asked, Single
  <2>3. Script(k, seed) = <<q>>
    BY <2>1
  <2> QED BY <2>2, <2>3
<1> QED BY <1>2, <1>3, <1>4, <1>5

\* What the requests need.
LEMMA PreOf ==
    ASSUME NEW seed
    PROVE  /\ Pre(Extended, seed)
           /\ session = UDS_SESSION_EXTENDED => Pre(RequestSeed, seed)
           /\ session = UDS_SESSION_EXTENDED /\ Granted(seed) => Pre(SendKey(KeyFor(seed)), seed)
           /\ session = UDS_SESSION_EXTENDED /\ Unlocked => \A k : Pre(WriteName(k), seed)
           /\ \A d : Pre(Read(d), seed)
           /\ \A r : Single(r) => Pre(r, seed)
<1>0. Pre(Extended, seed)
  BY RequestFields, Sids DEF Pre
<1>1. session = UDS_SESSION_EXTENDED => Pre(RequestSeed, seed)
  <2>1. RequestSeed.sid # UDS_SID_WRITE_DATA_BY_IDENTIFIER
    BY RequestFields, Sids
  <2>2. RequestSeed.sub = 1
    BY RequestFields
  <2> QED BY <2>1, <2>2 DEF Pre
<1>2. session = UDS_SESSION_EXTENDED /\ Granted(seed) => Pre(SendKey(KeyFor(seed)), seed)
  BY RequestFields, Sids DEF Pre
<1>3. session = UDS_SESSION_EXTENDED /\ Unlocked => \A k : Pre(WriteName(k), seed)
  BY RequestFields, Sids DEF Pre
<1>4. \A d : Pre(Read(d), seed)
  BY RequestFields, Sids DEF Pre
<1>5. \A r : Single(r) => Pre(r, seed)
  BY Sids DEF Pre, Single
<1> QED BY <1>0, <1>1, <1>2, <1>3, <1>4, <1>5

\* What is known after a positive answer.
LEMMA PostOf ==
    ASSUME NEW seed, NEW given
    PROVE  /\ Post(Extended, seed, NO_NRC, given) => session = UDS_SESSION_EXTENDED
           /\ Post(RequestSeed, seed, NO_NRC, given) =>
                 session = UDS_SESSION_EXTENDED /\ Granted(given)
           /\ Post(SendKey(KeyFor(seed)), seed, NO_NRC, given) /\ seed # 0 =>
                 session = UDS_SESSION_EXTENDED /\ Unlocked
BY RequestFields DEF Post

\* The requests are different.
LEMMA NotTheSeed ==
    ASSUME NEW k, NEW key
    PROVE  RequestSeed \notin {Extended, SendKey(key), WriteName(k), ReadOwner}
<1>1. RequestSeed.sid # Extended.sid
  BY RequestFields, Sids
<1>2. RequestSeed.sid # WriteName(k).sid
  BY RequestFields, Sids
<1>3. RequestSeed.sid # ReadOwner.sid
  BY RequestFields, Sids DEF ReadOwner
<1>4. RequestSeed.sub = 1 /\ SendKey(key).sub = 2
  BY RequestFields
<1>5. RequestSeed # SendKey(key)
  BY <1>4
<1> QED BY <1>1, <1>2, <1>3, <1>5

\* A command's first request needs nothing.
LEMMA FirstPre ==
    ASSUME NEW k, k.verb \in Verbs, NEW seed
    PROVE  Pre(Script(k, seed)[1], seed)
<1>1. CASE k.verb = "unlock"
  <2>1. Script(k, seed)[1] = Extended
    BY <1>1, UnlockScript
  <2> QED BY <2>1, PreOf
<1>2. CASE k.verb = "write-name"
  <2>1. Script(k, seed)[1] = Extended
    BY <1>2, WriteUnlockedScript, WriteLockedScript
  <2> QED BY <2>1, PreOf
<1>3. CASE k.verb = "monitor"
  <2>1. Script(k, seed)[1] = Read("010C rpm")
    BY <1>3 DEF Script, cmd_monitor
  <2> QED BY <2>1, PreOf
<1>4. CASE k.verb \in Verbs \ {"unlock", "write-name", "monitor"}
  <2>1. PICK q : Single(q) /\ \A z : Script(k, z) = <<q>>
    BY <1>4, SingleScript
  <2>2. Script(k, seed)[1] = q
    BY <2>1
  <2> QED BY <2>1, <2>2, PreOf
<1> QED BY <1>1, <1>2, <1>3, <1>4

\* After a positive answer the ECU is ready for the next request.
LEMMA NextPre ==
    ASSUME NEW k, k.verb \in Verbs \ {"monitor"}, NEW seed, NEW given, NEW next,
           NEW i \in 1..Len(Script(k, seed)), i < Len(Script(k, next)),
           next = IF Script(k, seed)[i] = RequestSeed THEN given ELSE seed,
           Post(Script(k, seed)[i], seed, NO_NRC, given)
    PROVE  Pre(Script(k, next)[i + 1], next)
<1>1. CASE k.verb \in Verbs \ {"unlock", "write-name", "monitor"}
  <2>1. PICK q : Single(q) /\ \A z : Script(k, z) = <<q>>
    BY <1>1, SingleScript
  <2>2. Script(k, next) = <<q>> /\ Script(k, seed) = <<q>>
    BY <2>1
  <2>3. Len(Script(k, next)) = 1 /\ Len(Script(k, seed)) = 1
    BY <2>2
  <2> QED BY <2>3
<1>2. CASE k.verb = "unlock"
  <2>1. Script(k, seed) = <<Extended, RequestSeed, SendKey(KeyFor(seed))>>
    BY <1>2, UnlockScript
  <2>2. Script(k, next) = <<Extended, RequestSeed, SendKey(KeyFor(next))>>
    BY <1>2, UnlockScript
  <2>3. i = 1 \/ i = 2
    <3>1. Len(Script(k, next)) = 3
      BY <2>2
    <3>2. Len(Script(k, seed)) = 3
      BY <2>1
    <3>3. i \in 1..Len(Script(k, seed)) /\ i < Len(Script(k, next))
      OBVIOUS
    <3> QED BY ONLY <3>1, <3>2, <3>3
  <2>4. CASE i = 1
    <3>1. Script(k, seed)[i] = Extended /\ Script(k, next)[i + 1] = RequestSeed
      BY <2>1, <2>2, <2>4
    <3> QED BY <3>1, PreOf, PostOf
  <2>5. CASE i = 2
    <3>1. Script(k, seed)[i] = RequestSeed /\ Script(k, next)[i + 1] = SendKey(KeyFor(next))
      BY <2>1, <2>2, <2>5
    <3>2. session = UDS_SESSION_EXTENDED /\ Granted(next)
      BY <3>1, PostOf
    <3> QED BY <3>1, <3>2, PreOf
  <2> QED BY <2>3, <2>4, <2>5
<1>3. CASE k.verb = "write-name"
  <2>1. seed = 0 => Script(k, seed) = <<Extended, RequestSeed, WriteName(k), ReadOwner>>
    BY <1>3, WriteUnlockedScript
  <2>2. seed # 0 => Script(k, seed) = <<Extended, RequestSeed, SendKey(KeyFor(seed)),
                                        WriteName(k), ReadOwner>>
    BY <1>3, WriteLockedScript
  <2>3. next = 0 => Script(k, next) = <<Extended, RequestSeed, WriteName(k), ReadOwner>>
    BY <1>3, WriteUnlockedScript
  <2>4. next # 0 => Script(k, next) = <<Extended, RequestSeed, SendKey(KeyFor(next)),
                                        WriteName(k), ReadOwner>>
    BY <1>3, WriteLockedScript
  <2>5. CASE i = 1
    <3>1. Script(k, seed)[i] = Extended /\ Script(k, next)[i + 1] = RequestSeed
      BY <2>1, <2>2, <2>3, <2>4, <2>5
    <3> QED BY <3>1, PreOf, PostOf
  <2>6. CASE i = 2
    <3>1. Script(k, seed)[i] = RequestSeed
      BY <2>1, <2>2, <2>6
    <3>2. session = UDS_SESSION_EXTENDED /\ Granted(next)
      BY <3>1, PostOf
    <3>3. CASE next = 0
      <4>1. Script(k, next)[i + 1] = WriteName(k)
        BY <2>3, <2>6, <3>3
      <4>2. Unlocked
        BY <3>2, <3>3 DEF Granted
      <4> QED BY <3>2, <4>1, <4>2, PreOf
    <3>4. CASE next # 0
      <4>1. Script(k, next)[i + 1] = SendKey(KeyFor(next))
        BY <2>4, <2>6, <3>4
      <4> QED BY <3>2, <4>1, PreOf
    <3> QED BY <3>3, <3>4
  <2>7. CASE i = 3 /\ seed # 0
    <3>1. Script(k, seed)[i] = SendKey(KeyFor(seed))
      BY <2>2, <2>7
    <3>2. next = seed
      BY <3>1, NotTheSeed
    <3>3. session = UDS_SESSION_EXTENDED /\ Unlocked
      BY <2>7, <3>1, PostOf
    <3>4. Script(k, next)[i + 1] = WriteName(k)
      BY <2>4, <2>7, <3>2
    <3> QED BY <3>3, <3>4, PreOf
  <2>8. CASE i = 3 /\ seed = 0
    <3>1. Script(k, seed)[i] = WriteName(k)
      BY <2>1, <2>8
    <3>2. next = seed
      BY <3>1, NotTheSeed
    <3>3. Script(k, next)[i + 1] = ReadOwner
      BY <2>3, <2>8, <3>2
    <3> QED BY <3>3, PreOf DEF ReadOwner
  <2>9. CASE i = 4 /\ seed # 0
    <3>1. Script(k, seed)[i] = WriteName(k)
      BY <2>2, <2>9
    <3>2. next = seed
      BY <3>1, NotTheSeed
    <3>3. Script(k, next)[i + 1] = ReadOwner
      BY <2>4, <2>9, <3>2
    <3> QED BY <3>3, PreOf DEF ReadOwner
  <2>10. CASE i = 4 /\ seed = 0
    <3>1. Script(k, seed)[i] = ReadOwner
      BY <2>1, <2>10
    <3>2. next = seed
      BY <3>1, NotTheSeed
    <3>3. Len(Script(k, next)) = 4
      BY <2>3, <2>10, <3>2
    <3> QED BY <2>10, <3>3
  <2>11. CASE i = 5
    <3>1. CASE next = 0
      <4>1. Len(Script(k, next)) = 4
        BY <2>3, <3>1
      <4> QED BY <2>11, <4>1
    <3>2. CASE next # 0
      <4>1. Len(Script(k, next)) = 5
        BY <2>4, <3>2
      <4> QED BY <2>11, <4>1
    <3> QED BY <3>1, <3>2
  <2>12. i \in 1..5
    BY <2>1, <2>2
  <2> QED BY <2>5, <2>6, <2>7, <2>8, <2>9, <2>10, <2>11, <2>12
<1> QED BY <1>1, <1>2, <1>3

\* Every request of a write of a legal name can be encoded and is answered
\* positively.
LEMMA LegalAnswers ==
    ASSUME NEW k, k.verb = "write-name", k.len \in 1..32, NEW seed,
           NEW i \in 1..Len(Script(k, seed))
    PROVE  /\ Encodable(Script(k, seed)[i])
           /\ \A nrc, given : Post(Script(k, seed)[i], seed, nrc, given) => nrc = NO_NRC
<1> DEFINE Good(r) == /\ Encodable(r)
                      /\ \A nrc, given : Post(r, seed, nrc, given) => nrc = NO_NRC
<1>1. Good(Extended) /\ Good(RequestSeed) /\ Good(ReadOwner)
  BY RequestFields, Sids DEF Encodable, Post, ReadOwner
<1>2. seed # 0 => Good(SendKey(KeyFor(seed)))
  BY RequestFields, Sids DEF Encodable, Post
<1>3. Good(WriteName(k))
  <2>1. ASSUME NEW n \in 1..32 PROVE (3 + n) - 3 \in 1..32 /\ (3 + n) - 3 <= 32
    BY <2>1
  <2>2. WriteName(k).len - 3 \in 1..32 /\ WriteName(k).len - 3 <= 32
    BY <2>1, RequestFields
  <2> QED BY <2>2, RequestFields DEF Encodable, Post
<1> HIDE DEF Good
<1>4. CASE seed = 0
  <2>1. Script(k, seed) = <<Extended, RequestSeed, WriteName(k), ReadOwner>>
    BY <1>4, WriteUnlockedScript
  <2>2. Good(Script(k, seed)[i])
    BY <1>1, <1>3, <2>1
  <2> QED BY <2>2 DEF Good
<1>5. CASE seed # 0
  <2>1. Script(k, seed) = <<Extended, RequestSeed, SendKey(KeyFor(seed)), WriteName(k), ReadOwner>>
    BY <1>5, WriteLockedScript
  <2>2. Good(Script(k, seed)[i])
    BY <1>1, <1>2, <1>3, <1>5, <2>1
  <2> QED BY <2>2 DEF Good
<1> QED BY <1>4, <1>5

-----------------------------------------------------------------------------
(* The dispatcher serves what the scripts ask. *)

\* requestSeed in an ECU that is not locked out: the ECU grants what it gives.
LEMMA SeedGranted ==
    ASSUME NEW s \in SecurityState, s.fail_count = 0, s.lock_until_ms = 0,
           NEW t, NEW raw \in Entropy
    PROVE  LET out == security_request_seed(s, 1, t, raw)
           IN  /\ out.rc # FAILED
               /\ out.st.fail_count = 0 /\ out.st.lock_until_ms = 0
               /\ IF out.seed = 0 THEN out.st.unlocked_level >= 1 /\ ~out.st.seed_issued
                                  ELSE out.st.seed_issued /\ out.st.pending_seed = out.seed
<1> DEFINE out == security_request_seed(s, 1, t, raw)
<1>1. CASE s.unlocked_level >= 1
  <2>1. /\ out.st = [s EXCEPT !.seed_issued = FALSE] /\ out.seed = 0
        /\ out.rc = ALREADY_UNLOCKED
    BY <1>1 DEF security_request_seed, level_supported
  <2> HIDE DEF out
  <2>2. /\ out.st.fail_count = 0 /\ out.st.lock_until_ms = 0 /\ ~out.st.seed_issued
        /\ out.st.unlocked_level >= 1
    BY <1>1, <2>1 DEF SecurityState
  <2> QED BY <2>1, <2>2 DEF out, ALREADY_UNLOCKED, FAILED
<1>2. CASE ~(s.unlocked_level >= 1)
  <2>1. ~LockedOut(s, t) /\ ExpireLockOut(s) = s
    BY DEF LockedOut, ExpireLockOut
  <2>2. /\ out.st = [s EXCEPT !.pending_seed = FreshSeed(raw), !.seed_issued = TRUE]
        /\ out.seed = FreshSeed(raw) /\ out.rc = OK
    BY <1>2, <2>1 DEF security_request_seed, level_supported
  <2>3. FreshSeed(raw) # 0
    BY SecurityAssumption DEF FreshSeed
  <2> HIDE DEF out
  <2>4. /\ out.st.fail_count = s.fail_count /\ out.st.lock_until_ms = s.lock_until_ms
        /\ out.st.seed_issued /\ out.st.pending_seed = FreshSeed(raw)
    BY <2>2, Zenon DEF SecurityState
  <2> QED BY <2>2, <2>3, <2>4 DEF out, OK, FAILED
<1> QED BY <1>1, <1>2

\* sendKey with the right key on a usable seed, or on none.
LEMMA KeyAccepted ==
    ASSUME NEW s \in SecurityState, s.fail_count = 0, s.lock_until_ms = 0, NEW t, NEW key,
           s.seed_issued => key = KeyFor(s.pending_seed)
    PROVE  LET out == security_send_key(s, 1, key, t)
           IN  /\ out.st.fail_count = 0 /\ out.st.lock_until_ms = 0
               /\ s.seed_issued => out.rc # FAILED /\ out.st.unlocked_level >= 1
<1> DEFINE out == security_send_key(s, 1, key, t)
<1>1. CASE ~s.seed_issued
  <2>1. out.st = s
    BY <1>1 DEF security_send_key, level_supported, Refused
  <2> QED BY <1>1, <2>1
<1>2. CASE s.seed_issued
  <2>1. ~LockedOut(s, t)
    BY DEF LockedOut
  <2>2. /\ out.st = [[s EXCEPT !.seed_issued = FALSE] EXCEPT !.unlocked_level = 1, !.fail_count = 0]
        /\ out.rc = OK
    BY <1>2, <2>1 DEF security_send_key, level_supported
  <2> HIDE DEF out
  <2>3. out.st.fail_count = 0 /\ out.st.lock_until_ms = s.lock_until_ms /\ out.st.unlocked_level = 1
    BY <2>2, Zenon DEF SecurityState
  <2> QED BY <2>2, <2>3 DEF out, OK, FAILED
<1> QED BY <1>1, <1>2

\* Services that read or clear leave access alone.
LEMMA ReadsServed ==
    ASSUME VInv, Calm, NEW seed, Asked(req), Serving(req, seed),
           h_read_dtc \/ h_read_did \/ h_clear_dtc
    PROVE  Calm' /\ req' = req /\ Serving(req, seed)'
<1>1. dpc' = "respond" /\ req' = req /\ session' = session /\ sec' = sec /\ now' = now
  BY DEF h_read_dtc, h_read_did, h_clear_dtc, Return, ecuVars
<1>2. req.sid \in {UDS_SID_READ_DATA_BY_IDENTIFIER, UDS_SID_READ_DTC, UDS_SID_CLEAR_DTC}
  BY DEF h_read_dtc, h_read_did, h_clear_dtc, Handling
<1>3. req.sid = UDS_SID_READ_DATA_BY_IDENTIFIER /\ req.did = "F200 owner" => resp'.nrc = NO_NRC
  <2> SUFFICES ASSUME req.sid = UDS_SID_READ_DATA_BY_IDENTIFIER, req.did = "F200 owner"
               PROVE  resp'.nrc = NO_NRC
    OBVIOUS
  <2>1. resp' = ReadDidResponse(req)
    BY Sids DEF h_read_dtc, h_read_did, h_clear_dtc, Handling, Return
  <2>2. req.len = 3
    BY Sids DEF Asked
  <2>3. owner.len \in 1..OWNER_NAME_CAP
    BY DEF VInv, TypeOK
  <2>4. did_payload_len(req.did, owner) = owner.len /\ did_known(req.did)
    BY DEF did_payload_len, did_known, DIDs
  <2>5. ~(RESP_CAP < 3 + owner.len)
    <3>1. RESP_CAP \in Nat /\ OWNER_NAME_CAP \in Nat /\ RESP_CAP >= 3 + OWNER_NAME_CAP
      BY VecuAssumption, VecuDataAssumption, SizesAssumption
    <3> QED BY ONLY <2>3, <3>1
  <2> DEFINE n == 3 + owner.len
  <2>6. ReadDidResponse(req) = Positive(n)
    BY <2>2, <2>4, <2>5 DEF ReadDidResponse
  <2> HIDE DEF n
  <2>7. Positive(n).nrc = NO_NRC
    BY DEF Positive
  <2> QED BY <2>1, <2>6, <2>7
<1>4. Post(req, seed, resp.nrc, resp.seed)'
  BY <1>1, <1>2, <1>3, Sids DEF Post
<1> QED BY <1>1, <1>4 DEF Calm, Serving

\* 0x10 03 brings the ECU into the extended session.
LEMMA SessionServed ==
    ASSUME VInv, Calm, NEW seed, Asked(req), Serving(req, seed), h_session_control
    PROVE  Calm' /\ req' = req /\ Serving(req, seed)'
<1>1. req.sid = UDS_SID_DIAGNOSTIC_SESSION_CONTROL
  BY DEF h_session_control, Handling
<1>2. req.len = 2 /\ req.sub = UDS_SESSION_EXTENDED
  BY <1>1, Sids DEF Asked
<1>3. Sub(req) = UDS_SESSION_EXTENDED
  BY <1>2 DEF Sub, UDS_SESSION_EXTENDED
<1>4. Sub(req) \in Sessions /\ ~(RESP_CAP < 6)
  BY <1>3, VecuAssumption DEF Sessions
<1>5. session' = UDS_SESSION_EXTENDED /\ Return(PositiveSub(req, 6, 0))
  BY <1>2, <1>3, <1>4 DEF h_session_control, vecu_set_session
<1>6. dpc' = "respond" /\ req' = req /\ sec' = sec /\ now' = now /\ resp'.nrc = NO_NRC
  BY <1>5 DEF h_session_control, Return, PositiveSub
<1>7. Post(req, seed, resp.nrc, resp.seed)'
  BY <1>1, <1>5, <1>6, Sids DEF Post
<1> QED BY <1>6, <1>7 DEF Calm, Serving

\* 0x27 in the extended session.
LEMMA AccessServed ==
    ASSUME VInv, Calm, NEW seed \in GivenSeeds, Asked(req), Serving(req, seed),
           \/ h_security_access
           \/ \E raw \in Entropy : h_request_seed(raw)
           \/ h_send_key
    PROVE  Calm' /\ req' = req /\ Serving(req, seed)'
<1>1. req.sid = UDS_SID_SECURITY_ACCESS /\ dpc \notin {"respond", "pop"}
  BY DEF h_security_access, h_request_seed, h_send_key, Handling, Serving
<1>2. (req.len = 2 /\ req.sub = 1) \/ (req.len = 6 /\ req.sub = 2)
  BY <1>1, Sids DEF Asked
<1>3. Pre(req, seed) /\ session = UDS_SESSION_EXTENDED
  BY <1>1 DEF Serving, Pre
<1>4. IsRequestSeed(req) <=> req.sub = 1
  BY <1>2 DEF IsRequestSeed, Sub
<1>5. Level(req) = 1
  BY <1>2, <1>4 DEF Level, Sub
<1>6. sec \in SecurityState
  BY DEF VInv, TypeOK
<1>7. CASE h_security_access
  <2>1. SecurityAccessNrc(req) = NO_NRC
    <3>1. is_extended_session
      BY <1>3 DEF is_extended_session
    <3> QED BY <1>2, <1>4, <3>1 DEF SecurityAccessNrc
  <2>2. dpc' = "security" /\ req' = req /\ session' = session /\ sec' = sec /\ now' = now
    BY <1>7, <2>1 DEF h_security_access, GoTo, ecuVars
  <2>3. Pre(req, seed)'
    BY <1>3, <2>2 DEF Pre, Granted, Unlocked
  <2> QED BY <1>1, <2>2, <2>3 DEF Calm, Serving
<1>8. ASSUME NEW raw \in Entropy, h_request_seed(raw)
      PROVE  Calm' /\ req' = req /\ Serving(req, seed)'
  <2> DEFINE out == security_request_seed(sec, 1, now, raw)
  <2>1. /\ out.rc # FAILED /\ out.st.fail_count = 0 /\ out.st.lock_until_ms = 0
        /\ IF out.seed = 0 THEN out.st.unlocked_level >= 1 /\ ~out.st.seed_issued
                           ELSE out.st.seed_issued /\ out.st.pending_seed = out.seed
    BY <1>6, SeedGranted DEF Calm
  <2>2. sec' = out.st /\ Return(SecurityResponse(req, out, 6)) /\ req.sub = 1
    BY <1>4, <1>5, <1>8 DEF h_request_seed
  <2> HIDE DEF out
  <2>3. /\ dpc' = "respond" /\ req' = req /\ session' = session /\ now' = now
        /\ resp'.nrc = NO_NRC /\ resp'.seed = out.seed
    BY <1>8, <2>1, <2>2 DEF h_request_seed, Return, SecurityResponse, PositiveSub
  <2>4. Granted(resp.seed)'
    BY <2>1, <2>2, <2>3 DEF Granted, Unlocked, security_is_unlocked
  <2>5. Post(req, seed, resp.nrc, resp.seed)'
    BY <1>1, <1>3, <2>2, <2>3, <2>4, Sids DEF Post
  <2> QED BY <2>1, <2>2, <2>3, <2>5 DEF Calm, Serving
<1>9. CASE h_send_key
  <2>1. req.sub = 2 /\ Granted(seed) /\ req.key = KeyFor(seed)
    BY <1>1, <1>2, <1>3, <1>4, <1>9 DEF Pre, h_send_key
  <2> DEFINE out == security_send_key(sec, 1, req.key, now)
  <2>2. sec.seed_issued => req.key = KeyFor(sec.pending_seed)
    BY <2>1 DEF Granted
  <2>3. seed # 0 => sec.seed_issued
    BY <2>1 DEF Granted
  <2>4. /\ out.st.fail_count = 0 /\ out.st.lock_until_ms = 0
        /\ sec.seed_issued => out.rc # FAILED /\ out.st.unlocked_level >= 1
    BY <1>6, <2>2, KeyAccepted DEF Calm
  <2>5. sec' = out.st /\ Return(SecurityResponse(req, out, 2))
    BY <1>5, <1>9 DEF h_send_key
  <2> HIDE DEF out
  <2>6. dpc' = "respond" /\ req' = req /\ session' = session /\ now' = now
    BY <1>9, <2>5 DEF h_send_key, Return
  <2>7. seed # 0 => resp'.nrc = NO_NRC /\ Unlocked'
    BY <2>3, <2>4, <2>5 DEF Return, SecurityResponse, PositiveSub, Unlocked, security_is_unlocked
  <2>8. Post(req, seed, resp.nrc, resp.seed)'
    <3>1. req'.sub # 1 /\ req'.sid = UDS_SID_SECURITY_ACCESS /\ session' = UDS_SESSION_EXTENDED
      BY <1>1, <1>3, <2>1, <2>6
    <3> QED BY <2>7, <3>1, Sids DEF Post
  <2> QED BY <2>4, <2>5, <2>6, <2>8 DEF Calm, Serving
<1> QED BY <1>7, <1>8, <1>9

\* 0x2E of the owner in the extended session of an unlocked ECU.
LEMMA WriteServed ==
    ASSUME VInv, Calm, NEW seed, Asked(req), Serving(req, seed),
           h_write_did \/ h_write_did_security \/ h_write_did_owner
    PROVE  Calm' /\ req' = req /\ Serving(req, seed)'
<1>1. req.sid = UDS_SID_WRITE_DATA_BY_IDENTIFIER /\ dpc \notin {"respond", "pop"}
  BY DEF h_write_did, h_write_did_security, h_write_did_owner, Handling, Serving
<1>2. req.did = "F200 owner" /\ req.len \in Nat
  BY <1>1, Sids, VecuAssumption DEF Asked, VInv, TypeOK
<1>3. Pre(req, seed) /\ session = UDS_SESSION_EXTENDED /\ Unlocked
  BY <1>1 DEF Serving, Pre
<1>4. /\ did_known(req.did) /\ did_table[req.did].write
      /\ did_table[req.did].requires_extended_session
  BY <1>2 DEF did_known, did_table, DIDs
<1>5. is_extended_session /\ security_is_unlocked(sec, 1)
  BY <1>3 DEF is_extended_session, Unlocked
<1>6. req' = req /\ session' = session /\ sec' = sec /\ now' = now
  BY DEF h_write_did, h_write_did_security, h_write_did_owner, Return, GoTo, ecuVars
<1>7. Pre(req, seed)'
  BY <1>3, <1>6 DEF Pre, Granted, Unlocked
<1>8. ASSUME dpc' = "respond", req.len - 3 \in 1..32 => resp'.nrc = NO_NRC
      PROVE  Post(req, seed, resp.nrc, resp.seed)'
  BY <1>1, <1>6, <1>8, Sids DEF Post
<1>9. \/ dpc' \in {"write_security", "write_owner"}
      \/ dpc' = "respond" /\ (req.len - 3 \in 1..32 => resp'.nrc = NO_NRC)
  <2>1. CASE h_write_did
    <3>1. req.len - 3 \in 1..32 => WriteDidNrc(req) = NO_NRC
      <4>1. req.len - 3 \in 1..32 => ~(req.len < 4)
        <5>1. ASSUME NEW n \in Nat, n - 3 \in 1..32 PROVE ~(n < 4)
          BY <5>1
        <5> QED BY <1>2, <5>1
      <4> QED BY <1>4, <1>5, <4>1 DEF WriteDidNrc
    <3>2. CASE WriteDidNrc(req) = NO_NRC
      BY <2>1, <3>2 DEF h_write_did, GoTo
    <3>3. CASE WriteDidNrc(req) # NO_NRC
      BY <2>1, <3>1, <3>3 DEF h_write_did, Return
    <3> QED BY <3>2, <3>3
  <2>2. CASE h_write_did_security
    BY <1>5, <2>2 DEF h_write_did_security, GoTo
  <2>3. CASE h_write_did_owner
    <3>1. req.len - 3 \in 1..32 => owner_write_ok(req.len - 3)
      <4>1. OWNER_NAME_CAP \in Nat /\ OWNER_NAME_CAP >= 32
        BY VecuDataAssumption, SizesAssumption
      <4>2. ASSUME NEW n \in 1..32 PROVE owner_write_ok(n)
        BY <4>1, <4>2 DEF owner_write_ok
      <4> QED BY <4>2
    <3>2. CASE owner_write_ok(req.len - 3)
      BY <2>3, <3>2 DEF h_write_did_owner, Return, Positive
    <3>3. CASE ~owner_write_ok(req.len - 3)
      BY <2>3, <3>1, <3>3 DEF h_write_did_owner, Return
    <3> QED BY <3>2, <3>3
  <2> QED BY <2>1, <2>2, <2>3
<1> QED BY <1>1, <1>6, <1>7, <1>8, <1>9 DEF Calm, Serving

\* A step of the dispatcher.
LEMMA ServeStep ==
    ASSUME VInv, Calm, NEW seed \in GivenSeeds, Asked(req), Serving(req, seed), Handler,
           dpc # "respond"
    PROVE  Calm' /\ req' = req /\ Serving(req, seed)'
<1>1. ~h_ecu_reset /\ ~h_tester_present /\ ~service_not_supported
  BY DEF h_ecu_reset, h_tester_present, service_not_supported, Handling, Asked, DISPATCH,
     UDS_SID_DIAGNOSTIC_SESSION_CONTROL, UDS_SID_SECURITY_ACCESS,
     UDS_SID_WRITE_DATA_BY_IDENTIFIER, UDS_SID_CLEAR_DTC, UDS_SID_READ_DATA_BY_IDENTIFIER,
     UDS_SID_READ_DTC, UDS_SID_ECU_RESET, UDS_SID_TESTER_PRESENT
<1>2. ~h_ecu_reset_security /\ ~Respond
  BY DEF h_ecu_reset_security, Respond, Serving
<1>3. \/ h_read_dtc \/ h_read_did \/ h_clear_dtc
      \/ h_session_control
      \/ h_security_access \/ (\E raw \in Entropy : h_request_seed(raw)) \/ h_send_key
      \/ h_write_did \/ h_write_did_security \/ h_write_did_owner
  BY <1>1, <1>2 DEF Handler
<1> QED BY <1>3, ReadsServed, SessionServed, AccessServed, WriteServed

-----------------------------------------------------------------------------
(* What a quiet step is. *)

\* A quiet state is reached from a quiet state by a quiet event.
LEMMA QuietSpend ==
    ASSUME SpentTyped, NEW u \in [DOMAIN Nothing -> Nat], Spend(u), Quiet'
    PROVE  Quiet /\ u["overtakes"] = 0 /\ u["rounds"] = 0
<1>1. spent' = [f \in DOMAIN Nothing |-> spent[f] + u[f]]
  BY DEF Spend, SpentTyped
<1>2. "overtakes" \in DOMAIN Nothing /\ "rounds" \in DOMAIN Nothing
  BY DEF Nothing
<1> HIDE DEF Nothing
<1>3. \A f \in DOMAIN Nothing : spent[f] \in Nat /\ u[f] \in Nat
  BY DEF SpentTyped
<1>4. ASSUME NEW f \in DOMAIN Nothing, spent'[f] = 0 PROVE spent[f] = 0 /\ u[f] = 0
  <2>1. spent[f] + u[f] = 0
    BY <1>1, <1>4
  <2> QED BY <1>3, <2>1
<1> QED BY <1>2, <1>4 DEF Quiet

\* What the events count.
LEMMA EventFields ==
    ASSUME NEW a, NEW b, NEW c
    PROVE  /\ Once("losses")["losses"] = 1 /\ Once("ticks")["ticks"] = 1
           /\ [Once("commands") EXCEPT !.losses = a, !.overtakes = b]["losses"] = a
           /\ [Once("commands") EXCEPT !.losses = a, !.overtakes = b]["overtakes"] = b
           /\ [Nothing EXCEPT !.losses = a, !.rounds = b, !.overtakes = c]["losses"] = a
           /\ [Nothing EXCEPT !.losses = a, !.rounds = b, !.overtakes = c]["rounds"] = b
           /\ {"losses", "ticks", "overtakes", "rounds"} \subseteq DOMAIN Nothing \ {"commands"}
<1>1. DOMAIN Nothing = {"commands", "losses", "overtakes", "rounds", "ticks"}
  BY DEF Nothing
<1>2. Nothing = [f \in DOMAIN Nothing |-> 0]
  BY DEF Nothing
<1>3. "losses" \in DOMAIN Nothing /\ "ticks" \in DOMAIN Nothing /\ "commands" \in DOMAIN Nothing
      /\ "overtakes" \in DOMAIN Nothing /\ "rounds" \in DOMAIN Nothing
  BY <1>1
<1>4. {"losses", "ticks", "overtakes", "rounds"} \subseteq DOMAIN Nothing \ {"commands"}
  BY <1>1
<1> HIDE DEF Nothing
<1>5. ASSUME NEW f \in DOMAIN Nothing
      PROVE  Once(f) = [g \in DOMAIN Nothing |-> IF g = f THEN 1 ELSE 0]
  BY <1>2, Zenon DEF Once
<1>6. Once("losses")["losses"] = 1 /\ Once("ticks")["ticks"] = 1
  BY <1>3, <1>5
<1> DEFINE o == Once("commands")
<1>7. o = [g \in DOMAIN Nothing |-> o[g]]
  BY <1>3, <1>5
<1> HIDE DEF o
<1>8. /\ [o EXCEPT !.losses = a, !.overtakes = b]["losses"] = a
      /\ [o EXCEPT !.losses = a, !.overtakes = b]["overtakes"] = b
  BY <1>3, <1>7, Zenon
<1>9. /\ [Nothing EXCEPT !.losses = a, !.rounds = b, !.overtakes = c]["losses"] = a
      /\ [Nothing EXCEPT !.losses = a, !.rounds = b, !.overtakes = c]["rounds"] = b
  BY <1>2, <1>3, Zenon
<1> QED BY <1>4, <1>6, <1>8, <1>9 DEF o

\* A tool's step leaves the ECU alone.
LEMMA SeenKept ==
    ASSUME UNCHANGED vars
    PROVE  UNCHANGED Seen
BY DEF vars, ecuVars, dispVars, Seen

\* The ECU's state is the same for a tool.
LEMMA PrePostKept ==
    ASSUME UNCHANGED Seen, NEW r, NEW seed, NEW nrc, NEW given
    PROVE  /\ Pre(r, seed) => Pre(r, seed)'
           /\ Post(r, seed, nrc, given) => Post(r, seed, nrc, given)'
           /\ Serving(r, seed) => Serving(r, seed)'
           /\ Calm => Calm'
<1>1. session' = session /\ sec' = sec /\ dpc' = dpc /\ resp' = resp
  BY DEF Seen
<1>2. Pre(r, seed) => Pre(r, seed)'
  BY <1>1 DEF Pre, Granted, Unlocked
<1>3. Post(r, seed, nrc, given) => Post(r, seed, nrc, given)'
  BY <1>1 DEF Post, Granted, Unlocked
<1>4. Post(r, seed, resp.nrc, resp.seed) => Post(r, seed, resp.nrc, resp.seed)'
  BY <1>1 DEF Post, Granted, Unlocked
<1>5. Serving(r, seed) => Serving(r, seed)'
  BY <1>1, <1>2, <1>4 DEF Serving
<1> QED BY <1>1, <1>2, <1>3, <1>5 DEF Calm

\* Another terminal's step, or one of the clock.
LEMMA StageKept ==
    ASSUME NEW w, Stage(w), UNCHANGED <<Seen, toEcu, serving>>, tool'[w] = tool[w],
           inbox'[w] = inbox[w]
    PROVE  Stage(w)'
<1>1. PICK v : v = tool[w]
  OBVIOUS
<1>2. PICK r : r = Current(v)
  OBVIOUS
<1>3. PICK m : m = inbox[w][1]
  OBVIOUS
<1>4. req' = req
  BY DEF Seen
<1>a. tool[w] = v /\ tool'[w] = v /\ inbox'[w] = inbox[w] /\ Current(v) = r /\ inbox[w][1] = m
      /\ toEcu' = toEcu /\ serving' = serving
  BY <1>1, <1>2, <1>3
<1>5. CASE Resting(w)
  <2>1. Resting(w)'
    BY <1>5, <1>a DEF Resting, Idle
  <2> QED BY <2>1 DEF Stage
<1>6. CASE Ready(w)
  <2>1. Pre(r, v.seed)'
    BY <1>6, <1>a, PrePostKept DEF Ready
  <2>2. Ready(w)'
    BY <1>6, <1>a, <2>1 DEF Ready, Idle
  <2> QED BY <2>2 DEF Stage
<1>7. CASE Sent(w)
  <2>1. Pre(r, v.seed)'
    BY <1>7, <1>a, PrePostKept DEF Sent
  <2>2. Sent(w)'
    BY <1>7, <1>a, <2>1 DEF Sent, Pending
  <2> QED BY <2>2 DEF Stage
<1>8. CASE Served(w)
  <2>1. Serving(r, v.seed)'
    BY <1>8, <1>a, PrePostKept DEF Served
  <2>2. Served(w)'
    BY <1>4, <1>8, <1>a, <2>1 DEF Served, Pending
  <2> QED BY <2>2 DEF Stage
<1>9. CASE Arrived(w)
  <2>1. inbox[w] = <<>> \/ Post(r, v.seed, m.nrc, m.seed)'
    BY <1>9, <1>a, PrePostKept DEF Arrived
  <2>2. Arrived(w)'
    BY <1>9, <1>a, <2>1 DEF Arrived, Idle
  <2> QED BY <2>2 DEF Stage
<1> QED BY <1>5, <1>6, <1>7, <1>8, <1>9 DEF Stage

-----------------------------------------------------------------------------
(* The tools' steps in a quiet state. *)

\* An invocation's change, seen from all terminals.
LEMMA BecomesLone ==
    ASSUME ToolsTyped, NEW t \in Terminals, NEW v, NEW queue, Becomes(t, v, queue),
           Unread(v), Accepted(v), \A u \in Terminals : Unread(tool[u]) /\ Accepted(tool[u])
    PROVE  /\ \A u \in Terminals : Unread(tool[u])' /\ Accepted(tool[u])'
           /\ tool'[t] = v /\ inbox'[t] = Kept(v, queue)
           /\ \A u \in Terminals \ {t} : tool'[u] = tool[u] /\ inbox'[u] = inbox[u]
<1>1. tool'[t] = v /\ inbox'[t] = Kept(v, queue)
  BY DEF Becomes, ToolsTyped
<1>2. \A u \in Terminals \ {t} : tool'[u] = tool[u] /\ inbox'[u] = inbox[u]
  BY DEF Becomes, ToolsTyped
<1>3. ASSUME NEW u \in Terminals PROVE Unread(tool[u])' /\ Accepted(tool[u])'
  <2>1. CASE u = t
    BY <1>1, <2>1 DEF Unread, Accepted, LegalWrite
  <2>2. CASE u # t
    BY <1>2, <2>2 DEF Unread, Accepted, LegalWrite
  <2> QED BY <2>1, <2>2
<1> QED BY <1>1, <1>2, <1>3

\* Only the writer's commands can be refused.
LEMMA OthersAccepted ==
    ASSUME NEW w \in Terminals, OnlyWriter(w), TInv, NEW u \in Terminals \ {w}
    PROVE  Accepted(tool[u])
<1>1. tool[u].cmd \in Commands(u) \cup {NoCommand}
  BY DEF TInv, ToolsTyped, GoodInvocation, InvocationType
<1>2. NoCommand.verb = "none"
  BY DEF NoCommand
<1> QED BY <1>1, <1>2 DEF OnlyWriter, Accepted, LegalWrite

\* A new process in the writer's terminal, whatever S3 did to the last one,
\* or in another: the ECU is done with what came from there.
LEMMA StartLone ==
    ASSUME NEW w \in Terminals, OnlyWriter(w), TInv, Bare(w), Quiet',
           NEW t \in Terminals, NEW k \in Commands(t), Start(t, k), t = w \/ Lone(w)
    PROVE  Lone(w)'
<1>1. PICK failed \in {0, 1} :
         /\ Becomes(t, Invocation(k, IF failed = 1 THEN EXIT_IO ELSE SENDING), <<>>)
         /\ Spend([Once("commands") EXCEPT !.losses = failed,
                                            !.overtakes = IF Behind(t) THEN 1 ELSE 0])
  BY DEF Start
<1>2. ~Behind(t)
  <2> DEFINE o == IF Behind(t) THEN 1 ELSE 0
             u == [Once("commands") EXCEPT !.losses = failed, !.overtakes = o]
  <2>1. o \in {0, 1}
    OBVIOUS
  <2>2. Spend(u)
    BY <1>1
  <2> HIDE DEF o
  <2>3. u \in [DOMAIN Nothing -> Nat] /\ u["overtakes"] = o
    BY <2>1, EventTypes, EventFields
  <2> HIDE DEF u
  <2>4. u["overtakes"] = 0
    BY <2>2, <2>3, QuietSpend DEF TInv
  <2> QED BY <2>3, <2>4 DEF o
<1> DEFINE status == IF failed = 1 THEN EXIT_IO ELSE SENDING
           v == Invocation(k, status)
<1>3. Becomes(t, v, <<>>) /\ status \in {EXIT_IO, SENDING}
  BY <1>1
<1>4. v.cmd = k /\ v.step = 1 /\ v.status = status /\ v.seed = 0
  BY DEF Invocation
<1> HIDE DEF v, status
<1>5. Unread(v) /\ Accepted(v)
  BY <1>3, <1>4 DEF Unread, Accepted, SENDING, WAITING, EXIT_IO, EXIT_NRC, EXIT_UNCAUGHT
<1>a. tool'[t] = v /\ inbox'[t] = Kept(v, <<>>)
  BY <1>3 DEF Becomes, TInv, ToolsTyped
<1>b. \A u \in Terminals \ {t} : tool'[u] = tool[u] /\ inbox'[u] = inbox[u]
  BY <1>3 DEF Becomes, TInv, ToolsTyped
<1>6. ASSUME NEW u \in Terminals PROVE Unread(tool[u])' /\ Accepted(tool[u])'
  <2>1. CASE u = t
    BY <1>5, <1>a, <2>1 DEF Unread, Accepted, LegalWrite
  <2>2. CASE u # t
    <3>1. Unread(tool[u]) /\ Accepted(tool[u])
      BY <2>2, OthersAccepted DEF Bare, Lone
    <3> QED BY <1>b, <2>2, <3>1 DEF Unread, Accepted, LegalWrite
  <2> QED BY <2>1, <2>2
<1>7. UNCHANGED <<vars, toEcu, serving>>
  BY DEF Start
<1>8. Stage(w)'
  <2>1. CASE t # w
    BY <1>7, <1>b, <2>1, SeenKept, StageKept DEF Lone
  <2>2. CASE t = w
    <3>1. Idle
      <4>1. toEcu \in Seq(Terminals \X Requests) /\ Len(toEcu) \in Nat
        BY DEF TInv, EcuTyped
      <4>2. \A i \in 1..Len(toEcu) : FALSE
        BY <1>2, <2>2 DEF Bare, Behind
      <4>3. Len(toEcu) = 0
        <5>1. ASSUME NEW n \in Nat, \A i \in 1..n : FALSE PROVE n = 0
          <6>1. n # 0 => 1 \in 1..n
            OBVIOUS
          <6> QED BY <5>1, <6>1
        <5> QED BY <4>1, <4>2, <5>1
      <4>4. toEcu = <<>>
        BY <4>1, <4>3, EmptySeq
      <4>5. serving = Nobody
        BY <1>2, <2>2 DEF Bare, Behind
      <4> QED BY <4>4, <4>5 DEF Idle
    <3>2. Current(v) = Script(k, 0)[1] /\ Pre(Current(v), v.seed)
      <4>1. Current(v) = Script(k, 0)[1]
        BY <1>4 DEF Current, Steps
      <4>2. k.verb \in Verbs
        BY CommandsAssumption
      <4> QED BY <1>4, <4>1, <4>2, FirstPre
    <3>3. PICK r : r = Current(v)
      OBVIOUS
    <3>4. Pre(r, v.seed)'
      BY <1>7, <3>2, <3>3, SeenKept, PrePostKept
    <3>5. inbox'[w] = <<>> /\ Idle'
      BY <1>7, <1>a, <2>2, <3>1 DEF Kept, Idle
    <3>6. CASE status = SENDING
      <4>1. Pre(Current(tool[w]), tool[w].seed)'
        BY <1>a, <2>2, <3>3, <3>4 DEF Pre, Granted, Unlocked
      <4>2. Ready(w)'
        BY <1>4, <1>a, <2>2, <3>5, <3>6, <4>1 DEF Ready
      <4> QED BY <4>2 DEF Stage
    <3>7. CASE status = EXIT_IO
      <4>1. Resting(w)'
        BY <1>4, <1>a, <2>2, <3>5, <3>7 DEF Resting, Live, EXIT_IO, SENDING, WAITING
      <4> QED BY <4>1 DEF Stage
    <3> QED BY <1>3, <3>6, <3>7
  <2> QED BY <2>1, <2>2
<1>9. Calm'
  BY <1>7, SeenKept, PrePostKept DEF Bare
<1> QED BY <1>6, <1>8, <1>9 DEF Lone

\* Only the writer's tool gets beyond its start, and it is not a monitor.
LEMMA OnlyWriterMoves ==
    ASSUME NEW w \in Terminals, OnlyWriter(w), TInv, NEW t \in Terminals, Unread(tool[t]),
           Live(tool[t]), t # w \/ tool[t].cmd.verb = "monitor"
    PROVE  /\ tool[t].cmd.verb = "monitor" /\ tool[t].step = 1 /\ tool[t].status = SENDING
           /\ Encodable(Current(tool[t]))
<1>1. tool[t].cmd \in Commands(t)
  BY DEF TInv, ToolsTyped, GoodInvocation
<1>2. tool[t].cmd.verb = "monitor"
  BY <1>1 DEF OnlyWriter
<1>3. tool[t].step = 1 /\ tool[t].status = SENDING
  BY <1>2 DEF Unread, Live
<1>4. Current(tool[t]) = Read("010C rpm")
  BY <1>2, <1>3 DEF Current, Steps, Script, cmd_monitor
<1>5. Encodable(Current(tool[t]))
  <2>1. Read("010C rpm").sid # UDS_SID_WRITE_DATA_BY_IDENTIFIER
    BY RequestFields, Sids
  <2> QED BY <1>4, <2>1, Zenon DEF Encodable
<1> QED BY <1>2, <1>3, <1>5

\* In a quiet state only the writer sends.
LEMMA OnlyWriterSends ==
    ASSUME NEW w \in Terminals, OnlyWriter(w), TInv, NEW t \in Terminals, Unread(tool[t]),
           Send(t), Quiet'
    PROVE  /\ t = w /\ tool[t].cmd.verb # "monitor"
           /\ toEcu' = toEcu \/ toEcu' = Append(toEcu, <<t, Current(tool[t])>>)
<1>0. tool[t].status = SENDING /\ Live(tool[t]) /\ Encodable(Current(tool[t]))
  BY DEF Send, Live
<1>1. PICK lost \in {0, 1} :
         /\ toEcu' = IF lost = 1 THEN toEcu ELSE Append(toEcu, <<t, Current(tool[t])>>)
         /\ LET round == IF tool[t].cmd.verb = "monitor" /\ tool[t].step = 1 THEN 1 ELSE 0
            IN  Spend([Nothing EXCEPT !.losses = lost, !.rounds = round,
                                      !.overtakes = IF Behind(t) THEN round ELSE 0])
  BY DEF Send
<1>2. ~(tool[t].cmd.verb = "monitor" /\ tool[t].step = 1)
  <2> DEFINE b == IF tool[t].cmd.verb = "monitor" /\ tool[t].step = 1 THEN 1 ELSE 0
             c == IF Behind(t) THEN b ELSE 0
             u == [Nothing EXCEPT !.losses = lost, !.rounds = b, !.overtakes = c]
  <2>1. b \in {0, 1} /\ c \in {0, 1}
    OBVIOUS
  <2>2. Spend(u)
    BY <1>1
  <2> HIDE DEF b, c
  <2>3. u \in [DOMAIN Nothing -> Nat]
    BY <2>1, EventTypes
  <2>5. u["rounds"] = b
    BY EventFields, Zenon
  <2> HIDE DEF u
  <2>4. u["rounds"] = 0
    BY <2>2, <2>3, QuietSpend DEF TInv
  <2> QED BY <2>4, <2>5 DEF b
<1>3. t = w /\ tool[t].cmd.verb # "monitor"
  BY <1>0, <1>2, OnlyWriterMoves
<1> QED BY <1>1, <1>3

\* The writer's request goes out, or is lost.
LEMMA SendLone ==
    ASSUME NEW w \in Terminals, OnlyWriter(w), TInv, Lone(w), Quiet',
           NEW t \in Terminals, Send(t)
    PROVE  Lone(w)'
<1>0. tool[t].status = SENDING /\ Live(tool[t]) /\ Encodable(Current(tool[t]))
  BY DEF Send, Live
<1>3. t = w /\ tool[t].cmd.verb # "monitor"
  BY OnlyWriterSends DEF Lone
<1>4. PICK v : v = tool[w]
  OBVIOUS
<1>5. GoodInvocation(w, v) /\ Live(v) /\ v.status = SENDING /\ v.cmd.verb # "monitor"
  BY <1>0, <1>3, <1>4 DEF TInv, ToolsTyped
<1>6. Ready(w)
  BY <1>3, <1>4, <1>5 DEF Lone, Stage, Resting, Sent, Served, Pending, Arrived,
     SENDING, WAITING, EXIT_TIMEOUT
<1> DEFINE x == [v EXCEPT !.status = WAITING]
<1>7. PICK i \in 1..(Len(inbox[w]) + 1) : Becomes(w, x, SubSeq(inbox[w], i, Len(inbox[w])))
  BY <1>3, <1>4 DEF Send
<1>8. SubSeq(inbox[w], i, Len(inbox[w])) = <<>>
  <2>1. inbox[w] = <<>>
    BY <1>6 DEF Ready
  <2> QED BY <2>1
<1>9. /\ x.cmd = v.cmd /\ x.step = v.step /\ x.seed = v.seed /\ x.status = WAITING
      /\ Current(x) = Current(v) /\ Steps(x) = Steps(v)
  <2>1. x.cmd = v.cmd /\ x.step = v.step /\ x.seed = v.seed /\ x.status = WAITING
    BY <1>5 DEF GoodInvocation, InvocationType
  <2> HIDE DEF x
  <2> QED BY <2>1 DEF Current, Steps
<1> HIDE DEF x
<1>10. Unread(x) /\ Accepted(x)
  BY <1>5, <1>9 DEF Unread, Accepted, WAITING, EXIT_NRC, EXIT_UNCAUGHT
<1>11. /\ \A u \in Terminals : Unread(tool[u])' /\ Accepted(tool[u])'
       /\ tool'[w] = x /\ inbox'[w] = Kept(x, <<>>)
  BY <1>7, <1>8, <1>10, BecomesLone DEF TInv, Lone
<1>12. PICK r : r = Current(v)
  OBVIOUS
<1>13. /\ toEcu' = <<>> \/ toEcu' = <<<<w, r>>>>
       /\ serving' = Nobody /\ inbox'[w] = <<>>
  <2>1. toEcu = <<>> /\ serving = Nobody
    BY <1>6 DEF Ready, Idle
  <2>2. toEcu' = <<>> \/ toEcu' = Append(<<>>, <<w, r>>)
    BY <1>3, <1>4, <1>12, <2>1, OnlyWriterSends DEF Lone
  <2>4. serving' = serving
    BY DEF Send
  <2>3. inbox'[w] = <<>>
    BY <1>11 DEF Kept
  <2> QED BY <2>1, <2>2, <2>3, <2>4
<1>14. Pre(r, v.seed)' /\ Calm'
  <2>1. UNCHANGED vars
    BY DEF Send
  <2>2. Pre(r, v.seed) /\ Calm
    BY <1>4, <1>6, <1>12 DEF Ready, Lone
  <2> QED BY <2>1, <2>2, SeenKept, PrePostKept
<1>15. CASE toEcu' = <<<<w, r>>>>
  <2>1. /\ x.cmd \in Commands(w) /\ x.cmd.verb # "monitor" /\ x.step \in 1..Len(Steps(x))
        /\ Encodable(Current(x)) /\ Current(x) = r
    BY <1>0, <1>3, <1>4, <1>5, <1>9, <1>12 DEF GoodInvocation
  <2>2. Pending(w)'
    BY <1>9, <1>11, <1>13, <2>1 DEF Pending
  <2>3. Pre(Current(tool[w]), tool[w].seed)'
    BY <1>9, <1>11, <1>14, <2>1 DEF Pre, Granted, Unlocked
  <2>4. Sent(w)'
    BY <1>11, <1>13, <1>15, <2>1, <2>2, <2>3 DEF Sent
  <2> QED BY <1>11, <1>14, <2>4 DEF Lone, Stage
<1>16. CASE toEcu' = <<>>
  <2>1. Arrived(w)'
    BY <1>5, <1>9, <1>11, <1>13, <1>16 DEF Arrived, Idle
  <2> QED BY <1>11, <1>14, <2>1 DEF Lone, Stage
<1> QED BY <1>13, <1>15, <1>16

\* The invocation ends, and leaves nothing behind.
LEMMA EndsLone ==
    ASSUME NEW w \in Terminals, TInv, Lone(w), Idle, UNCHANGED <<vars, toEcu, serving>>,
           tool[w].cmd.verb # "monitor", NEW code \in EXIT_OK..EXIT_IO,
           NEW v, v.cmd = tool[w].cmd, v.status = code, NEW queue, Becomes(w, v, queue),
           LegalWrite(tool[w]) => code \notin {EXIT_NRC, EXIT_UNCAUGHT}
    PROVE  Lone(w)'
<1>1. Unread(v) /\ Accepted(v) /\ ~Live(v)
  BY DEF Unread, Accepted, LegalWrite, Live, EXIT_OK, EXIT_IO, SENDING, WAITING
<1>2. /\ \A u \in Terminals : Unread(tool[u])' /\ Accepted(tool[u])'
      /\ tool'[w] = v /\ inbox'[w] = Kept(v, queue)
  BY <1>1, BecomesLone DEF TInv, Lone
<1>3. Resting(w)'
  <2>1. inbox'[w] = <<>>
    BY <1>1, <1>2 DEF Kept, Live
  <2>2. ~Live(tool'[w])
    BY <1>1, <1>2
  <2> QED BY <2>1, <2>2 DEF Resting, Idle, Live
<1>4. Calm'
  BY SeenKept, PrePostKept DEF Lone
<1> QED BY <1>2, <1>3, <1>4 DEF Lone, Stage

\* An error of any command but the monitor ends it.
LEMMA FailsEnds ==
    ASSUME NEW t \in Terminals, NEW v, GoodInvocation(t, v), v.cmd.verb # "monitor", NEW code
    PROVE  /\ Fails(v, code).cmd = v.cmd /\ Fails(v, code).status = code
           /\ Fails(v, code).step = v.step /\ Fails(v, code).seed = v.seed
<1>1. Fails(v, code) = [v EXCEPT !.status = code]
  BY DEF Fails
<1> QED BY <1>1 DEF GoodInvocation, InvocationType

\* A monitor that has not read anything starts its first round again.
LEMMA MonitorFails ==
    ASSUME TInv, NEW t \in Terminals, NEW code, tool[t].cmd.verb = "monitor", tool[t].step = 1,
           tool[t].status = SENDING, Becomes(t, Fails(tool[t], code), inbox[t])
    PROVE  tool' = tool /\ inbox' = inbox
<1>1. PICK v : v = tool[t]
  OBVIOUS
<1>2. v \in InvocationType(t) /\ v.step = 1 /\ v.status = SENDING
  BY <1>1 DEF TInv, ToolsTyped, GoodInvocation
<1>3. Fails(v, code) = v
  <2>1. Fails(v, code) = [v EXCEPT !.step = 1, !.status = SENDING]
    BY <1>1 DEF Fails
  <2>2. [v EXCEPT !.step = 1, !.status = SENDING] = v
    BY <1>2 DEF InvocationType
  <2> QED BY <2>1, <2>2
<1>4. Kept(v, inbox[t]) = inbox[t]
  BY <1>2 DEF Kept
<1>5. tool' = [tool EXCEPT ![t] = tool[t]] /\ inbox' = [inbox EXCEPT ![t] = inbox[t]]
  BY <1>1, <1>3, <1>4 DEF Becomes
<1>6. tool = [u \in Terminals |-> tool[u]] /\ inbox = [u \in Terminals |-> inbox[u]]
  BY DEF TInv, ToolsTyped
<1> QED BY ONLY <1>5, <1>6, Zenon

\* The tools' part of the invariant where only the ECU moves, if anything.
LEMMA ToolsKept ==
    ASSUME NEW w, Lone(w), UNCHANGED tool
    PROVE  \A t \in Terminals : Unread(tool[t])' /\ Accepted(tool[t])'
BY DEF Lone, Unread, Accepted, LegalWrite

\* Neither the tools nor what they depend on has changed.
LEMMA LoneKept ==
    ASSUME NEW w \in Terminals, Lone(w), UNCHANGED <<Seen, toEcu, serving, tool, inbox>>
    PROVE  Lone(w)'
<1>1. Stage(w)'
  BY StageKept DEF Lone
<1>2. Calm'
  BY PrePostKept DEF Lone
<1> QED BY <1>1, <1>2, ToolsKept DEF Lone

\* The socket refuses a request, or a name cannot be encoded.
LEMMA SendFailsLone ==
    ASSUME NEW w \in Terminals, OnlyWriter(w), TInv, Lone(w),
           NEW t \in Terminals, SendFails(t)
    PROVE  Lone(w)'
<1>1. Live(tool[t]) /\ tool[t].status = SENDING
  BY DEF SendFails, Live
<1>2. PICK code \in {EXIT_IO, EXIT_UNCAUGHT} :
         /\ Becomes(t, Fails(tool[t], code), inbox[t])
         /\ code = EXIT_UNCAUGHT => ~Encodable(Current(tool[t]))
  BY DEF SendFails, EXIT_IO, EXIT_UNCAUGHT
<1>3. UNCHANGED <<vars, toEcu, serving>>
  BY DEF SendFails
<1>4. CASE t # w \/ tool[t].cmd.verb = "monitor"
  <2>1. tool[t].cmd.verb = "monitor" /\ tool[t].step = 1
    BY <1>1, <1>4, OnlyWriterMoves DEF Lone
  <2>2. tool' = tool /\ inbox' = inbox
    BY <1>1, <1>2, <2>1, MonitorFails
  <2> QED BY <1>3, <2>2, SeenKept, LoneKept
<1>5. CASE t = w /\ tool[t].cmd.verb # "monitor"
  <2>1. GoodInvocation(w, tool[w])
    BY DEF TInv, ToolsTyped
  <2>2. Idle
    BY <1>1, <1>5 DEF Lone, Stage, Resting, Ready, Sent, Served, Pending, Arrived, Live,
       SENDING, WAITING, EXIT_TIMEOUT
  <2>3. LegalWrite(tool[w]) => code \notin {EXIT_NRC, EXIT_UNCAUGHT}
    <3>1. tool[w].step \in 1..Len(Script(tool[w].cmd, tool[w].seed))
      BY <1>1, <1>5, <2>1 DEF GoodInvocation, Steps
    <3>2. Current(tool[w]) = Script(tool[w].cmd, tool[w].seed)[tool[w].step]
      BY DEF Current, Steps
    <3>3. LegalWrite(tool[w]) => Encodable(Current(tool[w]))
      BY <3>1, <3>2, LegalAnswers DEF LegalWrite
    <3> QED BY <1>2, <1>5, <3>3 DEF EXIT_IO, EXIT_NRC, EXIT_UNCAUGHT
  <2>4. PICK v : v = Fails(tool[w], code)
    OBVIOUS
  <2>5. v.cmd = tool[w].cmd /\ v.status = code
    BY <1>5, <2>1, <2>4, FailsEnds
  <2>6. PICK queue : queue = inbox[w]
    OBVIOUS
  <2>7. Becomes(w, v, queue) /\ code \in EXIT_OK..EXIT_IO
    BY <1>2, <1>5, <2>4, <2>6 DEF EXIT_OK, EXIT_IO, EXIT_UNCAUGHT
  <2> QED BY <1>3, <1>5, <2>2, <2>3, <2>5, <2>7, EndsLone
<1> QED BY <1>4, <1>5

\* The answer the writer's tool finds is the one it waits for.
LEMMA ReceiveLone ==
    ASSUME NEW w \in Terminals, OnlyWriter(w), TInv, Lone(w),
           NEW t \in Terminals, Receive(t)
    PROVE  Lone(w)'
<1>1. tool[t].status = WAITING /\ Live(tool[t]) /\ inbox[t] # <<>>
  BY DEF Receive, Live
<1>2. t = w /\ tool[t].cmd.verb # "monitor"
  BY <1>1, OnlyWriterMoves DEF Lone, SENDING, WAITING
<1>3. PICK v : v = tool[w]
  OBVIOUS
<1>4. PICK m : m = Head(inbox[w])
  OBVIOUS
<1>5. PICK rest : rest = Tail(inbox[w])
  OBVIOUS
<1>6. Arrived(w)
  BY <1>1, <1>2 DEF Lone, Stage, Resting, Ready, Sent, Served, Pending, Live, SENDING, WAITING
<1>7. /\ Len(inbox[w]) = 1 /\ m = inbox[w][1] /\ rest = <<>>
      /\ Addressed(Current(v), m) /\ Post(Current(v), v.seed, m.nrc, m.seed)
  <2>1. inbox[w] \in Seq(Mail) /\ inbox[w] # <<>>
    BY <1>1, <1>2 DEF TInv, ToolsTyped
  <2>2. Len(inbox[w]) = 1 /\ Addressed(Current(v), inbox[w][1])
        /\ Post(Current(v), v.seed, inbox[w][1].nrc, inbox[w][1].seed)
    BY <1>1, <1>2, <1>3, <1>6 DEF Arrived
  <2>3. m = inbox[w][1] /\ rest \in Seq(Mail) /\ Len(rest) = Len(inbox[w]) - 1
    BY ONLY <1>4, <1>5, <2>1, HeadTailProperties
  <2>4. Len(rest) = 0
    BY ONLY <2>2, <2>3
  <2>5. rest = <<>>
    BY <2>3, <2>4, EmptySeq
  <2> QED BY <2>2, <2>3, <2>5
<1>8. m \in Mail
  <2>1. inbox[w] \in Seq(Mail) /\ inbox[w] # <<>>
    BY <1>1, <1>2 DEF TInv, ToolsTyped
  <2> QED BY ONLY <1>4, <2>1, HeadTailProperties
<1>9. /\ GoodInvocation(w, v) /\ v.cmd \in Commands(w) /\ v.step \in 1..Len(Steps(v))
      /\ v.cmd.verb \in Verbs \ {"monitor"}
  BY <1>1, <1>2, <1>3, CommandsAssumption DEF TInv, ToolsTyped, GoodInvocation
<1>10. UNCHANGED <<vars, toEcu, serving>> /\ Idle
  BY <1>6 DEF Receive, Arrived
<1>11. \/ m.nrc = NO_NRC /\ \E u \in Answered(v, m) : Becomes(w, u, rest)
       \/ /\ m.nrc # NO_NRC
          /\ \E code \in {EXIT_NRC, EXIT_UNCAUGHT} : Becomes(w, Fails(v, code), rest)
  <2>1. Answers(Current(v), m) <=> m.nrc = NO_NRC
    BY <1>7 DEF Answers, Addressed
  <2>2. Refuses(v, m) => m.nrc # NO_NRC
    BY DEF Refuses
  <2> QED BY <1>2, <1>3, <1>4, <1>5, <2>1, <2>2 DEF Receive
<1>12. ASSUME m.nrc # NO_NRC, NEW code \in {EXIT_NRC, EXIT_UNCAUGHT},
              Becomes(w, Fails(v, code), rest)
       PROVE  Lone(w)'
  <2>1. ~LegalWrite(v)
    <3>1. Current(v) = Script(v.cmd, v.seed)[v.step] /\ v.step \in 1..Len(Script(v.cmd, v.seed))
      BY <1>9 DEF Current, Steps
    <3> QED BY <1>7, <1>12, <3>1, LegalAnswers DEF LegalWrite
  <2>2. Fails(v, code).cmd = v.cmd /\ Fails(v, code).status = code
    BY <1>9, FailsEnds
  <2>3. PICK u : u = Fails(v, code)
    OBVIOUS
  <2>4. code \in EXIT_OK..EXIT_IO
    BY DEF EXIT_OK, EXIT_IO, EXIT_NRC, EXIT_UNCAUGHT
  <2> QED BY <1>2, <1>3, <1>10, <1>12, <2>1, <2>2, <2>3, <2>4, EndsLone
<1>13. ASSUME m.nrc = NO_NRC, NEW u \in Answered(v, m), Becomes(w, u, rest) PROVE Lone(w)'
  <2> DEFINE x == [v EXCEPT !.seed = IF Current(v) = RequestSeed THEN m.seed ELSE @,
                            !.confirmed = IF Current(v) = ReadOwner THEN m.name ELSE @]
  <2>1. /\ x \in InvocationType(w) /\ x.cmd = v.cmd /\ x.step = v.step
        /\ x.seed = IF Current(v) = RequestSeed THEN m.seed ELSE v.seed
    BY <1>8, <1>9 DEF GoodInvocation, InvocationType, Mail
  <2>2. \/ v.step < Len(Steps(x)) /\ u = [x EXCEPT !.step = @ + 1, !.status = SENDING]
        \/ u = [x EXCEPT !.status = EXIT_OK]
    BY <1>9 DEF Answered
  <2> HIDE DEF x
  <2>3. CASE u = [x EXCEPT !.status = EXIT_OK]
    <3>1. u.cmd = v.cmd /\ u.status = EXIT_OK
      BY <2>1, <2>3 DEF InvocationType
    <3>2. EXIT_OK \notin {EXIT_NRC, EXIT_UNCAUGHT} /\ EXIT_OK \in EXIT_OK..EXIT_IO
      BY DEF EXIT_OK, EXIT_IO, EXIT_NRC, EXIT_UNCAUGHT
    <3> QED BY <1>2, <1>3, <1>10, <1>13, <3>1, <3>2, EndsLone
  <2>4. CASE v.step < Len(Steps(x)) /\ u = [x EXCEPT !.step = @ + 1, !.status = SENDING]
    <3> DEFINE i == v.step + 1
    <3>1. u = Moved(x, i, SENDING)
      BY <2>1, <2>4 DEF Moved
    <3>2. i \in Nat /\ SENDING \in EXIT_OK..WAITING
      <4>1. v.step \in Nat
        BY <1>9 DEF GoodInvocation, InvocationType
      <4> QED BY <4>1 DEF EXIT_OK, SENDING, WAITING
    <3> HIDE DEF i
    <3>3. u.cmd = v.cmd /\ u.step = i /\ u.seed = x.seed /\ u.status = SENDING
      BY ONLY <2>1, <3>1, <3>2, AtStep
    <3>4. Pre(Current(u), u.seed)
      <4>1. Current(u) = Script(v.cmd, x.seed)[v.step + 1]
        BY <3>3 DEF Current, Steps, i
      <4>2. /\ Current(v) = Script(v.cmd, v.seed)[v.step]
            /\ v.step \in 1..Len(Script(v.cmd, v.seed))
            /\ v.step < Len(Script(v.cmd, x.seed))
        BY <1>9, <2>1, <2>4 DEF Current, Steps
      <4>3. Post(Script(v.cmd, v.seed)[v.step], v.seed, NO_NRC, m.seed)
        BY <1>7, <1>13, <4>2
      <4>4. Pre(Script(v.cmd, x.seed)[v.step + 1], x.seed)
        BY <1>9, <2>1, <4>2, <4>3, NextPre
      <4> QED BY <3>3, <4>1, <4>4
    <3>5. Unread(u) /\ Accepted(u)
      BY <1>9, <3>3 DEF Unread, Accepted, SENDING, EXIT_NRC, EXIT_UNCAUGHT
    <3>6. /\ \A y \in Terminals : Unread(tool[y])' /\ Accepted(tool[y])'
          /\ tool'[w] = u /\ inbox'[w] = Kept(u, rest)
      BY <1>13, <3>5, BecomesLone DEF TInv, Lone
    <3>7. Pre(Current(u), u.seed)' /\ Calm'
      BY <1>10, <3>4, SeenKept, PrePostKept DEF Lone
    <3>8. Ready(w)'
      <4>1. Idle' /\ inbox'[w] = <<>>
        BY <1>7, <1>10, <3>6 DEF Idle, Kept
      <4>2. Pre(Current(tool[w]), tool[w].seed)'
        BY <3>6, <3>7 DEF Pre, Granted, Unlocked
      <4> QED BY <3>3, <3>6, <4>1, <4>2 DEF Ready
    <3> QED BY <3>6, <3>7, <3>8 DEF Lone, Stage
  <2> QED BY <2>2, <2>3, <2>4
<1> QED BY <1>11, <1>12, <1>13

\* A tool that gives up leaves its request with the ECU.
LEMMA TimeoutLone ==
    ASSUME NEW w \in Terminals, OnlyWriter(w), TInv, Lone(w),
           NEW t \in Terminals, Timeout(t)
    PROVE  Lone(w)'
<1>1. tool[t].status = WAITING /\ Live(tool[t]) /\ inbox[t] = <<>>
  BY DEF Timeout, Live
<1>2. t = w /\ tool[t].cmd.verb # "monitor"
  BY <1>1, OnlyWriterMoves DEF Lone, SENDING, WAITING
<1>3. PICK v : v = tool[w]
  OBVIOUS
<1>4. PICK u : u = Fails(v, EXIT_TIMEOUT)
  OBVIOUS
<1>5. GoodInvocation(w, v) /\ v.cmd.verb # "monitor"
  BY <1>2, <1>3 DEF TInv, ToolsTyped
<1>6. u.cmd = v.cmd /\ u.status = EXIT_TIMEOUT /\ u.step = v.step /\ u.seed = v.seed
  BY <1>4, <1>5, FailsEnds
<1>7. Becomes(w, u, <<>>) /\ UNCHANGED <<vars, toEcu, serving>>
  BY <1>2, <1>3, <1>4 DEF Timeout
<1>8. EXIT_TIMEOUT \notin {EXIT_NRC, EXIT_UNCAUGHT} /\ EXIT_TIMEOUT \in EXIT_OK..EXIT_IO
  BY DEF EXIT_OK, EXIT_IO, EXIT_TIMEOUT, EXIT_NRC, EXIT_UNCAUGHT
<1>9. CASE Idle
  BY <1>2, <1>3, <1>6, <1>7, <1>8, <1>9, EndsLone
<1>10. CASE ~Idle
  <2>1. Unread(u) /\ Accepted(u)
    BY <1>5, <1>6, <1>8 DEF Unread, Accepted
  <2>2. /\ \A y \in Terminals : Unread(tool[y])' /\ Accepted(tool[y])'
        /\ tool'[w] = u /\ inbox'[w] = Kept(u, <<>>)
    BY <1>7, <2>1, BecomesLone DEF TInv, Lone
  <2>3. inbox'[w] = <<>>
    BY <2>2 DEF Kept
  <2>4. PICK r : r = Current(v)
    OBVIOUS
  <2>5. Current(u) = r /\ Steps(u) = Steps(v)
    BY <1>6, <2>4 DEF Current, Steps
  <2>6. Sent(w) \/ Served(w)
    BY <1>10 DEF Lone, Stage, Resting, Ready, Arrived
  <2>7. Pending(w)'
    BY <1>3, <1>6, <2>2, <2>3, <2>4, <2>5, <2>6 DEF Sent, Served, Pending
  <2>8. toEcu' = toEcu /\ serving' = serving /\ req' = req
    BY <1>7 DEF vars, dispVars
  <2>9. ASSUME Sent(w) PROVE Stage(w)'
    <3>1. Pre(r, v.seed)'
      BY <1>3, <1>7, <2>4, <2>9, SeenKept, PrePostKept DEF Sent
    <3>2. Pre(Current(tool[w]), tool[w].seed)'
      BY <1>6, <2>2, <2>5, <3>1 DEF Pre, Granted, Unlocked
    <3>3. Sent(w)'
      BY <1>3, <2>2, <2>4, <2>5, <2>7, <2>8, <2>9, <3>2 DEF Sent
    <3> QED BY <3>3 DEF Stage
  <2>10. ASSUME Served(w) PROVE Stage(w)'
    <3>1. Serving(r, v.seed)'
      BY <1>3, <1>7, <2>4, <2>10, SeenKept, PrePostKept DEF Served
    <3>2. Serving(Current(tool[w]), tool[w].seed)'
      BY <1>6, <2>2, <2>5, <3>1 DEF Serving, Pre, Post, Granted, Unlocked
    <3>3. Served(w)'
      BY <1>3, <2>2, <2>4, <2>5, <2>7, <2>8, <2>10, <3>2 DEF Served
    <3> QED BY <3>3 DEF Stage
  <2>11. Stage(w)'
    BY <2>6, <2>9, <2>10
  <2>12. Calm'
    BY <1>7, SeenKept, PrePostKept DEF Lone
  <2> QED BY <2>2, <2>11, <2>12 DEF Lone
<1> QED BY <1>9, <1>10

-----------------------------------------------------------------------------
(* The ECU's steps in a quiet state. *)

\* The dispatcher takes the writer's request.
LEMMA TakesLone ==
    ASSUME NEW w \in Terminals, TInv, Lone(w), EcuTakes
    PROVE  Lone(w)'
<1>1. Sent(w)
  BY DEF EcuTakes, Lone, Stage, Resting, Ready, Served, Arrived, Idle
<1>2. PICK v : v = tool[w]
  OBVIOUS
<1>3. PICK r : r = Current(v)
  OBVIOUS
<1>4. toEcu = <<<<w, r>>>>
  BY <1>1, <1>2, <1>3 DEF Sent
<1>5. Head(toEcu) = <<w, r>> /\ Tail(toEcu) = <<>>
  BY <1>4
<1>6. /\ toEcu' = <<>> /\ serving' = w /\ tool' = tool /\ inbox' = inbox
      /\ dpc' = "handle" /\ req' = r /\ session' = session /\ sec' = sec /\ now' = now
  BY <1>5 DEF EcuTakes, Pop, ecuVars
<1>7. Pre(r, v.seed)'
  BY <1>1, <1>2, <1>3, <1>6 DEF Sent, Pre, Granted, Unlocked
<1>8. Serving(r, v.seed)'
  BY <1>6, <1>7 DEF Serving
<1>9. Pending(w)'
  BY <1>1, <1>6 DEF Sent, Pending
<1>10. Served(w)'
  BY <1>2, <1>3, <1>6, <1>8, <1>9 DEF Served
<1>11. Calm'
  BY <1>6 DEF Lone, Calm
<1> QED BY <1>6, <1>10, <1>11, ToolsKept DEF Lone, Stage

\* The dispatcher has a request in hand only if it is the writer's.
LEMMA InHand ==
    ASSUME NEW w \in Terminals, TInv, Lone(w), dpc # "pop"
    PROVE  Served(w)
<1>1. serving # Nobody
  BY DEF TInv, EcuTyped
<1> QED BY <1>1 DEF Lone, Stage, Resting, Ready, Sent, Arrived, Idle

\* The dispatcher serves the writer's request.
LEMMA HandlesLone ==
    ASSUME NEW w \in Terminals, TInv, Lone(w), EcuHandles
    PROVE  Lone(w)'
<1>1. VInv /\ Handler /\ dpc # "respond"
  BY DEF TInv, EcuHandles
<1>2. Served(w)
  BY <1>1, HandlerSeeds, InHand
<1>3. PICK v : v = tool[w]
  OBVIOUS
<1>4. PICK r : r = Current(v)
  OBVIOUS
<1>5. req = r /\ Serving(r, v.seed) /\ v.cmd.verb # "monitor" /\ v.cmd \in Commands(w)
      /\ v.step \in 1..Len(Steps(v))
  BY <1>2, <1>3, <1>4 DEF Served, Pending
<1>6. v.seed \in GivenSeeds
  BY <1>3 DEF TInv, ToolsTyped, GoodInvocation, InvocationType
<1>7. Asked(req)
  <2>1. v.cmd.verb \in Verbs \ {"monitor"}
    BY <1>5, CommandsAssumption
  <2> QED BY <1>4, <1>5, <2>1, ScriptAsks DEF Current, Steps
<1>8. Calm' /\ req' = req /\ Serving(req, v.seed)'
  BY <1>1, <1>5, <1>6, <1>7, ServeStep DEF Lone
<1>9. toEcu' = toEcu /\ serving' = serving /\ tool' = tool /\ inbox' = inbox
  BY DEF EcuHandles, toolVars
<1>10. Serving(r, v.seed)'
  BY <1>5, <1>8 DEF Serving, Pre, Post, Granted, Unlocked
<1>11. Pending(w)'
  BY <1>2, <1>9 DEF Served, Pending
<1>12. Served(w)'
  BY <1>2, <1>3, <1>4, <1>5, <1>8, <1>9, <1>10, <1>11 DEF Served
<1> QED BY <1>8, <1>9, <1>12, ToolsKept DEF Lone, Stage

\* The writer's request is answered: if the tool still waits, it gets the
\* answer it waits for, unless that is lost.
LEMMA AnswersLone ==
    ASSUME NEW w \in Terminals, TInv, Lone(w), EcuAnswers
    PROVE  Lone(w)'
<1>1. dpc = "respond" /\ Respond
  BY DEF EcuAnswers, Respond
<1>2. Served(w)
  BY <1>1, InHand
<1>3. PICK v : v = tool[w]
  OBVIOUS
<1>4. PICK r : r = Current(v)
  OBVIOUS
<1>5. PICK m : m = Answer
  OBVIOUS
<1>6. req = r /\ Serving(r, v.seed) /\ v.cmd.verb # "monitor"
      /\ v.status \in {WAITING, EXIT_TIMEOUT} /\ inbox[w] = <<>> /\ toEcu = <<>>
  BY <1>2, <1>3, <1>4 DEF Served, Pending
<1>7. Post(r, v.seed, m.nrc, m.seed) /\ Addressed(r, m)
  BY <1>1, <1>5, <1>6 DEF Serving, Answer, Addressed
<1>8. \/ inbox' = [t \in Terminals |->
                      IF sent' THEN Kept(tool[t], Append(inbox[t], Answer)) ELSE inbox[t]]
      \/ inbox' = inbox
  BY DEF EcuAnswers
<1>9. inbox'[w] = Kept(v, Append(<<>>, m)) \/ inbox'[w] = <<>>
  BY <1>3, <1>5, <1>6, <1>8
<1>10. /\ Idle' /\ tool' = tool /\ session' = session /\ sec' = sec /\ now' = now
  BY <1>1, <1>6 DEF EcuAnswers, Respond, Idle, ecuVars
<1>11. CASE v.status = EXIT_TIMEOUT
  <2>1. ~Live(v) /\ inbox'[w] = <<>>
    BY <1>9, <1>11 DEF Live, Kept, EXIT_TIMEOUT, SENDING, WAITING
  <2>2. Resting(w)'
    BY <1>3, <1>10, <2>1 DEF Resting
  <2>3. Calm'
    BY <1>10 DEF Lone, Calm
  <2> QED BY <1>10, <2>2, <2>3, ToolsKept DEF Lone, Stage
<1>12. CASE v.status = WAITING
  <2>1. inbox'[w] = <<>> \/ (Len(inbox'[w]) = 1 /\ inbox'[w][1] = m)
    <3>1. inbox'[w] = <<m>> \/ inbox'[w] = <<>>
      BY <1>9, <1>12 DEF Kept
    <3>2. Len(<<m>>) = 1 /\ <<m>>[1] = m
      OBVIOUS
    <3> QED BY <3>1, <3>2
  <2>2. Post(r, v.seed, m.nrc, m.seed)'
    BY <1>7, <1>10 DEF Post, Granted, Unlocked
  <2>3. Arrived(w)'
    <3>1. tool'[w] = v /\ v.status = WAITING /\ v.cmd.verb # "monitor"
      BY <1>3, <1>6, <1>10, <1>12
    <3> QED BY <1>4, <1>7, <1>10, <2>1, <2>2, <3>1 DEF Arrived
  <2>4. Calm'
    BY <1>10 DEF Lone, Calm
  <2> QED BY <1>10, <2>3, <2>4, ToolsKept DEF Lone, Stage
<1> QED BY <1>6, <1>11, <1>12

-----------------------------------------------------------------------------
(***************************************************************************)
(* Tools that begin before the ECU is done with their predecessor.         *)
(*                                                                         *)
(* The line of a terminal is what it has received, then the request the    *)
(* dispatcher has in hand, then the requests on their way: the order in    *)
(* which the terminal gets to see the answers.  A stray is an entry that   *)
(* is no request of the monitor.  The argument is a ranking of the strays. *)
(* Those of the command that runs have the number of their step as rank,   *)
(* those of its predecessors a lower one; ranks grow along the line, so    *)
(* that an answer can be taken for the one to step s only if the stray     *)
(* with rank s, or one of a predecessor of the same kind, is at its head.  *)
(* Each overtaking command lets the lowest rank sink by one, and each      *)
(* answer that is taken uses up a rank.                                    *)
(***************************************************************************)

\* What an answer has in common with the request: service, sub-function, DID.
Kind(r) == <<r.sid, Sub(r), r.did>>
MailKind(m) == <<m.sid, m.sub, m.did>>

MonitorKinds == {Kind(Read("010C rpm")), Kind(Read("010D speed")), Kind(Read("0105 coolant"))}

\* The kinds of the messages q, of r if there is one in hand (b = 1), and of
\* the requests e.
Lined(q, b, r, e) ==
    [i \in 1..(Len(q) + b + Len(e)) |->
        IF i <= Len(q) THEN MailKind(q[i])
        ELSE IF i <= Len(q) + b THEN Kind(r) ELSE Kind(e[i - Len(q) - b][2])]

InHandCount == IF serving = Nobody THEN 0 ELSE 1

Line(w) == Lined(inbox[w], InHandCount, req, toEcu)

Strays(L) == {i \in DOMAIN L : L[i] \notin MonitorKinds}

\* The strays of L have ranks between lo and hi that grow along the line; one
\* with a positive rank is of the kind of the request with this number in S.
Ranked(L, lo, hi, S) ==
    \E h \in [Strays(L) -> lo..hi] :
        /\ \A i, j \in Strays(L) : i < j => h[i] < h[j]
        /\ \A i \in Strays(L) : h[i] >= 1 => L[i] = Kind(S[h[i]])

\* The lowest rank at step s after o overtakes: a command that got past step
\* o + 1 has left all its predecessors behind.
Low(o, s) == IF s <= o + 1 THEN s - o ELSE s

LagOf(v, L, o) ==
    IF Live(v) /\ v.cmd.verb # "monitor"
    THEN Ranked(L, Low(o, v.step), IF v.status = WAITING THEN v.step ELSE v.step - 1, Steps(v))
    ELSE Ranked(L, 0 - o, 0, <<>>)

\* How far the terminal that writes can be behind its own strays.
Lag == \A w \in Terminals : OnlyWriter(w) => LagOf(tool[w], Line(w), spent.overtakes)

\* The requests the ECU holds, with their terminals.
Held ==
    {toEcu[i] : i \in 1..Len(toEcu)} \cup (IF serving = Nobody THEN {} ELSE {<<serving, req>>})

FromScript(t, r) ==
    \E k \in Commands(t), seed \in GivenSeeds :
        \E i \in 1..Len(Script(k, seed)) : r = Script(k, seed)[i]

\* The dispatcher is between the parts of the handlers that have several.
InService ==
    /\ dpc # "reset_security"
    /\ dpc = "security" => req.sid = UDS_SID_SECURITY_ACCESS
    /\ dpc \in {"write_security", "write_owner"} => req.sid = UDS_SID_WRITE_DATA_BY_IDENTIFIER

\* The ECU holds nothing but requests of the scripts.
HeldInv == InService /\ \A p \in Held : FromScript(p[1], p[2])

Open == Unlocked \/ defaultBy = "s3"

PositiveMail(q, sid, sub) ==
    \E i \in 1..Len(q) : q[i].sid = sid /\ q[i].sub = sub /\ q[i].nrc = NO_NRC

\* A positive answer is under way, to whomever.
Told(sid, sub) ==
    \/ dpc = "respond" /\ req.sid = sid /\ Sub(req) = sub /\ resp.nrc = NO_NRC
    \/ \E t \in Terminals : PositiveMail(inbox[t], sid, sub)

\* clear-dtc and unlock: what a positive answer says stays true, so that it
\* does not matter to which request it was.
TruthInv ==
    /\ Told(UDS_SID_CLEAR_DTC, 0) => dtcs = {}
    /\ Told(UDS_SID_SECURITY_ACCESS, 2) => Open
    /\ spc = "relock" => defaultBy = "s3"
    /\ \A t \in Terminals :
          /\ Ended(t, "clear-dtc", EXIT_OK) => dtcs = {}
          /\ Ended(t, "unlock", EXIT_OK) => Open

IsAccess(k) == k[1] = UDS_SID_SECURITY_ACCESS

\* One request or answer of the SecurityAccess service is under way at most.
OneAccess(L) == \A i, j \in DOMAIN L : IsAccess(L[i]) /\ IsAccess(L[j]) => i = j

\* The seed s, or the key, is the one that belongs to the pending seed.
SeedFits(s) == sec.seed_issued => sec.pending_seed = s
KeyFits(key) == sec.seed_issued => key = KeyFor(sec.pending_seed)

KeysFit ==
    \A p \in Held : p[2].sid = UDS_SID_SECURITY_ACCESS /\ Sub(p[2]) = 2 => KeyFits(p[2].key)

SeedsFit(w) ==
    \A i \in 1..Len(inbox[w]) :
        /\ inbox[w][i].sid = UDS_SID_SECURITY_ACCESS /\ inbox[w][i].sub = 1 /\ inbox[w][i].nrc = NO_NRC
        => SeedFits(inbox[w][i].seed)

AnswerFits ==
    /\ dpc = "respond" /\ req.sid = UDS_SID_SECURITY_ACCESS /\ Sub(req) = 1 /\ resp.nrc = NO_NRC
    => SeedFits(resp.seed)

\* At the third step the tool answers the seed it got.
SeedInUseFits(v) ==
    v.status = SENDING /\ v.cmd.verb # "monitor" /\ v.step = 3 => SeedFits(v.seed)

\* A seed is pending only while it, or its key, is on its way to the one that
\* has to see it; no wrong key was counted.
HonestW(w) ==
    /\ OneAccess(Line(w)) /\ KeysFit /\ SeedsFit(w) /\ AnswerFits /\ SeedInUseFits(tool[w])
    /\ sec.fail_count = 0

Honest == \A w \in Terminals : OnlyWriter(w) /\ spent.overtakes <= 1 => HonestW(w)

\* write-name is at its write, at its read-back, or through.
Writing(v) == v.cmd.verb = "write-name" /\ Live(v) /\ Current(v) = WriteName(v.cmd)
Confirming(v) == v.cmd.verb = "write-name" /\ Live(v) /\ Current(v) = ReadOwner
Wrote(v) == v.cmd.verb = "write-name" /\ v.status = EXIT_OK

WriteTold(w) == PositiveMail(inbox[w], UDS_SID_WRITE_DATA_BY_IDENTIFIER, 0)

\* The writes the ECU holds are of this name.
WritesAre(name) ==
    \A p \in Held : p[2].sid = UDS_SID_WRITE_DATA_BY_IDENTIFIER => p[2].name = name

\* From the moment the name is sent no other write is under way; a positive
\* answer to it, and all that follows, finds the name in the ECU.
WriteW(w) ==
    /\ (Writing(tool[w]) /\ tool[w].status = WAITING) \/ Confirming(tool[w]) \/ Wrote(tool[w])
       => WritesAre(tool[w].cmd.name)
    /\ Writing(tool[w]) /\ tool[w].status = WAITING /\ WriteTold(w) => owner.name = tool[w].cmd.name
    /\ Confirming(tool[w]) \/ Wrote(tool[w]) => owner.name = tool[w].cmd.name
    /\ Confirming(tool[w]) /\ tool[w].status = WAITING =>
         \A i \in 1..Len(inbox[w]) :
            Answers(ReadOwner, inbox[w][i]) => inbox[w][i].name = tool[w].cmd.name
    /\ Wrote(tool[w]) => tool[w].confirmed = tool[w].cmd.name

\* A positive answer to a write is given after the name was stored.
Stored ==
    /\ dpc = "respond" /\ req.sid = UDS_SID_WRITE_DATA_BY_IDENTIFIER /\ resp.nrc = NO_NRC
    => owner.name = req.name

WriteInv ==
    /\ Stored
    /\ \A w \in Terminals : OnlyWriter(w) /\ spent.overtakes <= 2 => WriteW(w)

-----------------------------------------------------------------------------
(* Rankings. *)

\* L2 is L1 without the n entries after its first a.
Cut(L2, L1, a, n) ==
    /\ DOMAIN L2 \subseteq Nat
    /\ \A i \in DOMAIN L2 :
          LET j == IF i <= a THEN i ELSE i + n IN j \in DOMAIN L1 /\ L2[i] = L1[j]

\* L2 is L1 with kind k at its end.
Longer(L2, L1, k) ==
    \E n \in Nat :
        /\ DOMAIN L1 = 1..n /\ DOMAIN L2 = 1..(n + 1)
        /\ \A i \in 1..n : L2[i] = L1[i]
        /\ L2[n + 1] = k

\* What is left of a line keeps its ranks.
LEMMA RankedCut ==
    ASSUME NEW L1, NEW L2, NEW a \in Nat, NEW n \in Nat, Cut(L2, L1, a, n),
           NEW lo, NEW hi, NEW S, Ranked(L1, lo, hi, S)
    PROVE  Ranked(L2, lo, hi, S)
<1> DEFINE at(i) == IF i <= a THEN i ELSE i + n
<1>1. PICK h \in [Strays(L1) -> lo..hi] :
         /\ \A i, j \in Strays(L1) : i < j => h[i] < h[j]
         /\ \A i \in Strays(L1) : h[i] >= 1 => L1[i] = Kind(S[h[i]])
  BY DEF Ranked
<1>2. \A i \in Strays(L2) : i \in Nat /\ at(i) \in Strays(L1) /\ L2[i] = L1[at(i)]
  BY DEF Cut, Strays
<1>3. \A i, j \in Strays(L2) : i < j => at(i) < at(j)
  BY <1>2
<1> HIDE DEF at
<1> DEFINE g == [i \in Strays(L2) |-> h[at(i)]]
<1>4. g \in [Strays(L2) -> lo..hi]
  BY <1>2
<1>5. \A i, j \in Strays(L2) : i < j => g[i] < g[j]
  BY <1>1, <1>2, <1>3
<1>6. \A i \in Strays(L2) : g[i] >= 1 => L2[i] = Kind(S[g[i]])
  BY <1>1, <1>2
<1> HIDE DEF g
<1> QED BY <1>4, <1>5, <1>6 DEF Ranked

\* Wider bounds
LEMMA RankedWider ==
    ASSUME NEW L, NEW lo \in Int, NEW hi \in Int, NEW l2 \in Int, NEW h2 \in Int, l2 <= lo,
           hi <= h2,
           NEW S, NEW T, \A n \in 1..hi : Kind(S[n]) = Kind(T[n]), Ranked(L, lo, hi, S)
    PROVE  Ranked(L, l2, h2, T)
<1>1. PICK h \in [Strays(L) -> lo..hi] :
         /\ \A i, j \in Strays(L) : i < j => h[i] < h[j]
         /\ \A i \in Strays(L) : h[i] >= 1 => L[i] = Kind(S[h[i]])
  BY DEF Ranked
<1>2. h \in [Strays(L) -> l2..h2]
  OBVIOUS
<1>3. \A i \in Strays(L) : h[i] >= 1 => L[i] = Kind(T[h[i]])
  BY <1>1
<1> QED BY <1>1, <1>2, <1>3 DEF Ranked

\* Forget what the entries are.
LEMMA RankedForget ==
    ASSUME NEW L, NEW lo \in Int, NEW hi \in Int, NEW S, Ranked(L, lo, hi, S),
           NEW o \in Int, hi - lo <= o, NEW T
    PROVE  Ranked(L, 0 - o, 0, T)
<1>1. PICK h \in [Strays(L) -> lo..hi] :
         /\ \A i, j \in Strays(L) : i < j => h[i] < h[j]
         /\ \A i \in Strays(L) : h[i] >= 1 => L[i] = Kind(S[h[i]])
  BY DEF Ranked
<1> DEFINE g == [i \in Strays(L) |-> h[i] - hi]
<1>2. g \in [Strays(L) -> (0 - o)..0]
  OBVIOUS
<1>3. \A i, j \in Strays(L) : i < j => g[i] < g[j]
  BY <1>1
<1>4. \A i \in Strays(L) : ~(g[i] >= 1)
  BY <1>2
<1> HIDE DEF g
<1> QED BY <1>2, <1>3, <1>4 DEF Ranked

\* One more at the end.
LEMMA RankedAppend ==
    ASSUME NEW L1, NEW L2, NEW lo \in Int, NEW s \in Nat, lo <= s, NEW S,
           Longer(L2, L1, Kind(S[s])), Ranked(L1, lo, s - 1, S)
    PROVE  Ranked(L2, lo, s, S)
<1>0. PICK n \in Nat : /\ DOMAIN L1 = 1..n /\ DOMAIN L2 = 1..(n + 1)
                       /\ \A i \in 1..n : L2[i] = L1[i]
                       /\ L2[n + 1] = Kind(S[s])
  BY Zenon DEF Longer
<1>1. PICK h \in [Strays(L1) -> lo..(s - 1)] :
         /\ \A i, j \in Strays(L1) : i < j => h[i] < h[j]
         /\ \A i \in Strays(L1) : h[i] >= 1 => L1[i] = Kind(S[h[i]])
  BY DEF Ranked
<1>2. /\ Strays(L1) \subseteq 1..n /\ Strays(L2) \subseteq Strays(L1) \cup {n + 1}
      /\ \A i \in Strays(L1) : L1[i] = L2[i]
  BY <1>0 DEF Strays
<1> DEFINE g == [i \in Strays(L2) |-> IF i = n + 1 THEN s ELSE h[i]]
<1>3. \A i \in Strays(L2) : (i = n + 1 /\ g[i] = s) \/ (i \in Strays(L1) /\ i < n + 1 /\ i \in Nat /\ g[i] = h[i])
  BY <1>2
<1>4. \A i \in Strays(L1) : h[i] \in lo..(s - 1)
  OBVIOUS
<1>5. g \in [Strays(L2) -> lo..s]
  BY <1>3, <1>4
<1> HIDE DEF g
<1>6. \A i, j \in Strays(L2) : i < j => g[i] < g[j]
  BY <1>1, <1>3, <1>4
<1>7. \A i \in Strays(L2) : g[i] >= 1 => L2[i] = Kind(S[g[i]])
  BY <1>0, <1>1, <1>2, <1>3
<1> QED BY <1>5, <1>6, <1>7 DEF Ranked

\* The monitor's requests do not count.
LEMMA RankedMonitor ==
    ASSUME NEW L1, NEW L2, NEW k \in MonitorKinds, Longer(L2, L1, k), NEW lo, NEW hi, NEW S,
           Ranked(L1, lo, hi, S)
    PROVE  Ranked(L2, lo, hi, S)
<1>0. PICK n \in Nat : /\ DOMAIN L1 = 1..n /\ DOMAIN L2 = 1..(n + 1)
                       /\ \A i \in 1..n : L2[i] = L1[i]
                       /\ L2[n + 1] = k
  BY Zenon DEF Longer
<1>1. /\ Strays(L2) = Strays(L1)
      /\ \A i \in Strays(L1) : L1[i] = L2[i]
  BY <1>0 DEF Strays
<1>2. PICK h \in [Strays(L1) -> lo..hi] :
         /\ \A i, j \in Strays(L1) : i < j => h[i] < h[j]
         /\ \A i \in Strays(L1) : h[i] >= 1 => L1[i] = Kind(S[h[i]])
  BY DEF Ranked
<1>3. h \in [Strays(L2) -> lo..hi]
  BY <1>1
<1>4. /\ \A i, j \in Strays(L2) : i < j => h[i] < h[j]
      /\ \A i \in Strays(L2) : h[i] >= 1 => L2[i] = Kind(S[h[i]])
  BY <1>1, <1>2
<1> QED BY <1>3, <1>4 DEF Ranked

\* A line without strays can have any ranks.
LEMMA RankedNone ==
    ASSUME NEW L, Strays(L) = {}, NEW lo, NEW hi, NEW S
    PROVE  Ranked(L, lo, hi, S)
<1> DEFINE h == [i \in {} |-> 0]
<1>1. h \in [Strays(L) -> lo..hi]
  OBVIOUS
<1> HIDE DEF h
<1> QED BY <1>1 DEF Ranked

\* The expected answer is taken
LEMMA RankedAccept ==
    ASSUME NEW L1, NEW L2, DOMAIN L1 \subseteq Nat \ {0}, 1 \in DOMAIN L1, Cut(L2, L1, 0, 1),
           NEW o \in Nat, NEW s \in Nat \ {0}, NEW S, 
           \A n \in 1..(s - 1) : Kind(S[n]) # Kind(S[s]),
           L1[1] = Kind(S[s]), L1[1] \notin MonitorKinds,
           Ranked(L1, Low(o, s), s, S)
    PROVE  Ranked(L2, Low(o, s + 1), s, S)
<1>1. PICK h \in [Strays(L1) -> Low(o, s)..s] :
         /\ \A i, j \in Strays(L1) : i < j => h[i] < h[j]
         /\ \A i \in Strays(L1) : h[i] >= 1 => L1[i] = Kind(S[h[i]])
  BY DEF Ranked
<1>2. 1 \in Strays(L1) /\ h[1] \in Low(o, s)..s
  BY DEF Strays
<1>3. h[1] <= 0 \/ h[1] = s
  <2>0. Low(o, s) \in Int
    BY DEF Low
  <2>1. h[1] \in Int /\ h[1] <= s
    BY <1>2, <2>0
  <2>2. h[1] >= 1 => Kind(S[s]) = Kind(S[h[1]])
    BY <1>1, <1>2
  <2> QED BY <2>1, <2>2
<1>4. \A i \in Strays(L2) : i \in Nat /\ i + 1 \in Strays(L1) /\ i + 1 > 1 /\ L2[i] = L1[i + 1]
  <2>1. \A i \in DOMAIN L2 : i \in Nat /\ L2[i] = L1[IF i <= 0 THEN i ELSE i + 1]
           /\ (IF i <= 0 THEN i ELSE i + 1) \in DOMAIN L1
    BY DEF Cut
  <2>2. \A i \in DOMAIN L2 : i \in Nat \ {0} /\ L2[i] = L1[i + 1] /\ i + 1 \in DOMAIN L1
    BY <2>1
  <2> QED BY <2>2 DEF Strays
<1>5. \A i \in Strays(L2) : h[1] < h[i + 1] /\ h[i + 1] \in Low(o, s)..s
  BY <1>1, <1>2, <1>4
<1>6. CASE h[1] = s
  <2>1. Strays(L2) = {}
    <3>1. ASSUME NEW i \in Strays(L2) PROVE FALSE
      <4>1. s < h[i + 1] /\ h[i + 1] \in Low(o, s)..s
        BY <1>5, <1>6
      <4>2. Low(o, s) \in Int
        BY DEF Low
      <4> QED BY <4>1, <4>2
    <3> QED BY <3>1
  <2> QED BY <2>1, RankedNone
<1>7. CASE h[1] <= 0 /\ h[1] # s
  <2>1. Low(o, s) = s - o /\ Low(o, s) <= 0
    BY <1>2, <1>7 DEF Low
  <2>2. Low(o, s + 1) = Low(o, s) + 1
    BY <2>1 DEF Low
  <2> DEFINE g == [i \in Strays(L2) |-> h[i + 1]]
  <2>3. \A i \in Strays(L2) : g[i] \in Low(o, s + 1)..s
    <3>1. ASSUME NEW i \in Strays(L2) PROVE h[i + 1] \in Low(o, s + 1)..s
      <4>1. h[1] < h[i + 1] /\ h[i + 1] \in (s - o)..s /\ h[1] \in (s - o)..s
        BY <1>2, <1>5, <2>1
      <4> QED BY <2>1, <2>2, <4>1
    <3> QED BY <3>1
  <2>4. g \in [Strays(L2) -> Low(o, s + 1)..s]
    BY <2>3
  <2>5. \A i, j \in Strays(L2) : i < j => g[i] < g[j]
    BY <1>1, <1>4
  <2>6. \A i \in Strays(L2) : g[i] >= 1 => L2[i] = Kind(S[g[i]])
    BY <1>1, <1>4
  <2> HIDE DEF g
  <2> QED BY <2>4, <2>5, <2>6 DEF Ranked
<1> QED BY <1>3, <1>6, <1>7

\* The lowest rank is o below the step at most, and sinks with o.
LEMMA LowBounds ==
    ASSUME NEW o \in Nat, NEW s \in Nat \ {0}
    PROVE  /\ Low(o, s) \in Int /\ Low(o, s) <= s /\ s - Low(o, s) <= o
           /\ Low(o, 1) = 1 - o
           /\ \A p \in Nat : o <= p => Low(p, s) <= Low(o, s)
BY DEF Low

-----------------------------------------------------------------------------
(* Kinds of requests. *)

\* The fields that make the kind.
LEMMA KindOf ==
    /\ Kind(Extended) = <<UDS_SID_DIAGNOSTIC_SESSION_CONTROL, 3, "none">>
    /\ Kind(RequestSeed) = <<UDS_SID_SECURITY_ACCESS, 1, "none">>
    /\ \A key : Kind(SendKey(key)) = <<UDS_SID_SECURITY_ACCESS, 2, "none">>
    /\ \A k : /\ Kind(WriteName(k)) = <<UDS_SID_WRITE_DATA_BY_IDENTIFIER, 0, "F200 owner">>
              /\ WriteName(k).name = k.name
    /\ \A d : Kind(Read(d)) = <<UDS_SID_READ_DATA_BY_IDENTIFIER, 0, d>>
    /\ \A mask : Kind(ReadDtc(2, mask)) = <<UDS_SID_READ_DTC, 2, "none">>
    /\ \A all : Kind(ClearDtc(all)) = <<UDS_SID_CLEAR_DTC, 0, "none">>
<1> DEFINE F == {"sid", "len", "sub", "did", "name", "key", "mask", "all"}
<1>1. NoRequest = [f \in F |-> NoRequest[f]] /\ NoRequest.did = "none" /\ NoRequest.sub = 0
  BY DEF NoRequest
<1>2. Blank = [f \in F |-> Blank[f]] /\ Blank.did = "none" /\ Blank.sub = 0
  <2>1. ASSUME NEW g, g = [f \in F |-> g[f]], NEW n
        PROVE  /\ [g EXCEPT !.name = n] = [f \in F |-> [g EXCEPT !.name = n][f]]
               /\ [g EXCEPT !.name = n].did = g.did /\ [g EXCEPT !.name = n].sub = g.sub
    BY <2>1, Zenon
  <2> HIDE DEF F
  <2> QED BY <1>1, <2>1 DEF Blank
<1>3. ASSUME NEW sid, NEW sub
      PROVE  /\ Plain(sid, sub) = [f \in F |-> Plain(sid, sub)[f]]
             /\ Plain(sid, sub).did = "none" /\ Plain(sid, sub).sub = sub
  BY <1>2, Zenon DEF Plain
<1>4. Extended.did = "none" /\ RequestSeed.did = "none"
  BY <1>3 DEF Extended, RequestSeed
<1>5. ASSUME NEW key
      PROVE  SendKey(key).did = "none"
  <2> DEFINE p == Plain(UDS_SID_SECURITY_ACCESS, 2)
  <2>1. p = [f \in F |-> p[f]] /\ p.did = "none"
    BY <1>3
  <2> HIDE DEF p
  <2>2. SendKey(key) = [p EXCEPT !.len = 6, !.key = key]
    BY DEF SendKey, p
  <2> QED BY <2>1, <2>2, Zenon
<1>6. ASSUME NEW k
      PROVE  WriteName(k).name = k.name /\ WriteName(k).sub = 0
  <2> DEFINE p == Write("F200 owner", 3 + k.len)
  <2>1. p = [f \in F |-> p[f]] /\ p.sub = 0
    BY <1>2, Zenon DEF Write
  <2> HIDE DEF p
  <2>2. WriteName(k) = [p EXCEPT !.name = k.name]
    BY DEF WriteName, p
  <2> QED BY <2>1, <2>2, Zenon
<1>7. ASSUME NEW d PROVE Read(d).sub = 0
  BY <1>2, Zenon DEF Read
<1>8. ASSUME NEW sub, NEW mask PROVE ReadDtc(sub, mask).did = "none" /\ ReadDtc(sub, mask).sub = sub
  BY <1>2, Zenon DEF ReadDtc
<1>9. ASSUME NEW all PROVE ClearDtc(all).did = "none" /\ ClearDtc(all).sub = 0
  BY <1>2, Zenon DEF ClearDtc
<1>10. 0 % 128 = 0 /\ 1 % 128 = 1 /\ 2 % 128 = 2 /\ 3 % 128 = 3
  OBVIOUS
<1> HIDE DEF F
<1>11. Kind(Extended) = <<UDS_SID_DIAGNOSTIC_SESSION_CONTROL, 3, "none">>
  BY <1>4, <1>10, RequestFields DEF Kind, Sub, UDS_SESSION_EXTENDED
<1>12. Kind(RequestSeed) = <<UDS_SID_SECURITY_ACCESS, 1, "none">>
  BY <1>4, <1>10, RequestFields DEF Kind, Sub
<1>13. ASSUME NEW key PROVE Kind(SendKey(key)) = <<UDS_SID_SECURITY_ACCESS, 2, "none">>
  BY <1>5, <1>10, RequestFields DEF Kind, Sub
<1>14. ASSUME NEW k
       PROVE  Kind(WriteName(k)) = <<UDS_SID_WRITE_DATA_BY_IDENTIFIER, 0, "F200 owner">>
  BY <1>6, <1>10, RequestFields DEF Kind, Sub
<1>15. ASSUME NEW d PROVE Kind(Read(d)) = <<UDS_SID_READ_DATA_BY_IDENTIFIER, 0, d>>
  BY <1>7, <1>10, RequestFields DEF Kind, Sub
<1>16. ASSUME NEW mask PROVE Kind(ReadDtc(2, mask)) = <<UDS_SID_READ_DTC, 2, "none">>
  <2>1. ReadDtc(2, mask).sid = UDS_SID_READ_DTC
    BY RequestFields, Zenon
  <2>2. ReadDtc(2, mask).did = "none" /\ ReadDtc(2, mask).sub = 2
    BY <1>8
  <2> QED BY <1>10, <2>1, <2>2 DEF Kind, Sub
<1>17. ASSUME NEW all PROVE Kind(ClearDtc(all)) = <<UDS_SID_CLEAR_DTC, 0, "none">>
  BY <1>9, <1>10, RequestFields DEF Kind, Sub
<1> QED BY <1>6, <1>11, <1>12, <1>13, <1>14, <1>15, <1>16, <1>17, Zenon

\* In the line or not: what the tools ask but the monitor.
LEMMA StrayKinds ==
    /\ Kind(Extended) \notin MonitorKinds /\ Kind(RequestSeed) \notin MonitorKinds
    /\ \A key : Kind(SendKey(key)) \notin MonitorKinds
    /\ \A k : Kind(WriteName(k)) \notin MonitorKinds
    /\ \A d : d \notin {"010C rpm", "010D speed", "0105 coolant"} => Kind(Read(d)) \notin MonitorKinds
    /\ \A mask : Kind(ReadDtc(2, mask)) \notin MonitorKinds
    /\ \A all : Kind(ClearDtc(all)) \notin MonitorKinds
    /\ \A i \in 1..3 : Kind(cmd_monitor[i]) \in MonitorKinds
<1>1. ASSUME NEW s, NEW n, NEW d, <<s, n, d>> \in MonitorKinds
      PROVE  s = UDS_SID_READ_DATA_BY_IDENTIFIER /\ d \in {"010C rpm", "010D speed", "0105 coolant"}
  <2>1. \E e \in {"010C rpm", "010D speed", "0105 coolant"} :
           <<s, n, d>> = <<UDS_SID_READ_DATA_BY_IDENTIFIER, 0, e>>
    BY <1>1, KindOf DEF MonitorKinds
  <2> QED BY <2>1
<1>2. Kind(Extended) \notin MonitorKinds
  BY <1>1, KindOf, Sids
<1>3. Kind(RequestSeed) \notin MonitorKinds
  BY <1>1, KindOf, Sids
<1>4. ASSUME NEW key PROVE Kind(SendKey(key)) \notin MonitorKinds
  BY <1>1, KindOf, Sids
<1>5. ASSUME NEW k PROVE Kind(WriteName(k)) \notin MonitorKinds
  BY <1>1, KindOf, Sids
<1>6. ASSUME NEW d, d \notin {"010C rpm", "010D speed", "0105 coolant"}
      PROVE  Kind(Read(d)) \notin MonitorKinds
  BY <1>1, <1>6, KindOf
<1>7. ASSUME NEW mask PROVE Kind(ReadDtc(2, mask)) \notin MonitorKinds
  <2>1. Kind(ReadDtc(2, mask)) = <<UDS_SID_READ_DTC, 2, "none">>
    BY KindOf, Zenon
  <2> QED BY <1>1, <2>1, Sids
<1>8. ASSUME NEW all PROVE Kind(ClearDtc(all)) \notin MonitorKinds
  BY <1>1, KindOf, Sids
<1>9. \A i \in 1..3 : Kind(cmd_monitor[i]) \in MonitorKinds
  <2>1. /\ cmd_monitor[1] = Read("010C rpm") /\ cmd_monitor[2] = Read("010D speed")
        /\ cmd_monitor[3] = Read("0105 coolant")
    BY DEF cmd_monitor
  <2>2. \A i \in 1..3 : i = 1 \/ i = 2 \/ i = 3
    OBVIOUS
  <2> QED BY <2>1, <2>2, Zenon DEF MonitorKinds
<1> QED BY <1>2, <1>3, <1>4, <1>5, <1>6, <1>7, <1>8, <1>9, Zenon

\* A script asks nothing twice ...
LEMMA KindsDiffer ==
    ASSUME NEW k, k.verb \in Verbs \ {"monitor"}, NEW seed, NEW i \in 1..Len(Script(k, seed))
    PROVE  /\ Kind(Script(k, seed)[i]) \notin MonitorKinds
           /\ \A j \in 1..Len(Script(k, seed)) :
                 j # i => Kind(Script(k, seed)[j]) # Kind(Script(k, seed)[i])
<1> DEFINE a == Kind(Extended)
           b == Kind(RequestSeed)
           c == Kind(SendKey(KeyFor(seed)))
           d == Kind(WriteName(k))
           e == Kind(ReadOwner)
<1>1. /\ a = <<UDS_SID_DIAGNOSTIC_SESSION_CONTROL, 3, "none">>
      /\ b = <<UDS_SID_SECURITY_ACCESS, 1, "none">>
      /\ c = <<UDS_SID_SECURITY_ACCESS, 2, "none">>
      /\ d = <<UDS_SID_WRITE_DATA_BY_IDENTIFIER, 0, "F200 owner">>
      /\ e = <<UDS_SID_READ_DATA_BY_IDENTIFIER, 0, "F200 owner">>
  BY KindOf DEF ReadOwner
<1>2. /\ a \notin MonitorKinds /\ b \notin MonitorKinds /\ c \notin MonitorKinds
      /\ d \notin MonitorKinds /\ e \notin MonitorKinds
  BY StrayKinds DEF ReadOwner
<1> HIDE DEF a, b, c, d, e
<1>3. a # b /\ a # c /\ a # d /\ a # e /\ b # c /\ b # d /\ b # e /\ c # d /\ c # e /\ d # e
  <2>1. /\ a[1] = UDS_SID_DIAGNOSTIC_SESSION_CONTROL
        /\ b[1] = UDS_SID_SECURITY_ACCESS /\ c[1] = UDS_SID_SECURITY_ACCESS
        /\ b[2] = 1 /\ c[2] = 2
        /\ d[1] = UDS_SID_WRITE_DATA_BY_IDENTIFIER /\ e[1] = UDS_SID_READ_DATA_BY_IDENTIFIER
    BY <1>1
  <2> QED BY <2>1, Sids
<1>4. CASE k.verb = "unlock"
  <2>1. Script(k, seed) = <<Extended, RequestSeed, SendKey(KeyFor(seed))>>
    BY <1>4, UnlockScript
  <2>2. /\ Len(Script(k, seed)) = 3
        /\ Kind(Script(k, seed)[1]) = a /\ Kind(Script(k, seed)[2]) = b /\ Kind(Script(k, seed)[3]) = c
    BY <2>1 DEF a, b, c
  <2> QED BY <1>2, <1>3, <2>2
<1>5. CASE k.verb = "write-name" /\ seed = 0
  <2>1. Script(k, seed) = <<Extended, RequestSeed, WriteName(k), ReadOwner>>
    BY <1>5, WriteUnlockedScript
  <2>2. /\ Len(Script(k, seed)) = 4
        /\ Kind(Script(k, seed)[1]) = a /\ Kind(Script(k, seed)[2]) = b /\ Kind(Script(k, seed)[3]) = d
        /\ Kind(Script(k, seed)[4]) = e
    BY <2>1 DEF a, b, d, e
  <2> QED BY <1>2, <1>3, <2>2
<1>6. CASE k.verb = "write-name" /\ seed # 0
  <2>1. Script(k, seed) = <<Extended, RequestSeed, SendKey(KeyFor(seed)), WriteName(k), ReadOwner>>
    BY <1>6, WriteLockedScript
  <2>2. /\ Len(Script(k, seed)) = 5
        /\ Kind(Script(k, seed)[1]) = a /\ Kind(Script(k, seed)[2]) = b /\ Kind(Script(k, seed)[3]) = c
        /\ Kind(Script(k, seed)[4]) = d /\ Kind(Script(k, seed)[5]) = e
    BY <2>1 DEF a, b, c, d, e
  <2> QED BY <1>2, <1>3, <2>2
<1>7. CASE k.verb \in {"read-vin", "read-serial", "read-dtc", "clear-dtc"}
  <2>1. \E r : Script(k, seed) = <<r>> /\ Kind(r) \notin MonitorKinds
    <3>1. CASE k.verb = "read-vin"
      BY <3>1, StrayKinds DEF Script
    <3>2. CASE k.verb = "read-serial"
      BY <3>2, StrayKinds DEF Script
    <3>3. CASE k.verb = "read-dtc"
      <4> DEFINE r == ReadDtc(2, {DTC_STATUS_TEST_FAILED, DTC_STATUS_CONFIRMED})
      <4>1. Script(k, seed) = <<r>>
        BY <3>3 DEF Script
      <4>2. Kind(r) \notin MonitorKinds
        BY StrayKinds, Zenon
      <4> HIDE DEF r
      <4> QED BY <4>1, <4>2
    <3>4. CASE k.verb = "clear-dtc"
      BY <3>4, StrayKinds DEF Script
    <3> QED BY <1>7, <3>1, <3>2, <3>3, <3>4
  <2>2. PICK r : Script(k, seed) = <<r>> /\ Kind(r) \notin MonitorKinds
    BY <2>1
  <2>3. Len(Script(k, seed)) = 1 /\ Script(k, seed)[1] = r
    BY <2>2
  <2> QED BY <2>2, <2>3
<1> QED BY <1>4, <1>5, <1>6, <1>7 DEF Verbs

\* ... and only the seed, at the second step, changes what is still to come.
LEMMA SeedStep ==
    ASSUME NEW k, k.verb \in Verbs \ {"monitor"}, NEW seed, NEW i \in 1..Len(Script(k, seed)),
           Script(k, seed)[i] = RequestSeed, NEW given
    PROVE  i = 2 /\ \A n \in 1..2 : Kind(Script(k, given)[n]) = Kind(Script(k, seed)[n])
<1>0. i \in Nat /\ 1 \in 1..Len(Script(k, seed))
  <2>1. Len(Script(k, seed)) \in Nat \ {0}
    BY ScriptLength
  <2> QED BY <2>1
<1>1. CASE k.verb \in {"unlock", "write-name"}
  <2>1. ASSUME NEW s
        PROVE  Len(Script(k, s)) \in Nat /\ Len(Script(k, s)) >= 2
               /\ Script(k, s)[1] = Extended /\ Script(k, s)[2] = RequestSeed
    <3>1. CASE k.verb = "unlock"
      <4>1. Script(k, s) = <<Extended, RequestSeed, SendKey(KeyFor(s))>>
        BY <3>1, UnlockScript
      <4> QED BY <4>1
    <3>2. CASE k.verb = "write-name" /\ s = 0
      <4>1. Script(k, s) = <<Extended, RequestSeed, WriteName(k), ReadOwner>>
        BY <3>2, WriteUnlockedScript
      <4> QED BY <4>1
    <3>3. CASE k.verb = "write-name" /\ s # 0
      <4>1. Script(k, s) = <<Extended, RequestSeed, SendKey(KeyFor(s)), WriteName(k), ReadOwner>>
        BY <3>3, WriteLockedScript
      <4> QED BY <4>1
    <3> QED BY <1>1, <3>1, <3>2, <3>3
  <2>2. i = 2
    <3>1. 2 \in 1..Len(Script(k, seed)) /\ Script(k, seed)[2] = RequestSeed
      BY <2>1
    <3>2. 2 # i => Kind(Script(k, seed)[2]) # Kind(Script(k, seed)[i])
      BY <3>1, KindsDiffer
    <3> QED BY <3>1, <3>2
  <2>3. Script(k, given)[1] = Script(k, seed)[1] /\ Script(k, given)[2] = Script(k, seed)[2]
    BY <2>1
  <2> QED BY <2>2, <2>3
<1>2. CASE k.verb \notin {"unlock", "write-name"}
  <2>1. PICK r : Single(r) /\ \A z : Script(k, z) = <<r>>
    BY <1>2, SingleScript
  <2>2. Script(k, seed) = <<r>>
    BY <2>1
  <2>3. i = 1 /\ r = RequestSeed
    BY <2>2
  <2>4. RequestSeed.sid = UDS_SID_SECURITY_ACCESS
    BY RequestFields
  <2> QED BY <2>1, <2>3, <2>4, Sids DEF Single
<1> QED BY <1>1, <1>2

-----------------------------------------------------------------------------
(* Lines. *)

\* The entries of a line, one by one.
Entries(L, q, b, r, e) ==
    /\ DOMAIN L = 1..(Len(q) + b + Len(e))
    /\ Len(q) \in Nat /\ Len(e) \in Nat
    /\ \A i \in 1..Len(q) : L[i] = MailKind(q[i])
    /\ b = 1 => L[Len(q) + 1] = Kind(r)
    /\ \A i \in 1..Len(e) : L[Len(q) + b + i] = Kind(e[i][2])

\* What a line is made of.
LEMMA LineEntries ==
    ASSUME NEW q \in Seq(Mail), NEW b \in {0, 1}, NEW r, NEW e \in Seq(Terminals \X Requests)
    PROVE  Entries(Lined(q, b, r, e), q, b, r, e)
<1> DEFINE a == Len(q)
           c == Len(e)
<1>1. a \in Nat /\ c \in Nat
  OBVIOUS
<1> DEFINE L == [i \in 1..(a + b + c) |->
                   IF i <= a THEN MailKind(q[i])
                   ELSE IF i <= a + b THEN Kind(r) ELSE Kind(e[i - a - b][2])]
<1>2. Lined(q, b, r, e) = L
  BY DEF Lined
<1> HIDE DEF a, c
<1>3. \A i \in 1..a : L[i] = MailKind(q[i])
  BY <1>1
<1>4. b = 1 => L[a + 1] = Kind(r)
  BY <1>1
<1>5. ASSUME NEW i \in 1..c PROVE L[a + b + i] = Kind(e[i][2])
  <2>1. a + b + i \in 1..(a + b + c) /\ ~(a + b + i <= a) /\ ~(a + b + i <= a + b)
        /\ (a + b + i) - a - b = i
    BY <1>1
  <2> QED BY <2>1
<1>6. DOMAIN L = 1..(a + b + c)
  OBVIOUS
<1> HIDE DEF L
<1> QED BY <1>1, <1>2, <1>3, <1>4, <1>5, <1>6 DEF a, c, Entries

\* Place i is one of m messages, the request in hand or one of n requests.
From(i, m, b, n) == i \in 1..m \/ (b = 1 /\ i = m + 1) \/ \E j \in 1..n : i = m + b + j

\* Where an entry of a line comes from.
LEMMA LineParts ==
    ASSUME NEW L, NEW q, NEW b \in {0, 1}, NEW r, NEW e, Entries(L, q, b, r, e), NEW i \in DOMAIN L
    PROVE  i \in Nat \ {0} /\ From(i, Len(q), b, Len(e))
<1> DEFINE a == Len(q)
           c == Len(e)
<1>1. a \in Nat /\ c \in Nat /\ i \in 1..(a + b + c)
  BY DEF Entries
<1> HIDE DEF a, c
<1>2. i \in 1..a \/ (b = 1 /\ i = a + 1) \/ (i - a - b \in 1..c /\ i = a + b + (i - a - b))
  BY <1>1
<1>3. From(i, a, b, c)
  BY <1>2 DEF From
<1> QED BY <1>1, <1>3 DEF a, c

\* The receive queue loses its first n messages.
LEMMA LineDrops ==
    ASSUME NEW q, NEW p, NEW b \in {0, 1}, NEW r, NEW e,
           NEW L1, NEW L2, Entries(L1, q, b, r, e), Entries(L2, p, b, r, e),
           NEW n \in 0..Len(q), Len(p) = Len(q) - n, \A i \in 1..Len(p) : p[i] = q[i + n]
    PROVE  Cut(L2, L1, 0, n)
<1>1. /\ DOMAIN L1 = 1..(Len(q) + b + Len(e))
      /\ Len(q) \in Nat /\ Len(e) \in Nat
      /\ \A i \in 1..Len(q) : L1[i] = MailKind(q[i])
      /\ b = 1 => L1[Len(q) + 1] = Kind(r)
      /\ \A i \in 1..Len(e) : L1[Len(q) + b + i] = Kind(e[i][2])
  BY DEF Entries
<1>2. /\ DOMAIN L2 = 1..(Len(p) + b + Len(e))
      /\ Len(p) \in Nat
      /\ \A i \in 1..Len(p) : L2[i] = MailKind(p[i])
      /\ b = 1 => L2[Len(p) + 1] = Kind(r)
      /\ \A i \in 1..Len(e) : L2[Len(p) + b + i] = Kind(e[i][2])
  BY DEF Entries
<1>3. ASSUME NEW i \in DOMAIN L2 PROVE i \in Nat \ {0} /\ i + n \in DOMAIN L1 /\ L2[i] = L1[i + n]
  <2>0. i \in Nat \ {0} /\ From(i, Len(p), b, Len(e))
    BY LineParts
  <2>1. /\ i \in Nat \ {0}
        /\ i \in 1..Len(p) \/ (b = 1 /\ i = Len(p) + 1) \/ \E j \in 1..Len(e) : i = Len(p) + b + j
    BY <2>0 DEF From
  <2>2. i + n \in DOMAIN L1
    BY <1>1, <1>2
  <2>3. CASE i \in 1..Len(p)
    <3>1. i + n \in 1..Len(q)
      BY <1>1, <1>2, <2>3
    <3> QED BY <1>1, <1>2, <2>1, <2>2, <2>3, <3>1
  <2>4. CASE b = 1 /\ i = Len(p) + 1
    <3>1. i + n = Len(q) + 1
      BY <1>1, <1>2, <2>4
    <3> QED BY <1>1, <1>2, <2>1, <2>2, <2>4, <3>1
  <2>5. ASSUME NEW j \in 1..Len(e), i = Len(p) + b + j PROVE L2[i] = L1[i + n]
    <3>1. i + n = Len(q) + b + j
      BY <1>1, <1>2, <2>5
    <3> QED BY <1>1, <1>2, <2>5, <3>1
  <2> QED BY <2>1, <2>2, <2>3, <2>4, <2>5
<1> QED BY <1>3 DEF Cut

\* The dispatcher takes the first request.
LEMMA LineTaken ==
    ASSUME NEW q, NEW r, NEW e \in Seq(Terminals \X Requests), e # <<>>,
           NEW L1, NEW L2, Entries(L1, q, 0, r, e), Entries(L2, q, 1, Head(e)[2], Tail(e))
    PROVE  Cut(L2, L1, 0, 0)
<1> DEFINE f == Tail(e)
<1>0. /\ f \in Seq(Terminals \X Requests) /\ Len(f) = Len(e) - 1
      /\ \A i \in 1..Len(f) : f[i] = e[i + 1]
      /\ Head(e) = e[1] /\ Len(e) \in Nat \ {0}
  BY HeadTailProperties, EmptySeq
<1>a. Entries(L2, q, 1, Head(e)[2], f)
  OBVIOUS
<1> HIDE DEF f
<1>1. /\ DOMAIN L1 = 1..(Len(q) + 0 + Len(e))
      /\ Len(q) \in Nat /\ Len(e) \in Nat
      /\ \A i \in 1..Len(q) : L1[i] = MailKind(q[i])
      /\ \A i \in 1..Len(e) : L1[Len(q) + 0 + i] = Kind(e[i][2])
  BY DEF Entries
<1>2. /\ DOMAIN L2 = 1..(Len(q) + 1 + Len(f))
      /\ Len(f) \in Nat
      /\ \A i \in 1..Len(q) : L2[i] = MailKind(q[i])
      /\ L2[Len(q) + 1] = Kind(e[1][2])
      /\ \A i \in 1..Len(f) : L2[Len(q) + 1 + i] = Kind(f[i][2])
  BY <1>0, <1>a DEF Entries
<1>3. ASSUME NEW i \in DOMAIN L2 PROVE i \in Nat \ {0} /\ i \in DOMAIN L1 /\ L2[i] = L1[i]
  <2>0. i \in Nat \ {0} /\ From(i, Len(q), 1, Len(f))
    BY <1>a, LineParts
  <2>1. /\ i \in Nat \ {0}
        /\ i \in 1..Len(q) \/ i = Len(q) + 1 \/ \E j \in 1..Len(f) : i = Len(q) + 1 + j
    BY <2>0 DEF From
  <2>2. i \in DOMAIN L1
    BY <1>0, <1>1, <1>2
  <2>3. CASE i \in 1..Len(q)
    BY <1>1, <1>2, <2>1, <2>2, <2>3
  <2>4. CASE i = Len(q) + 1
    <3>1. i = Len(q) + 0 + 1 /\ 1 \in 1..Len(e)
      BY <1>0, <1>1, <2>4
    <3> QED BY <1>1, <1>2, <2>1, <2>2, <2>4, <3>1
  <2>5. ASSUME NEW j \in 1..Len(f), i = Len(q) + 1 + j PROVE L2[i] = L1[i]
    <3>1. i = Len(q) + 0 + (j + 1) /\ j + 1 \in 1..Len(e)
      BY <1>0, <1>1, <1>2, <2>5
    <3>2. L1[i] = Kind(e[j + 1][2])
      BY <1>1, <3>1
    <3>3. L2[i] = Kind(f[j][2])
      BY <1>2, <2>5
    <3> QED BY <1>0, <3>2, <3>3
  <2> QED BY <2>1, <2>2, <2>3, <2>4, <2>5
<1> QED BY <1>3 DEF Cut

\* Its answer is received ...
LEMMA LineAnswered ==
    ASSUME NEW q \in Seq(Mail), NEW r, NEW s, NEW e, NEW m \in Mail, MailKind(m) = Kind(r),
           NEW L1, NEW L2, Entries(L1, q, 1, r, e), Entries(L2, Append(q, m), 0, s, e)
    PROVE  Cut(L2, L1, 0, 0)
<1> DEFINE p == Append(q, m)
<1>0. /\ p \in Seq(Mail) /\ Len(p) = Len(q) + 1
      /\ \A i \in 1..Len(q) : p[i] = q[i]
      /\ p[Len(q) + 1] = m
  BY AppendProperties
<1>a. Entries(L2, p, 0, s, e)
  OBVIOUS
<1> HIDE DEF p
<1>1. /\ DOMAIN L1 = 1..(Len(q) + 1 + Len(e))
      /\ Len(q) \in Nat /\ Len(e) \in Nat
      /\ \A i \in 1..Len(q) : L1[i] = MailKind(q[i])
      /\ L1[Len(q) + 1] = Kind(r)
      /\ \A i \in 1..Len(e) : L1[Len(q) + 1 + i] = Kind(e[i][2])
  BY DEF Entries
<1>2. /\ DOMAIN L2 = 1..(Len(p) + 0 + Len(e))
      /\ Len(p) \in Nat
      /\ \A i \in 1..Len(p) : L2[i] = MailKind(p[i])
      /\ \A i \in 1..Len(e) : L2[Len(p) + 0 + i] = Kind(e[i][2])
  BY <1>a DEF Entries
<1>3. ASSUME NEW i \in DOMAIN L2 PROVE i \in Nat \ {0} /\ i \in DOMAIN L1 /\ L2[i] = L1[i]
  <2>0. i \in Nat \ {0} /\ From(i, Len(p), 0, Len(e))
    BY <1>a, LineParts
  <2>1. /\ i \in Nat \ {0}
        /\ i \in 1..Len(p) \/ \E j \in 1..Len(e) : i = Len(p) + 0 + j
    BY <2>0 DEF From
  <2>2. i \in DOMAIN L1
    BY <1>0, <1>1, <1>2
  <2>3. CASE i \in 1..Len(q)
    <3>1. i \in 1..Len(p)
      BY <1>0, <1>1, <2>3
    <3> QED BY <1>0, <1>1, <1>2, <2>1, <2>2, <2>3, <3>1
  <2>4. CASE i = Len(q) + 1
    <3>1. i \in 1..Len(p)
      BY <1>0, <1>1, <2>4
    <3> QED BY <1>0, <1>1, <1>2, <2>1, <2>2, <2>4, <3>1
  <2>5. ASSUME NEW j \in 1..Len(e), i = Len(p) + 0 + j PROVE L2[i] = L1[i]
    <3>1. i = Len(q) + 1 + j
      BY <1>0, <1>1, <1>2, <2>5
    <3> QED BY <1>1, <1>2, <2>5, <3>1
  <2>6. i \in 1..Len(p) => i \in 1..Len(q) \/ i = Len(q) + 1
    BY <1>0, <1>1
  <2> QED BY <2>1, <2>2, <2>3, <2>4, <2>5, <2>6
<1> QED BY <1>3 DEF Cut

\* ... or is not.
LEMMA LineLost ==
    ASSUME NEW q, NEW r, NEW s, NEW e,
           NEW L1, NEW L2, Entries(L1, q, 1, r, e), Entries(L2, q, 0, s, e)
    PROVE  Cut(L2, L1, Len(q), 1)
<1>1. /\ DOMAIN L1 = 1..(Len(q) + 1 + Len(e))
      /\ Len(q) \in Nat /\ Len(e) \in Nat
      /\ \A i \in 1..Len(q) : L1[i] = MailKind(q[i])
      /\ \A i \in 1..Len(e) : L1[Len(q) + 1 + i] = Kind(e[i][2])
  BY DEF Entries
<1>2. /\ DOMAIN L2 = 1..(Len(q) + 0 + Len(e))
      /\ \A i \in 1..Len(q) : L2[i] = MailKind(q[i])
      /\ \A i \in 1..Len(e) : L2[Len(q) + 0 + i] = Kind(e[i][2])
  BY DEF Entries
<1>3. ASSUME NEW i \in DOMAIN L2
      PROVE  /\ i \in Nat \ {0}
             /\ i <= Len(q) => i \in DOMAIN L1 /\ L2[i] = L1[i]
             /\ ~(i <= Len(q)) => i + 1 \in DOMAIN L1 /\ L2[i] = L1[i + 1]
  <2>0. i \in Nat \ {0} /\ From(i, Len(q), 0, Len(e))
    BY LineParts
  <2>1. /\ i \in Nat \ {0}
        /\ i \in 1..Len(q) \/ \E j \in 1..Len(e) : i = Len(q) + 0 + j
    BY <2>0 DEF From
  <2>2. i \in DOMAIN L1 /\ i + 1 \in DOMAIN L1
    BY <1>1, <1>2
  <2>3. CASE i \in 1..Len(q)
    BY <1>1, <1>2, <2>1, <2>2, <2>3
  <2>5. ASSUME NEW j \in 1..Len(e), i = Len(q) + 0 + j PROVE L2[i] = L1[i + 1] /\ ~(i <= Len(q))
    <3>1. i + 1 = Len(q) + 1 + j /\ ~(i <= Len(q))
      BY <1>1, <1>2, <2>5
    <3> QED BY <1>1, <1>2, <2>5, <3>1
  <2> QED BY <2>1, <2>2, <2>3, <2>5
<1>4. DOMAIN L2 \subseteq Nat
  BY <1>3
<1> QED BY <1>1, <1>3, <1>4 DEF Cut

\* A request is sent.
LEMMA LineSent ==
    ASSUME NEW q, NEW b \in {0, 1}, NEW r, NEW e \in Seq(Terminals \X Requests),
           NEW p \in Terminals \X Requests,
           NEW L1, NEW L2, Entries(L1, q, b, r, e), Entries(L2, q, b, r, Append(e, p))
    PROVE  Longer(L2, L1, Kind(p[2]))
<1> DEFINE f == Append(e, p)
           n == Len(q) + b + Len(e)
<1>0. /\ f \in Seq(Terminals \X Requests) /\ Len(f) = Len(e) + 1
      /\ \A i \in 1..Len(e) : f[i] = e[i]
      /\ f[Len(e) + 1] = p
  BY AppendProperties
<1>a. Entries(L2, q, b, r, f)
  OBVIOUS
<1> HIDE DEF f
<1>1. /\ DOMAIN L1 = 1..(Len(q) + b + Len(e))
      /\ Len(q) \in Nat /\ Len(e) \in Nat
      /\ \A i \in 1..Len(q) : L1[i] = MailKind(q[i])
      /\ b = 1 => L1[Len(q) + 1] = Kind(r)
      /\ \A i \in 1..Len(e) : L1[Len(q) + b + i] = Kind(e[i][2])
  BY DEF Entries
<1>2. /\ DOMAIN L2 = 1..(Len(q) + b + Len(f))
      /\ Len(f) \in Nat
      /\ \A i \in 1..Len(q) : L2[i] = MailKind(q[i])
      /\ b = 1 => L2[Len(q) + 1] = Kind(r)
      /\ \A i \in 1..Len(f) : L2[Len(q) + b + i] = Kind(f[i][2])
  BY <1>a DEF Entries
<1>3. ASSUME NEW i \in DOMAIN L1 PROVE L2[i] = L1[i]
  <2>0. i \in Nat \ {0} /\ From(i, Len(q), b, Len(e))
    BY LineParts
  <2>1. /\ i \in Nat \ {0}
        /\ i \in 1..Len(q) \/ (b = 1 /\ i = Len(q) + 1) \/ \E j \in 1..Len(e) : i = Len(q) + b + j
    BY <2>0 DEF From
  <2>3. CASE i \in 1..Len(q)
    BY <1>1, <1>2, <2>3
  <2>4. CASE b = 1 /\ i = Len(q) + 1
    BY <1>1, <1>2, <2>4
  <2>5. ASSUME NEW j \in 1..Len(e), i = Len(q) + b + j PROVE L2[i] = L1[i]
    <3>1. j \in 1..Len(f) /\ f[j] = e[j]
      BY <1>0, <1>1
    <3> QED BY <1>1, <1>2, <2>5, <3>1
  <2> QED BY <2>1, <2>3, <2>4, <2>5
<1>4. L2[Len(q) + b + Len(f)] = Kind(p[2])
  <2>1. Len(f) \in 1..Len(f)
    BY <1>0, <1>1
  <2> QED BY <1>0, <1>2, <2>1
<1>5. n \in Nat /\ Len(q) + b + Len(f) = n + 1
  BY <1>0, <1>1
<1> HIDE DEF n
<1>6. DOMAIN L1 = 1..n /\ DOMAIN L2 = 1..(n + 1) /\ L2[n + 1] = Kind(p[2])
  BY <1>1, <1>2, <1>4, <1>5 DEF n
<1> QED BY <1>3, <1>5, <1>6 DEF Longer

-----------------------------------------------------------------------------
(* Lags. *)

\* Less in the line.
LEMMA LagCut ==
    ASSUME NEW v, NEW L1, NEW L2, NEW a \in Nat, NEW n \in Nat, Cut(L2, L1, a, n), NEW o, LagOf(v,
           L1, o)
    PROVE  LagOf(v, L2, o)
BY RankedCut DEF LagOf

\* More late commands.
LEMMA LagMore ==
    ASSUME NEW t, NEW v, GoodInvocation(t, v), NEW L, NEW o \in Nat, NEW p \in Nat, o <= p,
           LagOf(v, L, o)
    PROVE  LagOf(v, L, p)
<1>1. CASE Live(v) /\ v.cmd.verb # "monitor"
  <2>1. v.step \in Nat \ {0}
    BY <1>1 DEF GoodInvocation, InvocationType
  <2> DEFINE hi == IF v.status = WAITING THEN v.step ELSE v.step - 1
  <2>2. hi \in Int /\ Low(o, v.step) \in Int /\ Low(p, v.step) \in Int /\ Low(p, v.step) <= Low(o, v.step)
    <3>1. Low(o, v.step) \in Int /\ \A n \in Nat : o <= n => Low(n, v.step) <= Low(o, v.step)
      BY <2>1, LowBounds
    <3>2. Low(p, v.step) \in Int
      BY <2>1, LowBounds
    <3> QED BY <2>1, <3>1, <3>2
  <2>3. Ranked(L, Low(o, v.step), hi, Steps(v))
    BY <1>1 DEF LagOf
  <2> HIDE DEF hi
  <2>4. Ranked(L, Low(p, v.step), hi, Steps(v))
    BY <2>2, <2>3, RankedWider
  <2> QED BY <1>1, <2>4 DEF LagOf, hi
<1>2. CASE ~(Live(v) /\ v.cmd.verb # "monitor")
  <2>1. Ranked(L, 0 - o, 0, <<>>)
    BY <1>2 DEF LagOf
  <2>2. 0 - o \in Int /\ 0 - p \in Int /\ 0 - p <= 0 - o
    OBVIOUS
  <2>3. Ranked(L, 0 - p, 0, <<>>)
    BY <2>1, <2>2, RankedWider
  <2> QED BY <1>2, <2>3 DEF LagOf
<1> QED BY <1>1, <1>2

\* The monitor asks.
LEMMA LagMonitor ==
    ASSUME NEW v, NEW L1, NEW L2, NEW k \in MonitorKinds, Longer(L2, L1, k), NEW o, LagOf(v, L1, o)
    PROVE  LagOf(v, L2, o)
BY RankedMonitor DEF LagOf

\* The command ends, or is the monitor.
LEMMA LagEnds ==
    ASSUME NEW t, NEW v, GoodInvocation(t, v), NEW L, NEW o \in Nat, LagOf(v, L, o),
           NEW u, ~(Live(u) /\ u.cmd.verb # "monitor")
    PROVE  LagOf(u, L, o)
<1>1. CASE Live(v) /\ v.cmd.verb # "monitor"
  <2>1. v.step \in Nat \ {0}
    BY <1>1 DEF GoodInvocation, InvocationType
  <2> DEFINE hi == IF v.status = WAITING THEN v.step ELSE v.step - 1
             s == v.step
             lo == Low(o, s)
  <2>2. hi \in Int /\ lo \in Int /\ hi - lo <= o
    <3>1. lo \in Int /\ s - lo <= o
      BY <2>1, LowBounds
    <3> HIDE DEF lo
    <3> QED BY <2>1, <3>1
  <2>3. Ranked(L, lo, hi, Steps(v))
    BY <1>1 DEF LagOf
  <2> HIDE DEF hi, lo
  <2>4. Ranked(L, 0 - o, 0, <<>>)
    BY <2>2, <2>3, RankedForget
  <2> QED BY <2>4 DEF LagOf
<1>2. CASE ~(Live(v) /\ v.cmd.verb # "monitor")
  BY <1>2 DEF LagOf
<1> QED BY <1>1, <1>2

\* The command's request goes out, or is lost
LEMMA LagSends ==
    ASSUME NEW t, NEW v, GoodInvocation(t, v), v.status = SENDING, v.cmd.verb # "monitor",
           NEW x, x.cmd = v.cmd, x.step = v.step, x.seed = v.seed, x.status = WAITING,
           NEW L1, NEW L2, L2 = L1 \/ Longer(L2, L1, Kind(Current(v))), NEW o \in Nat, LagOf(v, L1, o)
    PROVE  LagOf(x, L2, o)
<1> DEFINE s == v.step
           S == Steps(v)
           lo == Low(o, s)
<1>0. Live(v) /\ Live(x) /\ SENDING # WAITING
  BY DEF Live, SENDING, WAITING
<1>1. s \in Nat \ {0}
  BY <1>0 DEF GoodInvocation, InvocationType
<1>2. lo \in Int /\ lo <= s
  BY <1>1, LowBounds
<1>3. Ranked(L1, lo, s - 1, S)
  BY <1>0 DEF LagOf
<1>4. Steps(x) = S
  BY DEF Steps
<1>5. Current(v) = S[s]
  BY DEF Current
<1> HIDE DEF s, S, lo
<1>6. Ranked(L2, lo, s, S)
  <2>1. CASE Longer(L2, L1, Kind(Current(v)))
    BY <1>1, <1>2, <1>3, <1>5, <2>1, RankedAppend
  <2>2. CASE L2 = L1
    <3>1. s - 1 \in Int /\ s - 1 <= s /\ s \in Int
      BY <1>1
    <3> QED BY <1>2, <1>3, <2>2, <3>1, RankedWider
  <2> QED BY <2>1, <2>2
<1> QED BY <1>0, <1>4, <1>6 DEF LagOf, s, S, lo

\* The answer is taken and the next request is due.
LEMMA LagAccepts ==
    ASSUME NEW t \in Terminals, NEW v, GoodInvocation(t, v), v.status = WAITING,
           v.cmd.verb # "monitor",
           NEW x, x.cmd = v.cmd, x.step = v.step + 1, x.status = SENDING,
           x.seed = v.seed \/ Current(v) = RequestSeed,
           NEW L1, NEW L2, DOMAIN L1 \subseteq Nat \ {0}, 1 \in DOMAIN L1, Cut(L2, L1, 0, 1),
           L1[1] = Kind(Current(v)), NEW o \in Nat, LagOf(v, L1, o)
    PROVE  LagOf(x, L2, o)
<1> DEFINE s == v.step
           S == Steps(v)
<1>0. Live(v) /\ Live(x) /\ SENDING # WAITING
  BY DEF Live, SENDING, WAITING
<1>1. s \in Nat \ {0} /\ s \in 1..Len(S) /\ v.cmd \in Commands(t) /\ Len(S) \in Nat
  <2>1. v.cmd \in Commands(t) /\ s \in 1..Len(S) /\ s \in Nat
    BY <1>0 DEF GoodInvocation, InvocationType
  <2>2. Len(S) \in Nat
    BY <2>1, ScriptLength, CommandsAssumption DEF Steps
  <2> HIDE DEF S
  <2> QED BY <2>1, <2>2
<1>2. v.cmd.verb \in Verbs \ {"monitor"}
  BY <1>1, CommandsAssumption
<1>3. Current(v) = S[s] /\ S = Script(v.cmd, v.seed)
  BY DEF Current, Steps
<1>4. Ranked(L1, Low(o, s), s, S)
  BY <1>0 DEF LagOf
<1> HIDE DEF s, S
<1>5. /\ Kind(S[s]) \notin MonitorKinds
      /\ \A j \in 1..Len(S) : j # s => Kind(S[j]) # Kind(S[s])
  BY <1>1, <1>2, <1>3, KindsDiffer
<1>6. \A n \in 1..(s - 1) : Kind(S[n]) # Kind(S[s])
  <2>1. \A n \in 1..(s - 1) : n \in 1..Len(S) /\ n # s
    BY <1>1
  <2> QED BY <1>5, <2>1
<1>7. Ranked(L2, Low(o, s + 1), s, S)
  BY <1>1, <1>3, <1>4, <1>5, <1>6, RankedAccept
<1>8. \A n \in 1..s : Kind(S[n]) = Kind(Steps(x)[n])
  <2>1. CASE x.seed = v.seed
    BY <1>3, <2>1 DEF Steps
  <2>2. CASE Current(v) = RequestSeed
    <3>1. s = 2 /\ \A n \in 1..2 : Kind(Script(v.cmd, x.seed)[n]) = Kind(Script(v.cmd, v.seed)[n])
      BY <1>1, <1>2, <1>3, <2>2, SeedStep
    <3> QED BY <1>3, <3>1 DEF Steps
  <2> QED BY <2>1, <2>2
<1>9. Ranked(L2, Low(o, s + 1), s, Steps(x))
  <2>1. Low(o, s + 1) \in Int /\ s \in Int
    BY <1>1, LowBounds
  <2> QED BY <1>7, <1>8, <2>1, RankedWider
<1>10. x.step - 1 = s /\ x.step = s + 1
  BY <1>1 DEF s
<1> QED BY <1>0, <1>9, <1>10 DEF LagOf

\* A new command
LEMMA LagStarts ==
    ASSUME NEW t, NEW v, ~Live(v), NEW x, x.step = 1, x.status = SENDING,
           NEW L, NEW o \in Nat, LagOf(v, L, o), NEW p \in Nat,
           p = o + 1 \/ (p = o /\ Strays(L) = {})
    PROVE  LagOf(x, L, p)
<1>1. Ranked(L, 0 - o, 0, <<>>)
  BY DEF LagOf
<1>2. Low(p, 1) = 1 - p /\ SENDING # WAITING
  BY LowBounds DEF SENDING, WAITING
<1>3. Ranked(L, 1 - p, 0, Steps(x))
  <2>1. CASE p = o + 1
    <3>1. 0 - o \in Int /\ 1 - p \in Int /\ 1 - p <= 0 - o
      BY <2>1
    <3> QED BY <1>1, <3>1, RankedWider
  <2>2. CASE Strays(L) = {}
    BY <2>2, RankedNone
  <2> QED BY <2>1, <2>2
<1>4. CASE x.cmd.verb # "monitor"
  <2>1. x.step - 1 = 0
    OBVIOUS
  <2> QED BY <1>2, <1>3, <1>4, <2>1 DEF LagOf, Live
<1>5. CASE x.cmd.verb = "monitor"
  <2>1. 0 - o \in Int /\ 0 - p \in Int /\ 0 - p <= 0 - o
    OBVIOUS
  <2>2. Ranked(L, 0 - p, 0, <<>>)
    BY <1>1, <2>1, RankedWider
  <2> QED BY <1>5, <2>2 DEF LagOf
<1> QED BY <1>4, <1>5

-----------------------------------------------------------------------------
(* Requests and outcomes. *)

\* What the tools send.
Shape(r) ==
    \/ r = Extended
    \/ r = RequestSeed
    \/ \E key : r = SendKey(key)
    \/ \E k : r = WriteName(k)
    \/ \E d : r = Read(d)
    \/ \E mask : r = ReadDtc(2, mask)
    \/ r = ClearDtc(TRUE)

\* Every request of a script has one of these shapes.
LEMMA ScriptShapes ==
    ASSUME NEW k, k.verb \in Verbs, NEW seed, NEW i \in 1..Len(Script(k, seed))
    PROVE  Shape(Script(k, seed)[i])
<1>1. /\ Shape(Extended) /\ Shape(RequestSeed) /\ Shape(SendKey(KeyFor(seed))) /\ Shape(WriteName(k))
      /\ Shape(ClearDtc(TRUE))
  BY Zenon DEF Shape
<1>2. ASSUME NEW d PROVE Shape(Read(d))
  BY Zenon DEF Shape
<1>3. ASSUME NEW mask PROVE Shape(ReadDtc(2, mask))
  BY Zenon DEF Shape
<1>4. CASE k.verb = "unlock"
  <2>1. Script(k, seed) = <<Extended, RequestSeed, SendKey(KeyFor(seed))>>
    BY <1>4, UnlockScript
  <2> QED BY <1>1, <2>1
<1>5. CASE k.verb = "write-name" /\ seed = 0
  <2>1. Script(k, seed) = <<Extended, RequestSeed, WriteName(k), ReadOwner>>
    BY <1>5, WriteUnlockedScript
  <2>2. Shape(ReadOwner)
    BY <1>2 DEF ReadOwner
  <2> QED BY <1>1, <2>1, <2>2
<1>6. CASE k.verb = "write-name" /\ seed # 0
  <2>1. Script(k, seed) = <<Extended, RequestSeed, SendKey(KeyFor(seed)), WriteName(k), ReadOwner>>
    BY <1>6, WriteLockedScript
  <2>2. Shape(ReadOwner)
    BY <1>2 DEF ReadOwner
  <2> QED BY <1>1, <2>1, <2>2
<1>7. CASE k.verb = "monitor"
  <2>1. Script(k, seed) = cmd_monitor /\ Len(cmd_monitor) = 3
    BY <1>7, ScriptLength DEF cmd_monitor
  <2>2. /\ cmd_monitor[1] = Read("010C rpm") /\ cmd_monitor[2] = Read("010D speed")
        /\ cmd_monitor[3] = Read("0105 coolant")
    BY DEF cmd_monitor
  <2>3. Shape(cmd_monitor[1]) /\ Shape(cmd_monitor[2]) /\ Shape(cmd_monitor[3])
    BY <1>2, <2>2
  <2>4. i = 1 \/ i = 2 \/ i = 3
    BY <2>1
  <2> QED BY <2>1, <2>3, <2>4
<1>8. CASE k.verb \in {"read-vin", "read-serial", "read-dtc", "clear-dtc"}
  <2>1. \E r : Script(k, seed) = <<r>> /\ Shape(r)
    <3>1. CASE k.verb = "read-vin"
      BY <1>2, <3>1 DEF Script
    <3>2. CASE k.verb = "read-serial"
      BY <1>2, <3>2 DEF Script
    <3>3. CASE k.verb = "read-dtc"
      <4> DEFINE r == ReadDtc(2, {DTC_STATUS_TEST_FAILED, DTC_STATUS_CONFIRMED})
      <4>1. Script(k, seed) = <<r>>
        BY <3>3 DEF Script
      <4>2. Shape(r)
        BY <1>3
      <4> HIDE DEF r
      <4> QED BY <4>1, <4>2
    <3>4. CASE k.verb = "clear-dtc"
      BY <1>1, <3>4 DEF Script
    <3> QED BY <1>8, <3>1, <3>2, <3>3, <3>4
  <2>2. PICK r : Script(k, seed) = <<r>> /\ Shape(r)
    BY <2>1
  <2> QED BY <2>2
<1> QED BY <1>4, <1>5, <1>6, <1>7, <1>8 DEF Verbs

\* The parts of a kind.
LEMMA KindParts ==
    ASSUME NEW r, NEW a, NEW b, NEW c, Kind(r) = <<a, b, c>>
    PROVE  r.sid = a /\ Sub(r) = b /\ r.did = c
<1>1. <<r.sid, Sub(r), r.did>> = <<a, b, c>>
  BY DEF Kind
<1> QED BY <1>1

\* What the handlers find in it.
LEMMA ShapeFields ==
    ASSUME NEW r, Shape(r)
    PROVE  /\ r.sid \in {UDS_SID_DIAGNOSTIC_SESSION_CONTROL, UDS_SID_SECURITY_ACCESS,
                         UDS_SID_WRITE_DATA_BY_IDENTIFIER, UDS_SID_READ_DATA_BY_IDENTIFIER,
                         UDS_SID_READ_DTC, UDS_SID_CLEAR_DTC}
           /\ r.sid = UDS_SID_DIAGNOSTIC_SESSION_CONTROL => Sub(r) = UDS_SESSION_EXTENDED
           /\ r.sid = UDS_SID_SECURITY_ACCESS => Sub(r) \in {1, 2}
           /\ r.sid \in {UDS_SID_WRITE_DATA_BY_IDENTIFIER, UDS_SID_CLEAR_DTC} => Sub(r) = 0
           /\ r.sid = UDS_SID_WRITE_DATA_BY_IDENTIFIER => r.did = "F200 owner"
           /\ r.sid = UDS_SID_READ_DATA_BY_IDENTIFIER => r = Read(r.did)
<1> DEFINE Goal == /\ r.sid \in {UDS_SID_DIAGNOSTIC_SESSION_CONTROL, UDS_SID_SECURITY_ACCESS,
                         UDS_SID_WRITE_DATA_BY_IDENTIFIER, UDS_SID_READ_DATA_BY_IDENTIFIER,
                         UDS_SID_READ_DTC, UDS_SID_CLEAR_DTC}
                   /\ r.sid = UDS_SID_DIAGNOSTIC_SESSION_CONTROL => Sub(r) = UDS_SESSION_EXTENDED
                   /\ r.sid = UDS_SID_SECURITY_ACCESS => Sub(r) \in {1, 2}
                   /\ r.sid \in {UDS_SID_WRITE_DATA_BY_IDENTIFIER, UDS_SID_CLEAR_DTC} => Sub(r) = 0
                   /\ r.sid = UDS_SID_WRITE_DATA_BY_IDENTIFIER => r.did = "F200 owner"
                   /\ r.sid = UDS_SID_READ_DATA_BY_IDENTIFIER => r = Read(r.did)
<1>1. ASSUME r = Extended PROVE Goal
  <2>1. Kind(r) = <<UDS_SID_DIAGNOSTIC_SESSION_CONTROL, 3, "none">>
    BY <1>1, KindOf
  <2>2. r.sid = UDS_SID_DIAGNOSTIC_SESSION_CONTROL /\ Sub(r) = UDS_SESSION_EXTENDED
    BY <2>1, KindParts DEF UDS_SESSION_EXTENDED
  <2> QED BY <2>2, Sids
<1>2. ASSUME r = RequestSeed PROVE Goal
  <2>1. Kind(r) = <<UDS_SID_SECURITY_ACCESS, 1, "none">>
    BY <1>2, KindOf
  <2>2. r.sid = UDS_SID_SECURITY_ACCESS /\ Sub(r) = 1
    BY <2>1, KindParts
  <2> QED BY <2>2, Sids
<1>8. ASSUME NEW key, r = SendKey(key) PROVE Goal
  <2>1. Kind(r) = <<UDS_SID_SECURITY_ACCESS, 2, "none">>
    BY <1>8, KindOf, Zenon
  <2>2. r.sid = UDS_SID_SECURITY_ACCESS /\ Sub(r) = 2
    BY <2>1, KindParts
  <2> QED BY <2>2, Sids
<1>3. ASSUME NEW k, r = WriteName(k) PROVE Goal
  <2>1. Kind(r) = <<UDS_SID_WRITE_DATA_BY_IDENTIFIER, 0, "F200 owner">>
    BY <1>3, KindOf, Zenon
  <2>2. r.sid = UDS_SID_WRITE_DATA_BY_IDENTIFIER /\ Sub(r) = 0 /\ r.did = "F200 owner"
    BY <2>1, KindParts
  <2> QED BY <2>2, Sids
<1>4. ASSUME NEW d, r = Read(d) PROVE Goal
  <2>1. Kind(r) = <<UDS_SID_READ_DATA_BY_IDENTIFIER, 0, d>>
    BY <1>4, KindOf, Zenon
  <2>2. r.sid = UDS_SID_READ_DATA_BY_IDENTIFIER /\ r.did = d
    BY <2>1, KindParts
  <2> QED BY <1>4, <2>2, Sids
<1>5. ASSUME NEW mask, r = ReadDtc(2, mask) PROVE Goal
  <2>1. Kind(r) = <<UDS_SID_READ_DTC, 2, "none">>
    BY <1>5, KindOf, Zenon
  <2>2. r.sid = UDS_SID_READ_DTC
    BY <2>1, KindParts
  <2>3. UDS_SID_READ_DTC # UDS_SID_CLEAR_DTC
    BY DEF UDS_SID_READ_DTC, UDS_SID_CLEAR_DTC
  <2> QED BY <2>2, <2>3, Sids
<1>6. ASSUME r = ClearDtc(TRUE) PROVE Goal
  <2>1. Kind(r) = <<UDS_SID_CLEAR_DTC, 0, "none">>
    BY <1>6, KindOf, Zenon
  <2>2. r.sid = UDS_SID_CLEAR_DTC /\ Sub(r) = 0
    BY <2>1, KindParts
  <2> QED BY <2>2, Sids
<1> HIDE DEF Goal
<1>7. Goal
  BY <1>1, <1>2, <1>3, <1>4, <1>5, <1>6, <1>8, Zenon DEF Shape
<1> QED BY <1>7 DEF Goal

\* Requests of a script of terminal t; the monitor's do not stray.
LEMMA FromScriptFacts ==
    ASSUME NEW t \in Terminals, NEW r, FromScript(t, r)
    PROVE  /\ Shape(r)
           /\ \A w \in Terminals : OnlyWriter(w) /\ t # w => Kind(r) \in MonitorKinds
<1>1. PICK k \in Commands(t), seed \in GivenSeeds :
         \E i \in 1..Len(Script(k, seed)) : r = Script(k, seed)[i]
  BY DEF FromScript
<1>2. PICK i \in 1..Len(Script(k, seed)) : r = Script(k, seed)[i]
  BY <1>1
<1>3. k.verb \in Verbs
  BY CommandsAssumption
<1>4. ASSUME NEW w \in Terminals, OnlyWriter(w), t # w PROVE Kind(r) \in MonitorKinds
  <2>1. k.verb = "monitor"
    BY <1>4 DEF OnlyWriter
  <2>2. Script(k, seed) = cmd_monitor /\ Len(cmd_monitor) = 3
    BY <1>3, <2>1, ScriptLength DEF cmd_monitor
  <2>3. i \in 1..3 /\ r = cmd_monitor[i]
    BY <1>2, <2>2
  <2> QED BY <2>3, StrayKinds
<1> QED BY <1>2, <1>3, <1>4, ScriptShapes

\* The tool's current request is of a script.
LEMMA CurrentFromScript ==
    ASSUME NEW t \in Terminals, NEW v, GoodInvocation(t, v), Live(v)
    PROVE  FromScript(t, Current(v)) /\ Shape(Current(v))
<1>1. /\ v.cmd \in Commands(t) /\ v.seed \in GivenSeeds /\ v.step \in 1..Len(Script(v.cmd, v.seed))
      /\ Current(v) = Script(v.cmd, v.seed)[v.step]
  BY DEF GoodInvocation, InvocationType, Steps, Current
<1>2. FromScript(t, Current(v))
  BY <1>1 DEF FromScript
<1> QED BY <1>2, FromScriptFacts

-----------------------------------------------------------------------------
(* security.c *)

\* requestSeed neither counts a failure nor unlocks, and a seed it gives is the one that is pending
LEMMA SeedOutcome ==
    ASSUME NEW s \in SecurityState, NEW t, NEW raw \in Entropy
    PROVE  LET out == security_request_seed(s, 1, t, raw)
           IN  /\ out.st.unlocked_level = s.unlocked_level
               /\ s.fail_count = 0 => out.st.fail_count = 0
               /\ out.rc = FAILED => out.nrc # NO_NRC /\ out.st = s
               /\ out.rc # FAILED /\ out.st.seed_issued => out.st.pending_seed = out.seed
<1> DEFINE out == security_request_seed(s, 1, t, raw)
<1>1. CASE s.unlocked_level >= 1
  <2>1. out.st = [s EXCEPT !.seed_issued = FALSE] /\ out.rc = ALREADY_UNLOCKED
    BY <1>1 DEF security_request_seed, level_supported
  <2> HIDE DEF out
  <2>2. out.st.unlocked_level = s.unlocked_level /\ out.st.fail_count = s.fail_count /\ ~out.st.seed_issued
    BY <2>1 DEF SecurityState
  <2> QED BY <2>1, <2>2 DEF out, ALREADY_UNLOCKED, FAILED
<1>2. CASE ~(s.unlocked_level >= 1) /\ LockedOut(s, t)
  <2>1. out = Refused(s, UDS_NRC_REQUIRED_TIME_DELAY_NOT_EXPIRED)
    BY <1>2 DEF security_request_seed, level_supported
  <2> HIDE DEF out
  <2>2. out.st = s /\ out.rc = FAILED /\ out.nrc # NO_NRC
    BY <2>1 DEF Refused, UDS_NRC_REQUIRED_TIME_DELAY_NOT_EXPIRED, NO_NRC
  <2> QED BY <2>2 DEF out
<1>3. CASE ~(s.unlocked_level >= 1) /\ ~LockedOut(s, t)
  <2> DEFINE e == ExpireLockOut(s)
  <2>1. /\ out.st = [e EXCEPT !.pending_seed = FreshSeed(raw), !.seed_issued = TRUE]
        /\ out.seed = FreshSeed(raw) /\ out.rc = OK
    BY <1>3 DEF security_request_seed, level_supported
  <2>2. /\ e.unlocked_level = s.unlocked_level /\ (s.fail_count = 0 => e.fail_count = 0)
        /\ e = [f \in {"unlocked_level", "pending_seed", "seed_issued", "fail_count", "lock_until_ms"} |-> e[f]]
    <3>1. s = [f \in {"unlocked_level", "pending_seed", "seed_issued", "fail_count", "lock_until_ms"} |-> s[f]]
      BY DEF SecurityState
    <3>2. e = s \/ e = [s EXCEPT !.lock_until_ms = 0, !.fail_count = 0]
      BY DEF ExpireLockOut
    <3> HIDE DEF e
    <3> QED BY <3>1, <3>2, Zenon
  <2> HIDE DEF out, e
  <2>3. /\ out.st.unlocked_level = e.unlocked_level /\ out.st.fail_count = e.fail_count
        /\ out.st.pending_seed = FreshSeed(raw)
    BY <2>1, <2>2, Zenon
  <2> QED BY <2>1, <2>2, <2>3 DEF out, OK, FAILED
<1> QED BY <1>1, <1>2, <1>3

\* sendKey
LEMMA KeyOutcome ==
    ASSUME NEW s \in SecurityState, NEW t, NEW key
    PROVE  LET out == security_send_key(s, 1, key, t)
           IN  /\ out.st.unlocked_level >= s.unlocked_level
               /\ out.rc = FAILED => out.nrc # NO_NRC
               /\ out.rc # FAILED => out.st.unlocked_level = 1
               /\ out.st.seed_issued => s.seed_issued /\ out.st.pending_seed = s.pending_seed
               /\ s.fail_count = 0 /\ (s.seed_issued => key = KeyFor(s.pending_seed)) =>
                     out.st.fail_count = 0
<1> DEFINE out == security_send_key(s, 1, key, t)
           F == {"unlocked_level", "pending_seed", "seed_issued", "fail_count", "lock_until_ms"}
           spend == [s EXCEPT !.seed_issued = FALSE]
<1>0. s.unlocked_level \in {0, 1} /\ s = [f \in F |-> s[f]]
  BY DEF SecurityState
<1>1. /\ spend = [f \in F |-> spend[f]] /\ spend.seed_issued = FALSE
      /\ spend.unlocked_level = s.unlocked_level /\ spend.fail_count = s.fail_count
  BY <1>0, Zenon
<1> HIDE DEF F
<1>2. ASSUME NEW nrc \in NRCs, out = Refused(s, nrc)
      PROVE  out.st = s /\ out.rc = FAILED /\ out.nrc # NO_NRC
  BY <1>2 DEF Refused, NRCs, NO_NRC, UDS_NRC_SERVICE_NOT_SUPPORTED, UDS_NRC_SUB_FUNCTION_NOT_SUPPORTED,
     UDS_NRC_INCORRECT_MESSAGE_LENGTH, UDS_NRC_RESPONSE_TOO_LONG, UDS_NRC_CONDITIONS_NOT_CORRECT,
     UDS_NRC_REQUEST_SEQUENCE_ERROR, UDS_NRC_REQUEST_OUT_OF_RANGE, UDS_NRC_SECURITY_ACCESS_DENIED,
     UDS_NRC_INVALID_KEY, UDS_NRC_EXCEEDED_NUMBER_OF_ATTEMPTS, UDS_NRC_REQUIRED_TIME_DELAY_NOT_EXPIRED,
     UDS_NRC_SERVICE_NOT_SUPPORTED_IN_SESSION
<1>3. CASE ~s.seed_issued \/ LockedOut(s, t)
  <2>1. out = Refused(s, UDS_NRC_REQUEST_SEQUENCE_ERROR)
        \/ out = Refused(s, UDS_NRC_REQUIRED_TIME_DELAY_NOT_EXPIRED)
    BY <1>3 DEF security_send_key, level_supported
  <2>2. UDS_NRC_REQUEST_SEQUENCE_ERROR \in NRCs /\ UDS_NRC_REQUIRED_TIME_DELAY_NOT_EXPIRED \in NRCs
    BY DEF NRCs
  <2>3. out.st = s /\ out.rc = FAILED /\ out.nrc # NO_NRC
    BY <1>2, <2>1, <2>2
  <2> HIDE DEF out
  <2> QED BY <1>0, <2>3 DEF out
<1>4. CASE s.seed_issued /\ ~LockedOut(s, t) /\ key = KeyFor(s.pending_seed)
  <2>1. out.st = [spend EXCEPT !.unlocked_level = 1, !.fail_count = 0] /\ out.rc = OK
    BY <1>4 DEF security_send_key, level_supported
  <2> HIDE DEF out, spend
  <2>2. out.st.unlocked_level = 1 /\ out.st.fail_count = 0 /\ out.st.seed_issued = spend.seed_issued
    BY <1>1, <2>1, Zenon DEF F
  <2> QED BY <1>0, <1>1, <2>1, <2>2 DEF out, OK, FAILED
<1>5. CASE s.seed_issued /\ ~LockedOut(s, t) /\ key # KeyFor(s.pending_seed)
  <2>1. /\ out.st = CountFailure(spend, t) /\ out.rc = FAILED
        /\ out.nrc \in {UDS_NRC_EXCEEDED_NUMBER_OF_ATTEMPTS, UDS_NRC_INVALID_KEY}
    BY <1>5 DEF security_send_key, level_supported
  <2>2. out.nrc # NO_NRC
    BY <2>1 DEF UDS_NRC_EXCEEDED_NUMBER_OF_ATTEMPTS, UDS_NRC_INVALID_KEY, NO_NRC
  <2> HIDE DEF out, spend
  <2>3. \/ out.st = [spend EXCEPT !.fail_count = @ + 1, !.lock_until_ms = t + SECURITY_LOCK_DURATION_MS]
        \/ out.st = [spend EXCEPT !.fail_count = @ + 1]
    BY <2>1 DEF CountFailure
  <2>4. out.st.unlocked_level = spend.unlocked_level /\ out.st.seed_issued = spend.seed_issued
    BY <1>1, <2>3, Zenon DEF F
  <2> QED BY <1>0, <1>1, <1>5, <2>1, <2>2, <2>4 DEF out
<1> QED BY <1>3, <1>4, <1>5

-----------------------------------------------------------------------------
(* The dispatcher. *)

\* What a step of the dispatcher does to what the tools rely on: nothing, ...
ServesQuietly ==
    /\ sec' = sec /\ owner' = owner /\ dtcs' = dtcs
    /\ dpc' = "respond" /\ resp'.nrc = NO_NRC =>
          req.sid \notin {UDS_SID_CLEAR_DTC, UDS_SID_SECURITY_ACCESS, UDS_SID_WRITE_DATA_BY_IDENTIFIER}

\* ... empty the trouble codes, ...
ServesClear ==
    /\ sec' = sec /\ owner' = owner /\ dtcs' = {}
    /\ req.sid = UDS_SID_CLEAR_DTC /\ dpc' = "respond"

\* ... draw a seed, ...
ServesSeed ==
    /\ owner' = owner /\ dtcs' = dtcs
    /\ req.sid = UDS_SID_SECURITY_ACCESS /\ Sub(req) = 1 /\ dpc' = "respond"
    /\ sec'.unlocked_level = sec.unlocked_level
    /\ sec.fail_count = 0 => sec'.fail_count = 0
    /\ resp'.nrc = NO_NRC /\ sec'.seed_issued => sec'.pending_seed = resp'.seed

\* ... compare a key ...
ServesKey ==
    /\ owner' = owner /\ dtcs' = dtcs
    /\ req.sid = UDS_SID_SECURITY_ACCESS /\ Sub(req) = 2 /\ dpc' = "respond"
    /\ sec'.unlocked_level >= sec.unlocked_level
    /\ resp'.nrc = NO_NRC => sec'.unlocked_level = 1
    /\ sec'.seed_issued => sec.seed_issued /\ sec'.pending_seed = sec.pending_seed
    /\ sec.fail_count = 0 /\ KeyFits(req.key) => sec'.fail_count = 0

\* ... or store a name.
ServesWrite ==
    /\ sec' = sec /\ dtcs' = dtcs
    /\ req.sid = UDS_SID_WRITE_DATA_BY_IDENTIFIER /\ owner'.name = req.name /\ dpc' = "respond"

\* All that a step of the dispatcher can do.
Serves == ServesQuietly \/ ServesClear \/ ServesSeed \/ ServesKey \/ ServesWrite

\* A refusal is not a positive answer.
LEMMA Refusals ==
    /\ NO_NRC \notin NRCs
    /\ \A nrc : build_nrc(nrc).nrc = nrc
    /\ {UDS_NRC_INCORRECT_MESSAGE_LENGTH, UDS_NRC_REQUEST_OUT_OF_RANGE, UDS_NRC_SECURITY_ACCESS_DENIED,
        UDS_NRC_CONDITIONS_NOT_CORRECT, UDS_NRC_SERVICE_NOT_SUPPORTED, UDS_NRC_SUB_FUNCTION_NOT_SUPPORTED}
          \subseteq NRCs
<1>1. NO_NRC \notin NRCs
  BY DEF NRCs, NO_NRC, UDS_NRC_SERVICE_NOT_SUPPORTED, UDS_NRC_SUB_FUNCTION_NOT_SUPPORTED,
     UDS_NRC_INCORRECT_MESSAGE_LENGTH, UDS_NRC_RESPONSE_TOO_LONG, UDS_NRC_CONDITIONS_NOT_CORRECT,
     UDS_NRC_REQUEST_SEQUENCE_ERROR, UDS_NRC_REQUEST_OUT_OF_RANGE, UDS_NRC_SECURITY_ACCESS_DENIED,
     UDS_NRC_INVALID_KEY, UDS_NRC_EXCEEDED_NUMBER_OF_ATTEMPTS, UDS_NRC_REQUIRED_TIME_DELAY_NOT_EXPIRED,
     UDS_NRC_SERVICE_NOT_SUPPORTED_IN_SESSION
<1>2. \A nrc : build_nrc(nrc).nrc = nrc
  BY DEF build_nrc
<1>3. {UDS_NRC_INCORRECT_MESSAGE_LENGTH, UDS_NRC_REQUEST_OUT_OF_RANGE, UDS_NRC_SECURITY_ACCESS_DENIED,
        UDS_NRC_CONDITIONS_NOT_CORRECT, UDS_NRC_SERVICE_NOT_SUPPORTED, UDS_NRC_SUB_FUNCTION_NOT_SUPPORTED}
          \subseteq NRCs
  BY DEF NRCs
<1> QED BY <1>1, <1>2, <1>3

\* The dispatcher's steps at a tool's request.
LEMMA HandlerServes ==
    ASSUME VInv, InService, Shape(req), Handler, dpc # "respond"
    PROVE  req' = req /\ InService' /\ defaultBy' = defaultBy /\ spc' = spc /\ Serves
<1> DEFINE Goal == req' = req /\ InService' /\ defaultBy' = defaultBy /\ spc' = spc /\ Serves
<1>0. /\ req.sid \in {UDS_SID_DIAGNOSTIC_SESSION_CONTROL, UDS_SID_SECURITY_ACCESS,
                      UDS_SID_WRITE_DATA_BY_IDENTIFIER, UDS_SID_READ_DATA_BY_IDENTIFIER,
                      UDS_SID_READ_DTC, UDS_SID_CLEAR_DTC}
      /\ req.sid = UDS_SID_DIAGNOSTIC_SESSION_CONTROL => Sub(req) = UDS_SESSION_EXTENDED
      /\ req.sid = UDS_SID_SECURITY_ACCESS => Sub(req) \in {1, 2}
  BY ShapeFields
<1>a. UDS_SID_CLEAR_DTC # UDS_SID_READ_DTC
  BY DEF UDS_SID_CLEAR_DTC, UDS_SID_READ_DTC
<1>1. ASSUME NEW r, Return(r) PROVE req' = req /\ dpc' = "respond" /\ resp' = r /\ InService'
  BY <1>1 DEF Return, InService
<1>2. ASSUME NEW pc, GoTo(pc) PROVE req' = req /\ dpc' = pc
  BY <1>2 DEF GoTo
<1> HIDE DEF Goal
<1>3. ASSUME h_session_control PROVE Goal
  <2>1. req.sid = UDS_SID_DIAGNOSTIC_SESSION_CONTROL
    BY <1>3 DEF h_session_control, Handling
  <2>2. sec' = sec /\ owner' = owner /\ dtcs' = dtcs /\ spc' = spc /\ \E r : Return(r)
    BY <1>3 DEF h_session_control, s3Vars
  <2>3. defaultBy' = defaultBy
    <3>1. UDS_SESSION_EXTENDED # UDS_SESSION_DEFAULT
      BY DEF UDS_SESSION_EXTENDED, UDS_SESSION_DEFAULT
    <3> QED BY <1>0, <1>3, <2>1, <3>1 DEF h_session_control, vecu_set_session
  <2>4. req.sid \notin {UDS_SID_CLEAR_DTC, UDS_SID_SECURITY_ACCESS, UDS_SID_WRITE_DATA_BY_IDENTIFIER}
    BY <2>1, Sids
  <2>5. ServesQuietly
    BY <2>2, <2>4 DEF ServesQuietly
  <2> QED BY <1>1, <2>2, <2>3, <2>5 DEF Serves, Goal
<1>4. ~h_ecu_reset /\ ~h_ecu_reset_security /\ ~h_tester_present /\ ~Respond
  <2>1. UDS_SID_TESTER_PRESENT \notin {UDS_SID_DIAGNOSTIC_SESSION_CONTROL, UDS_SID_SECURITY_ACCESS,
                      UDS_SID_WRITE_DATA_BY_IDENTIFIER, UDS_SID_READ_DATA_BY_IDENTIFIER,
                      UDS_SID_READ_DTC, UDS_SID_CLEAR_DTC}
    BY DEF UDS_SID_TESTER_PRESENT, UDS_SID_DIAGNOSTIC_SESSION_CONTROL, UDS_SID_SECURITY_ACCESS,
       UDS_SID_WRITE_DATA_BY_IDENTIFIER, UDS_SID_CLEAR_DTC, UDS_SID_READ_DATA_BY_IDENTIFIER,
       UDS_SID_READ_DTC
  <2>2. UDS_SID_ECU_RESET \notin {UDS_SID_DIAGNOSTIC_SESSION_CONTROL, UDS_SID_SECURITY_ACCESS,
                      UDS_SID_WRITE_DATA_BY_IDENTIFIER, UDS_SID_READ_DATA_BY_IDENTIFIER,
                      UDS_SID_READ_DTC, UDS_SID_CLEAR_DTC}
    BY DEF UDS_SID_ECU_RESET, UDS_SID_DIAGNOSTIC_SESSION_CONTROL, UDS_SID_SECURITY_ACCESS,
       UDS_SID_WRITE_DATA_BY_IDENTIFIER, UDS_SID_CLEAR_DTC, UDS_SID_READ_DATA_BY_IDENTIFIER,
       UDS_SID_READ_DTC
  <2>3. ~h_ecu_reset
    BY <1>0, <2>2 DEF h_ecu_reset, Handling
  <2>4. ~h_tester_present
    BY <1>0, <2>1 DEF h_tester_present, Handling
  <2> QED BY <2>3, <2>4 DEF h_ecu_reset_security, InService, Respond
<1>5. ASSUME h_clear_dtc PROVE Goal
  <2>1. req.sid = UDS_SID_CLEAR_DTC /\ sec' = sec /\ owner' = owner /\ spc' = spc /\ defaultBy' = defaultBy
    BY <1>5 DEF h_clear_dtc, Handling, s3Vars
  <2>2. \/ \E nrc \in NRCs : Return(build_nrc(nrc)) /\ dtcs' = dtcs
        \/ \E r : Return(r) /\ dtcs' = {}
    BY <1>5, Refusals, Zenon DEF h_clear_dtc, dtc_mem_clear_all
  <2>3. ASSUME NEW nrc \in NRCs, Return(build_nrc(nrc)), dtcs' = dtcs PROVE Goal
    <3>1. resp'.nrc # NO_NRC
      BY <1>1, <2>3, Refusals
    <3>2. ServesQuietly
      BY <2>1, <2>3, <3>1 DEF ServesQuietly
    <3> QED BY <1>1, <2>1, <2>3, <3>2 DEF Serves, Goal
  <2>4. ASSUME NEW r, Return(r), dtcs' = {} PROVE Goal
    <3>1. ServesClear
      BY <1>1, <2>1, <2>4 DEF ServesClear
    <3> QED BY <1>1, <2>1, <2>4, <3>1 DEF Serves, Goal
  <2> QED BY <2>2, <2>3, <2>4
<1>6. ASSUME h_read_dtc \/ h_read_did \/ service_not_supported PROVE Goal
  <2>1. /\ sec' = sec /\ owner' = owner /\ dtcs' = dtcs /\ spc' = spc /\ defaultBy' = defaultBy
        /\ \E r : Return(r)
    BY <1>6 DEF h_read_dtc, h_read_did, service_not_supported, ecuVars, s3Vars
  <2>2. req.sid \notin {UDS_SID_CLEAR_DTC, UDS_SID_SECURITY_ACCESS, UDS_SID_WRITE_DATA_BY_IDENTIFIER}
    BY <1>6, <1>a, Sids DEF h_read_dtc, h_read_did, service_not_supported, Handling, DISPATCH
  <2>3. ServesQuietly
    BY <2>1, <2>2 DEF ServesQuietly
  <2> QED BY <1>1, <2>1, <2>3 DEF Serves, Goal
<1>7. ASSUME h_security_access PROVE Goal
  <2>1. /\ sec' = sec /\ owner' = owner /\ dtcs' = dtcs /\ spc' = spc /\ defaultBy' = defaultBy
        /\ req.sid = UDS_SID_SECURITY_ACCESS
    BY <1>7 DEF h_security_access, ecuVars, s3Vars, Handling
  <2>2. \/ \E nrc : nrc # NO_NRC /\ Return(build_nrc(nrc))
        \/ GoTo("security")
    BY <1>7 DEF h_security_access
  <2>3. ASSUME NEW nrc, nrc # NO_NRC, Return(build_nrc(nrc)) PROVE Goal
    <3>1. resp'.nrc # NO_NRC
      BY <1>1, <2>3, Refusals
    <3>2. ServesQuietly
      BY <2>1, <2>3, <3>1 DEF ServesQuietly
    <3> QED BY <1>1, <2>1, <2>3, <3>2 DEF Serves, Goal
  <2>4. ASSUME GoTo("security") PROVE Goal
    <3>1. req' = req /\ dpc' = "security"
      BY <1>2, <2>4
    <3>2. ServesQuietly /\ InService'
      BY <2>1, <3>1 DEF ServesQuietly, InService
    <3> QED BY <2>1, <3>1, <3>2 DEF Serves, Goal
  <2> QED BY <2>2, <2>3, <2>4
<1>8. dpc = "security" => /\ req.sid = UDS_SID_SECURITY_ACCESS /\ Level(req) = 1
                          /\ IsRequestSeed(req) => Sub(req) = 1
                          /\ ~IsRequestSeed(req) => Sub(req) = 2
  BY <1>0 DEF InService, IsRequestSeed, Level
<1>9. sec \in SecurityState
  BY DEF VInv, TypeOK
<1>10. ASSUME NEW raw \in Entropy, h_request_seed(raw) PROVE Goal
  <2> DEFINE out == security_request_seed(sec, 1, now, raw)
  <2>1. /\ owner' = owner /\ dtcs' = dtcs /\ spc' = spc /\ defaultBy' = defaultBy
        /\ req.sid = UDS_SID_SECURITY_ACCESS /\ Sub(req) = 1
        /\ sec' = out.st /\ Return(SecurityResponse(req, out, 6))
    BY <1>8, <1>10 DEF h_request_seed, s3Vars
  <2>2. /\ out.st.unlocked_level = sec.unlocked_level
        /\ sec.fail_count = 0 => out.st.fail_count = 0
        /\ out.rc = FAILED => out.nrc # NO_NRC /\ out.st = sec
        /\ out.rc # FAILED /\ out.st.seed_issued => out.st.pending_seed = out.seed
    BY <1>9, SeedOutcome
  <2> HIDE DEF out
  <2>3. dpc' = "respond" /\ req' = req /\ InService' /\ resp' = SecurityResponse(req, out, 6)
    BY <1>1, <2>1
  <2>4. resp'.nrc = NO_NRC /\ sec'.seed_issued => sec'.pending_seed = resp'.seed
    BY <2>1, <2>2, <2>3 DEF SecurityResponse, build_nrc, PositiveSub
  <2>5. ServesSeed
    BY <2>1, <2>2, <2>3, <2>4 DEF ServesSeed
  <2> QED BY <2>1, <2>3, <2>5 DEF Serves, Goal
<1>11. ASSUME h_send_key PROVE Goal
  <2> DEFINE out == security_send_key(sec, 1, req.key, now)
  <2>1. /\ owner' = owner /\ dtcs' = dtcs /\ spc' = spc /\ defaultBy' = defaultBy
        /\ req.sid = UDS_SID_SECURITY_ACCESS /\ Sub(req) = 2
        /\ sec' = out.st /\ Return(SecurityResponse(req, out, 2))
    BY <1>8, <1>11 DEF h_send_key, s3Vars
  <2>2. /\ out.st.unlocked_level >= sec.unlocked_level
        /\ out.rc = FAILED => out.nrc # NO_NRC
        /\ out.rc # FAILED => out.st.unlocked_level = 1
        /\ out.st.seed_issued => sec.seed_issued /\ out.st.pending_seed = sec.pending_seed
        /\ sec.fail_count = 0 /\ (sec.seed_issued => req.key = KeyFor(sec.pending_seed)) =>
              out.st.fail_count = 0
    BY <1>9, KeyOutcome
  <2> HIDE DEF out
  <2>3. dpc' = "respond" /\ req' = req /\ InService' /\ resp' = SecurityResponse(req, out, 2)
    BY <1>1, <2>1
  <2>4. resp'.nrc = NO_NRC => sec'.unlocked_level = 1
    BY <2>1, <2>2, <2>3 DEF SecurityResponse, build_nrc
  <2>5. ServesKey
    BY <2>1, <2>2, <2>3, <2>4 DEF ServesKey, KeyFits
  <2> QED BY <2>1, <2>3, <2>5 DEF Serves, Goal
<1>12. ASSUME h_write_did PROVE Goal
  <2>1. /\ sec' = sec /\ owner' = owner /\ dtcs' = dtcs /\ spc' = spc /\ defaultBy' = defaultBy
        /\ req.sid = UDS_SID_WRITE_DATA_BY_IDENTIFIER
    BY <1>12 DEF h_write_did, ecuVars, s3Vars, Handling
  <2>2. \/ \E nrc : nrc # NO_NRC /\ Return(build_nrc(nrc))
        \/ GoTo("write_security")
    BY <1>12 DEF h_write_did
  <2>3. ASSUME NEW nrc, nrc # NO_NRC, Return(build_nrc(nrc)) PROVE Goal
    <3>1. resp'.nrc # NO_NRC
      BY <1>1, <2>3, Refusals
    <3>2. ServesQuietly
      BY <2>1, <2>3, <3>1 DEF ServesQuietly
    <3> QED BY <1>1, <2>1, <2>3, <3>2 DEF Serves, Goal
  <2>4. ASSUME GoTo("write_security") PROVE Goal
    <3>1. req' = req /\ dpc' = "write_security"
      BY <1>2, <2>4
    <3>2. ServesQuietly /\ InService'
      BY <2>1, <3>1 DEF ServesQuietly, InService
    <3> QED BY <2>1, <3>1, <3>2 DEF Serves, Goal
  <2> QED BY <2>2, <2>3, <2>4
<1>13. ASSUME h_write_did_security PROVE Goal
  <2>1. /\ sec' = sec /\ owner' = owner /\ dtcs' = dtcs /\ spc' = spc /\ defaultBy' = defaultBy
        /\ req.sid = UDS_SID_WRITE_DATA_BY_IDENTIFIER
    BY <1>13 DEF h_write_did_security, ecuVars, s3Vars, InService
  <2>2. Return(build_nrc(UDS_NRC_SECURITY_ACCESS_DENIED)) \/ GoTo("write_owner")
    BY <1>13 DEF h_write_did_security
  <2>3. ASSUME Return(build_nrc(UDS_NRC_SECURITY_ACCESS_DENIED)) PROVE Goal
    <3>1. resp'.nrc # NO_NRC
      BY <1>1, <2>3, Refusals
    <3>2. ServesQuietly
      BY <2>1, <2>3, <3>1 DEF ServesQuietly
    <3> QED BY <1>1, <2>1, <2>3, <3>2 DEF Serves, Goal
  <2>4. ASSUME GoTo("write_owner") PROVE Goal
    <3>1. req' = req /\ dpc' = "write_owner"
      BY <1>2, <2>4
    <3>2. ServesQuietly /\ InService'
      BY <2>1, <3>1 DEF ServesQuietly, InService
    <3> QED BY <2>1, <3>1, <3>2 DEF Serves, Goal
  <2> QED BY <2>2, <2>3, <2>4
<1>14. ASSUME h_write_did_owner PROVE Goal
  <2>1. /\ sec' = sec /\ dtcs' = dtcs /\ spc' = spc /\ defaultBy' = defaultBy
        /\ req.sid = UDS_SID_WRITE_DATA_BY_IDENTIFIER
    BY <1>14 DEF h_write_did_owner, s3Vars, InService
  <2>2. \/ Return(build_nrc(UDS_NRC_CONDITIONS_NOT_CORRECT)) /\ owner' = owner
        \/ Return(Positive(3)) /\ owner' = [name |-> req.name, len |-> req.len - 3]
    BY <1>14 DEF h_write_did_owner
  <2>3. ASSUME Return(build_nrc(UDS_NRC_CONDITIONS_NOT_CORRECT)), owner' = owner PROVE Goal
    <3>1. resp'.nrc # NO_NRC
      BY <1>1, <2>3, Refusals
    <3>2. ServesQuietly
      BY <2>1, <2>3, <3>1 DEF ServesQuietly
    <3> QED BY <1>1, <2>1, <2>3, <3>2 DEF Serves, Goal
  <2>4. ASSUME Return(Positive(3)), owner' = [name |-> req.name, len |-> req.len - 3] PROVE Goal
    <3>1. req' = req /\ dpc' = "respond" /\ InService'
      BY <1>1, <2>4
    <3>2. ServesWrite
      BY <2>1, <2>4, <3>1 DEF ServesWrite
    <3> QED BY <2>1, <3>1, <3>2 DEF Serves, Goal
  <2> QED BY <2>2, <2>3, <2>4
<1>15. Goal
  BY <1>3, <1>4, <1>5, <1>6, <1>7, <1>10, <1>11, <1>12, <1>13, <1>14 DEF Handler
<1> QED BY <1>15 DEF Goal

-----------------------------------------------------------------------------
(* The steps of a tool. *)

\* p is q without its first n messages.
Dropped(p, q, n) ==
    /\ n \in 0..Len(q) /\ Len(p) = Len(q) - n
    /\ \A i \in 1..Len(p) : p[i] = q[i + n]

\* A step in terminal t, seen from the ECU and the other terminals.
Moves(t) ==
    /\ UNCHANGED <<vars, serving>>
    /\ \A u \in Terminals \ {t} : tool'[u] = tool[u] /\ inbox'[u] = inbox[u]
    /\ \E n \in Nat : Dropped(inbox'[t], inbox[t], n)

\* A command is typed.
Starts(t) ==
    /\ ~Live(tool[t]) /\ toEcu' = toEcu
    /\ \E k \in Commands(t), status \in {EXIT_IO, SENDING} : tool'[t] = Invocation(k, status)
    /\ spent'.overtakes = spent.overtakes + (IF Behind(t) THEN 1 ELSE 0)

\* The command's next request is sent; it may be lost.
Sends(t) ==
    /\ tool[t].status = SENDING /\ tool'[t].status = WAITING
    /\ tool'[t].cmd = tool[t].cmd /\ tool'[t].step = tool[t].step /\ tool'[t].seed = tool[t].seed
    /\ toEcu' = toEcu \/ /\ toEcu' = Append(toEcu, <<t, Current(tool[t])>>)
                         /\ Current(tool[t]) \in Requests
    /\ tool[t].cmd.verb # "monitor" => spent'.overtakes = spent.overtakes

\* An error.
GivesUp(t) ==
    /\ toEcu' = toEcu /\ spent'.overtakes = spent.overtakes
    /\ Live(tool[t]) /\ tool'[t].cmd = tool[t].cmd
    /\ tool[t].cmd.verb = "monitor" \/ (~Live(tool'[t]) /\ tool'[t].status # EXIT_OK)

\* The answer is taken for the one to the last request, and was the last ...
EndsWell(t) ==
    /\ tool[t].step >= Len(Steps(tool'[t]))
    /\ tool'[t].status = EXIT_OK

\* ... or is followed by the next request.
GoesOn(t) ==
    /\ tool'[t].step = tool[t].step + 1 /\ tool'[t].status = SENDING
    /\ Dropped(inbox'[t], inbox[t], 1)

\* The answer is taken for the one to the current request.
Takes(t) ==
    /\ toEcu' = toEcu /\ spent'.overtakes = spent.overtakes
    /\ tool[t].status = WAITING /\ inbox[t] # <<>> /\ Answers(Current(tool[t]), inbox[t][1])
    /\ tool'[t].cmd = tool[t].cmd
    /\ tool'[t].seed = IF Current(tool[t]) = RequestSeed THEN inbox[t][1].seed ELSE tool[t].seed
    /\ tool'[t].confirmed = IF Current(tool[t]) = ReadOwner THEN inbox[t][1].name ELSE tool[t].confirmed
    /\ tool[t].cmd.verb = "monitor" \/ EndsWell(t) \/ GoesOn(t)

\* The counts.
LEMMA OvertakesSpent ==
    ASSUME SpentTyped, NEW u \in [DOMAIN Nothing -> Nat], Spend(u)
    PROVE  /\ spent.overtakes \in Nat /\ u.overtakes \in Nat
           /\ spent'.overtakes = spent.overtakes + u.overtakes
<1>1. spent' = [f \in DOMAIN Nothing |-> spent[f] + u[f]]
  BY DEF Spend, SpentTyped
<1>2. "overtakes" \in DOMAIN Nothing
  BY EventFields
<1> HIDE DEF Nothing
<1> QED BY <1>1, <1>2 DEF SpentTyped

\* What a request that is sent counts: itself lost, a round, an overtake.
SendEvent(a, b, c) == [Nothing EXCEPT !.losses = a, !.rounds = b, !.overtakes = c]

\* The overtakes among the events.
LEMMA OvertakesOf ==
    ASSUME NEW a, NEW b, NEW c
    PROVE  /\ Once("losses").overtakes = 0 /\ Once("ticks").overtakes = 0
           /\ SendEvent(a, b, c).overtakes = c
<1>1. DOMAIN Nothing = {"commands", "losses", "overtakes", "rounds", "ticks"}
  BY DEF Nothing
<1>2. Nothing = [f \in DOMAIN Nothing |-> 0]
  BY DEF Nothing
<1>3. "losses" \in DOMAIN Nothing /\ "ticks" \in DOMAIN Nothing
      /\ "overtakes" \in DOMAIN Nothing /\ "rounds" \in DOMAIN Nothing
  BY <1>1
<1> HIDE DEF Nothing
<1>4. ASSUME NEW f \in DOMAIN Nothing
      PROVE  Once(f) = [g \in DOMAIN Nothing |-> IF g = f THEN 1 ELSE 0]
  BY <1>2, Zenon DEF Once
<1>5. Once("losses").overtakes = 0 /\ Once("ticks").overtakes = 0
  BY <1>3, <1>4
<1>6. SendEvent(a, b, c).overtakes = c
  BY <1>2, <1>3, Zenon DEF SendEvent
<1> QED BY <1>5, <1>6

\* Losses and ticks are not overtakes.
LEMMA NoOvertake ==
    ASSUME TInv, Spend(Once("losses")) \/ Spend(Once("ticks")) \/ spent' = spent
    PROVE  spent'.overtakes = spent.overtakes
<1>1. Once("losses") \in [DOMAIN Nothing -> Nat] /\ Once("ticks") \in [DOMAIN Nothing -> Nat]
  BY EventTypes
<1>2. spent.overtakes \in Nat
  <2>1. "overtakes" \in DOMAIN Nothing
    BY EventFields
  <2> QED BY <2>1 DEF TInv, SpentTyped
<1>3. ASSUME NEW u \in [DOMAIN Nothing -> Nat], u.overtakes = 0, Spend(u)
      PROVE  spent'.overtakes = spent.overtakes
  BY <1>2, <1>3, OvertakesSpent DEF TInv
<1> QED BY <1>1, <1>3, OvertakesOf

\* A terminal's invocation changes.
LEMMA BecomesMoves ==
    ASSUME TInv, NEW t \in Terminals, NEW v, NEW p, NEW n \in Nat, Dropped(p, inbox[t], n),
           Becomes(t, v, p), UNCHANGED <<vars, serving>>
    PROVE  /\ Moves(t) /\ tool'[t] = v
           /\ Live(v) => inbox'[t] = p
<1>1. tool'[t] = v /\ inbox'[t] = Kept(v, p)
  BY DEF Becomes, TInv, ToolsTyped
<1>2. \A u \in Terminals \ {t} : tool'[u] = tool[u] /\ inbox'[u] = inbox[u]
  BY DEF Becomes, TInv, ToolsTyped
<1>3. Live(v) => inbox'[t] = p
  BY <1>1 DEF Kept, Live
<1>4. ~Live(v) => Dropped(inbox'[t], inbox[t], Len(inbox[t]))
  <2>1. ~Live(v) => inbox'[t] = <<>>
    BY <1>1 DEF Kept, Live
  <2>2. Len(inbox[t]) \in Nat
    BY DEF TInv, ToolsTyped
  <2> QED BY <2>1, <2>2 DEF Dropped
<1>5. Len(inbox[t]) \in Nat
  BY DEF TInv, ToolsTyped
<1> QED BY <1>1, <1>2, <1>3, <1>4, <1>5 DEF Moves

\* Start.
LEMMA StartMoves ==
    ASSUME TInv, NEW t \in Terminals, NEW k \in Commands(t), Start(t, k)
    PROVE  Moves(t) /\ Starts(t)
<1>1. PICK failed \in {0, 1} :
         /\ Becomes(t, Invocation(k, IF failed = 1 THEN EXIT_IO ELSE SENDING), <<>>)
         /\ Spend([Once("commands") EXCEPT !.losses = failed,
                                            !.overtakes = IF Behind(t) THEN 1 ELSE 0])
  BY DEF Start
<1>2. spent'.overtakes = spent.overtakes + (IF Behind(t) THEN 1 ELSE 0)
  <2> DEFINE o == IF Behind(t) THEN 1 ELSE 0
             u == [Once("commands") EXCEPT !.losses = failed, !.overtakes = o]
  <2>1. o \in {0, 1}
    OBVIOUS
  <2>2. Spend(u)
    BY <1>1
  <2> HIDE DEF o
  <2>3. u \in [DOMAIN Nothing -> Nat] /\ u["overtakes"] = o
    BY <2>1, EventTypes, EventFields
  <2> HIDE DEF u
  <2>4. spent'.overtakes = spent.overtakes + u.overtakes
    BY <2>2, <2>3, OvertakesSpent DEF TInv
  <2> QED BY <2>3, <2>4 DEF o
<1>3. ~Live(tool[t]) /\ toEcu' = toEcu /\ UNCHANGED <<vars, serving>>
  BY DEF Start, Running, Live
<1>4. Dropped(<<>>, inbox[t], 0)
  <2>1. inbox[t] = <<>>
    BY <1>3 DEF TInv, ToolsTyped
  <2> QED BY <2>1 DEF Dropped
<1>5. PICK status \in {EXIT_IO, SENDING} : Becomes(t, Invocation(k, status), <<>>)
  BY <1>1
<1>6. Moves(t) /\ tool'[t] = Invocation(k, status)
  <2>1. PICK v : v = Invocation(k, status)
    OBVIOUS
  <2>2. Becomes(t, v, <<>>)
    BY <1>5, <2>1
  <2>3. Moves(t) /\ tool'[t] = v
    BY <1>3, <1>4, <2>2, BecomesMoves
  <2> QED BY <2>1, <2>3
<1> QED BY <1>2, <1>3, <1>6 DEF Starts

\* Send.
LEMMA SendMoves ==
    ASSUME TInv, NEW t \in Terminals, Send(t)
    PROVE  Moves(t) /\ Sends(t)
<1> DEFINE v == tool[t]
           q == inbox[t]
           x == [v EXCEPT !.status = WAITING]
<1>1. /\ GoodInvocation(t, v) /\ q \in Seq(Mail) /\ Live(v) /\ v.status = SENDING
      /\ Encodable(Current(v)) /\ UNCHANGED <<vars, serving>>
  BY DEF TInv, ToolsTyped, Send, Live
<1>2. Current(v) \in Requests
  BY <1>1, CurrentIsRequest
<1>3. PICK i \in 1..(Len(q) + 1) : Becomes(t, x, SubSeq(q, i, Len(q)))
  BY DEF Send
<1>4. x.cmd = v.cmd /\ x.step = v.step /\ x.seed = v.seed /\ x.status = WAITING
  BY <1>1 DEF GoodInvocation, InvocationType
<1>5. PICK lost \in {0, 1} :
         /\ toEcu' = IF lost = 1 THEN toEcu ELSE Append(toEcu, <<t, Current(v)>>)
         /\ LET round == IF v.cmd.verb = "monitor" /\ v.step = 1 THEN 1 ELSE 0
            IN  Spend([Nothing EXCEPT !.losses = lost, !.rounds = round,
                                      !.overtakes = IF Behind(t) THEN round ELSE 0])
  BY DEF Send
<1>6. v.cmd.verb # "monitor" => spent'.overtakes = spent.overtakes
  <2> DEFINE b == IF v.cmd.verb = "monitor" /\ v.step = 1 THEN 1 ELSE 0
             c == IF Behind(t) THEN b ELSE 0
             u == SendEvent(lost, b, c)
  <2>1. b \in {0, 1} /\ c \in {0, 1} /\ (v.cmd.verb # "monitor" => c = 0)
    OBVIOUS
  <2>2. Spend(u)
    BY <1>5 DEF SendEvent
  <2> HIDE DEF b, c
  <2>3. u \in [DOMAIN Nothing -> Nat] /\ u.overtakes = c
    <3>1. u \in [DOMAIN Nothing -> Nat]
      BY <2>1, EventTypes DEF SendEvent
    <3>2. u.overtakes = c
      BY ONLY OvertakesOf
    <3> QED BY <3>1, <3>2
  <2> HIDE DEF u
  <2>4. spent.overtakes \in Nat /\ spent'.overtakes = spent.overtakes + u.overtakes
    BY <2>2, <2>3, OvertakesSpent DEF TInv
  <2> QED BY ONLY <2>1, <2>3, <2>4
<1>7. PICK p : p = SubSeq(q, i, Len(q))
  OBVIOUS
<1>8. i - 1 \in Nat /\ Dropped(p, q, i - 1)
  <2>1. Len(q) \in Nat
    BY <1>1
  <2>2. i \in 1..(Len(q) + 1) /\ Len(q) \in i - 1..Len(q)
    BY <1>3, <2>1
  <2> HIDE DEF q
  <2>3. p = [j \in 1..(Len(q) - i + 1) |-> q[i + j - 1]] /\ Len(p) = Len(q) - i + 1
    BY <1>1, <1>7, <2>1, <2>2, SubSeqProperties
  <2>4. ASSUME NEW j \in 1..Len(p) PROVE p[j] = q[j + (i - 1)]
    <3>1. p[j] = q[i + j - 1] /\ i + j - 1 = j + (i - 1)
      BY <2>1, <2>2, <2>3
    <3> QED BY <3>1
  <2> QED BY <2>1, <2>2, <2>3, <2>4 DEF Dropped
<1> HIDE DEF x
<1>9. Moves(t) /\ tool'[t] = x
  <2>1. Dropped(p, inbox[t], i - 1) /\ Becomes(t, x, p)
    BY <1>3, <1>7, <1>8
  <2> QED BY <1>1, <1>8, <2>1, BecomesMoves
<1>10. toEcu' = toEcu \/ toEcu' = Append(toEcu, <<t, Current(v)>>)
  BY <1>5
<1> QED BY <1>1, <1>2, <1>4, <1>6, <1>9, <1>10 DEF Sends

\* An invocation that fails, whatever the reason.
LEMMA FailMoves ==
    ASSUME TInv, NEW t \in Terminals, Live(tool[t]), UNCHANGED <<vars, toEcu, serving>>,
           spent'.overtakes = spent.overtakes, NEW p, NEW n \in Nat, Dropped(p, inbox[t], n),
           NEW code \in {EXIT_UNCAUGHT, EXIT_NRC, EXIT_TIMEOUT, EXIT_IO}, Becomes(t, Fails(tool[t], code), p)
    PROVE  Moves(t) /\ GivesUp(t)
<1>1. PICK v : v = tool[t]
  OBVIOUS
<1>2. PICK x : x = Fails(v, code)
  OBVIOUS
<1>3. v \in InvocationType(t)
  BY <1>1 DEF TInv, ToolsTyped, GoodInvocation
<1>4. code \notin {SENDING, WAITING, EXIT_OK}
  BY DEF EXIT_UNCAUGHT, EXIT_NRC, EXIT_TIMEOUT, EXIT_IO, SENDING, WAITING, EXIT_OK
<1>5. x.cmd = v.cmd /\ (v.cmd.verb = "monitor" \/ (~Live(x) /\ x.status # EXIT_OK))
  <2>1. CASE v.cmd.verb = "monitor"
    <3>1. x = Moved(v, 1, SENDING)
      BY <1>2, <2>1 DEF Fails, Moved
    <3>2. SENDING \in EXIT_OK..WAITING /\ 1 \in Nat
      BY DEF EXIT_OK, SENDING, WAITING
    <3>3. x.cmd = v.cmd
      BY <1>3, <3>1, <3>2, AtStep
    <3> QED BY <2>1, <3>3
  <2>2. CASE v.cmd.verb # "monitor"
    <3>1. x = [v EXCEPT !.status = code]
      BY <1>2, <2>2 DEF Fails
    <3> QED BY <1>3, <1>4, <3>1 DEF InvocationType, Live
  <2> QED BY <2>1, <2>2
<1>6. Moves(t) /\ tool'[t] = x
  BY <1>1, <1>2, BecomesMoves
<1> QED BY <1>1, <1>5, <1>6 DEF GivesUp

\* SendFails.
LEMMA SendFailsMoves ==
    ASSUME TInv, NEW t \in Terminals, SendFails(t)
    PROVE  Moves(t) /\ GivesUp(t)
<1>1. Live(tool[t]) /\ UNCHANGED <<vars, toEcu, serving>>
  BY DEF SendFails, Live
<1>2. PICK code \in {EXIT_UNCAUGHT, EXIT_NRC, EXIT_TIMEOUT, EXIT_IO} :
         Becomes(t, Fails(tool[t], code), inbox[t])
  BY DEF SendFails
<1>3. spent'.overtakes = spent.overtakes
  BY NoOvertake DEF SendFails
<1>4. Dropped(inbox[t], inbox[t], 0)
  <2>1. Len(inbox[t]) \in Nat
    BY DEF TInv, ToolsTyped
  <2> QED BY <2>1 DEF Dropped
<1> QED BY <1>1, <1>2, <1>3, <1>4, FailMoves

\* Timeout.
LEMMA TimeoutMoves ==
    ASSUME TInv, NEW t \in Terminals, Timeout(t)
    PROVE  Moves(t) /\ GivesUp(t)
<1>1. Live(tool[t]) /\ UNCHANGED <<vars, toEcu, serving>>
  BY DEF Timeout, Live
<1>2. Becomes(t, Fails(tool[t], EXIT_TIMEOUT), <<>>) /\ inbox[t] = <<>>
  BY DEF Timeout
<1>3. spent'.overtakes = spent.overtakes
  BY DEF Timeout
<1>4. Dropped(<<>>, inbox[t], 0)
  BY <1>2 DEF Dropped
<1> QED BY <1>1, <1>2, <1>3, <1>4, FailMoves

\* Receive: the answer is taken, or the command fails.
LEMMA ReceiveMoves ==
    ASSUME TInv, NEW t \in Terminals, Receive(t)
    PROVE  Moves(t) /\ (GivesUp(t) \/ Takes(t))
<1> DEFINE v == tool[t]
           q == inbox[t]
           m == Head(q)
           rest == Tail(q)
<1>1. /\ GoodInvocation(t, v) /\ q \in Seq(Mail) /\ Live(v) /\ v.status = WAITING /\ q # <<>>
      /\ UNCHANGED <<vars, toEcu, serving, spent>>
  BY DEF TInv, ToolsTyped, Receive, Live
<1>2. /\ m \in Mail /\ m = q[1] /\ Dropped(rest, q, 1)
  <2> HIDE DEF q
  <2>1. Len(q) \in Nat \ {0} /\ m = q[1] /\ m \in Mail
    BY <1>1
  <2>2. Len(rest) = Len(q) - 1 /\ \A i \in 1..Len(rest) : rest[i] = q[i + 1]
    BY <1>1, HeadTailProperties
  <2> QED BY <2>1, <2>2 DEF Dropped
<1>3. ASSUME NEW code \in {EXIT_UNCAUGHT, EXIT_NRC, EXIT_TIMEOUT, EXIT_IO}, Becomes(t, Fails(v, code), rest)
      PROVE  Moves(t) /\ GivesUp(t)
  <2>1. PICK p : p = rest
    OBVIOUS
  <2>2. Dropped(p, inbox[t], 1) /\ Becomes(t, Fails(tool[t], code), p)
    BY <1>2, <1>3, <2>1
  <2> QED BY <1>1, <2>2, FailMoves
<1>4. ASSUME Answers(Current(v), m), NEW u \in Answered(v, m), Becomes(t, u, rest)
      PROVE  Moves(t) /\ Takes(t)
  <2>1. Moves(t) /\ tool'[t] = u /\ (Live(u) => inbox'[t] = rest)
    <3>1. PICK p : p = rest
      OBVIOUS
    <3>2. Dropped(p, inbox[t], 1) /\ Becomes(t, u, p)
      BY <1>2, <1>4, <3>1
    <3>3. Moves(t) /\ tool'[t] = u /\ (Live(u) => inbox'[t] = p)
      BY <1>1, <3>2, BecomesMoves
    <3> QED BY <3>1, <3>3
  <2> DEFINE x == [v EXCEPT !.seed = IF Current(v) = RequestSeed THEN m.seed ELSE @,
                            !.confirmed = IF Current(v) = ReadOwner THEN m.name ELSE @]
  <2>2. /\ x \in InvocationType(t) /\ x.cmd = v.cmd /\ x.step = v.step
        /\ x.seed = IF Current(v) = RequestSeed THEN m.seed ELSE v.seed
        /\ x.confirmed = IF Current(v) = ReadOwner THEN m.name ELSE v.confirmed
    <3> HIDE DEF v, m
    <3> QED BY <1>1, <1>2 DEF GoodInvocation, InvocationType, Mail
  <2>3. \/ v.step < Len(Steps(x)) /\ u = [x EXCEPT !.step = @ + 1, !.status = SENDING]
        \/ /\ v.cmd.verb = "monitor" 
           /\ \E s \in {SENDING, EXIT_OK} : u = [x EXCEPT !.step = 1, !.status = s]
        \/ ~(v.step < Len(Steps(x))) /\ u = [x EXCEPT !.status = EXIT_OK]
    BY <1>4 DEF Answered
  <2> HIDE DEF x
  <2>4. v.step \in Nat /\ SENDING \in EXIT_OK..WAITING /\ EXIT_OK \in EXIT_OK..WAITING
    BY <1>1 DEF GoodInvocation, InvocationType, EXIT_OK, SENDING, WAITING
  <2>5. /\ u.cmd = x.cmd /\ u.seed = x.seed /\ u.confirmed = x.confirmed
        /\ \/ v.cmd.verb = "monitor"
           \/ u.step = v.step + 1 /\ u.status = SENDING
           \/ ~(v.step < Len(Steps(x))) /\ u.status = EXIT_OK
    <3>1. CASE v.step < Len(Steps(x)) /\ u = [x EXCEPT !.step = @ + 1, !.status = SENDING]
      <4> DEFINE i == v.step + 1
      <4>1. u = Moved(x, i, SENDING)
        BY <2>2, <3>1 DEF Moved
      <4>2. i \in Nat
        BY <2>4
      <4> HIDE DEF i
      <4>3. u.cmd = x.cmd /\ u.seed = x.seed /\ u.confirmed = x.confirmed /\ u.step = i /\ u.status = SENDING
        <5>1. x \in InvocationType(t) /\ SENDING \in EXIT_OK..WAITING
          BY <2>2, <2>4
        <5> QED BY ONLY <4>1, <4>2, <5>1, AtStep
      <4> QED BY <4>3 DEF i
    <3>2. ASSUME v.cmd.verb = "monitor", NEW s \in {SENDING, EXIT_OK}, u = [x EXCEPT !.step = 1, !.status = s]
          PROVE  u.cmd = x.cmd /\ u.seed = x.seed /\ u.confirmed = x.confirmed
      <4>1. u = Moved(x, 1, s) /\ 1 \in Nat
        BY <3>2 DEF Moved
      <4> QED BY <2>2, <2>4, <4>1, AtStep
    <3>3. CASE ~(v.step < Len(Steps(x))) /\ u = [x EXCEPT !.status = EXIT_OK]
      BY <2>2, <3>3 DEF InvocationType
    <3> QED BY <2>3, <3>1, <3>2, <3>3
  <2>6. Len(Steps(x)) \in Nat /\ Steps(u) = Steps(x)
    <3>1. v.cmd \in Commands(t)
      BY <1>1 DEF GoodInvocation
    <3>2. Len(Script(v.cmd, x.seed)) \in Nat
      BY <3>1, ScriptLength, CommandsAssumption
    <3> QED BY <2>2, <2>5, <3>2 DEF Steps
  <2>7. v.cmd.verb = "monitor" \/ EndsWell(t) \/ GoesOn(t)
    <3>1. ASSUME ~(v.step < Len(Steps(x))), u.status = EXIT_OK PROVE EndsWell(t)
      <4>1. v.step >= Len(Steps(x))
        BY <2>4, <2>6, <3>1
      <4> QED BY <2>1, <2>6, <3>1, <4>1 DEF EndsWell
    <3>2. ASSUME u.step = v.step + 1, u.status = SENDING PROVE GoesOn(t)
      BY <1>2, <2>1, <3>2 DEF GoesOn, Live
    <3> QED BY <2>5, <3>1, <3>2
  <2>8. Answers(Current(v), q[1]) /\ u.cmd = v.cmd
        /\ u.seed = (IF Current(v) = RequestSeed THEN q[1].seed ELSE v.seed)
        /\ u.confirmed = (IF Current(v) = ReadOwner THEN q[1].name ELSE v.confirmed)
    BY <1>2, <1>4, <2>2, <2>5
  <2> HIDE DEF m, rest
  <2> QED BY <1>1, <2>1, <2>7, <2>8 DEF Takes
<1>5. \/ Answers(Current(v), m) /\ \E u \in Answered(v, m) : Becomes(t, u, rest)
      \/ \E code \in {EXIT_UNCAUGHT, EXIT_NRC, EXIT_TIMEOUT, EXIT_IO} : Becomes(t, Fails(v, code), rest)
  BY DEF Receive
<1> HIDE DEF v, m, rest, q
<1> QED BY <1>3, <1>4, <1>5

\* All that a terminal does.
LEMMA ToolMoves ==
    ASSUME TInv, NEW t \in Terminals, Tool(t) \/ \E k \in Commands(t) : Start(t, k)
    PROVE  Moves(t) /\ (Starts(t) \/ Sends(t) \/ GivesUp(t) \/ Takes(t))
BY StartMoves, SendMoves, SendFailsMoves, ReceiveMoves, TimeoutMoves DEF Tool

-----------------------------------------------------------------------------
(* The requests the ECU holds. *)

\* The count of overtakes never decreases.
LEMMA OvertakesGrow ==
    ASSUME TInv, [ToolNext]_<<vars, toolVars>>
    PROVE  /\ spent.overtakes \in Nat /\ spent'.overtakes \in Nat
           /\ spent.overtakes <= spent'.overtakes
<1> DEFINE Goal == spent'.overtakes \in Nat /\ spent.overtakes <= spent'.overtakes
<1>0. spent.overtakes \in Nat
  <2>1. "overtakes" \in DOMAIN Nothing
    BY EventFields
  <2> QED BY <2>1 DEF TInv, SpentTyped
<1>1. ASSUME NEW u \in [DOMAIN Nothing -> Nat], Spend(u) PROVE Goal
  <2>1. u.overtakes \in Nat /\ spent'.overtakes = spent.overtakes + u.overtakes
    BY <1>1, OvertakesSpent DEF TInv
  <2> QED BY <1>0, <2>1
<1>2. ASSUME spent'.overtakes = spent.overtakes PROVE Goal
  BY <1>0, <1>2
<1> HIDE DEF Goal
<1>3. CASE Ecu
  <2>1. spent' = spent \/ Spend(Once("losses"))
    BY <1>3 DEF Ecu, EcuTakes, EcuHandles, EcuAnswers, EcuTimer, toolVars
  <2>2. Goal
    BY <1>2, <2>1, NoOvertake
  <2> QED BY <1>0, <2>2 DEF Goal
<1>4. CASE TimePasses
  <2>1. Goal
    BY <1>2, <1>4, NoOvertake DEF TimePasses
  <2> QED BY <1>0, <2>1 DEF Goal
<1>5. ASSUME NEW t \in Terminals, Send(t) PROVE Goal
  <2>1. PICK lost \in {0, 1} :
           LET round == IF tool[t].cmd.verb = "monitor" /\ tool[t].step = 1 THEN 1 ELSE 0
           IN  Spend([Nothing EXCEPT !.losses = lost, !.rounds = round,
                                     !.overtakes = IF Behind(t) THEN round ELSE 0])
    BY <1>5 DEF Send
  <2> DEFINE b == IF tool[t].cmd.verb = "monitor" /\ tool[t].step = 1 THEN 1 ELSE 0
             c == IF Behind(t) THEN b ELSE 0
             u == [Nothing EXCEPT !.losses = lost, !.rounds = b, !.overtakes = c]
  <2>2. b \in {0, 1} /\ c \in {0, 1}
    OBVIOUS
  <2>3. Spend(u)
    BY <2>1
  <2> HIDE DEF b, c
  <2>4. u \in [DOMAIN Nothing -> Nat]
    BY <2>2, EventTypes
  <2> QED BY <1>1, <2>3, <2>4
<1>6. ASSUME NEW t \in Terminals, SendFails(t) \/ Receive(t) \/ Timeout(t) PROVE Goal
  <2>1. spent' = spent \/ Spend(Once("losses"))
    BY <1>6 DEF SendFails, Receive, Timeout
  <2> QED BY <1>2, <2>1, NoOvertake
<1>7. ASSUME NEW t \in Terminals, NEW k \in Commands(t), Start(t, k) PROVE Goal
  <2>1. PICK failed \in {0, 1} :
           Spend([Once("commands") EXCEPT !.losses = failed,
                                          !.overtakes = IF Behind(t) THEN 1 ELSE 0])
    BY <1>7 DEF Start
  <2> DEFINE c == IF Behind(t) THEN 1 ELSE 0
             u == [Once("commands") EXCEPT !.losses = failed, !.overtakes = c]
  <2>2. c \in {0, 1}
    OBVIOUS
  <2>3. Spend(u)
    BY <2>1
  <2> HIDE DEF c
  <2>4. u \in [DOMAIN Nothing -> Nat]
    BY <2>2, EventTypes
  <2> QED BY <1>1, <2>3, <2>4
<1>8. CASE UNCHANGED <<vars, toolVars>>
  <2>1. Goal
    BY <1>2, <1>8 DEF toolVars
  <2> QED BY <1>0, <2>1 DEF Goal
<1>9. Goal
  BY <1>3, <1>4, <1>5, <1>6, <1>7, <1>8 DEF ToolNext, Tool, Goal
<1> QED BY <1>0, <1>9 DEF Goal

\* The ECU holds what it held.
LEMMA HeldSame ==
    ASSUME toEcu' = toEcu, serving' = serving, req' = req
    PROVE  Held' = Held
BY DEF Held

\* A request is sent to it.
LEMMA HeldSent ==
    ASSUME TInv, NEW p \in Terminals \X Requests, toEcu' = Append(toEcu, p), serving' = serving,
           req' = req
    PROVE  Held' \subseteq Held \cup {p}
<1>1. toEcu \in Seq(Terminals \X Requests)
  BY DEF TInv, EcuTyped
<1>2. /\ Len(toEcu) \in Nat /\ Len(toEcu') = Len(toEcu) + 1
      /\ \A i \in 1..Len(toEcu) : toEcu'[i] = toEcu[i]
      /\ toEcu'[Len(toEcu) + 1] = p
  BY <1>1
<1>3. \A i \in 1..Len(toEcu') : i \in 1..Len(toEcu) \/ i = Len(toEcu) + 1
  BY <1>2
<1> QED BY <1>2, <1>3 DEF Held

\* The step of a terminal.
LEMMA HeldMoves ==
    ASSUME TInv, NEW t \in Terminals, Moves(t), Starts(t) \/ Sends(t) \/ GivesUp(t) \/ Takes(t),
           NEW p \in Held'
    PROVE  p \in Held \/ (Sends(t) /\ p[1] = t /\ p[2] = Current(tool[t]) /\ p[2] \in Requests)
<1>1. serving' = serving /\ req' = req
  BY DEF Moves, vars, dispVars
<1>2. CASE toEcu' = toEcu
  BY <1>1, <1>2, HeldSame
<1>3. CASE ~(toEcu' = toEcu)
  <2>1. Sends(t) /\ toEcu' = Append(toEcu, <<t, Current(tool[t])>>) /\ Current(tool[t]) \in Requests
    BY <1>3 DEF Starts, Sends, GivesUp, Takes
  <2>2. PICK r : r = <<t, Current(tool[t])>>
    OBVIOUS
  <2>3. r \in Terminals \X Requests /\ toEcu' = Append(toEcu, r) /\ r[1] = t /\ r[2] = Current(tool[t])
    BY <2>1, <2>2
  <2>4. Held' \subseteq Held \cup {r}
    BY <1>1, <2>3, HeldSent
  <2> QED BY <2>1, <2>3, <2>4
<1> QED BY <1>2, <1>3

\* The dispatcher takes one.
LEMMA HeldTaken ==
    ASSUME TInv, EcuTakes
    PROVE  /\ Held' \subseteq Held /\ toEcu # <<>> /\ toEcu \in Seq(Terminals \X Requests)
           /\ toEcu' = Tail(toEcu) /\ req' = Head(toEcu)[2] /\ serving = Nobody /\ serving' # Nobody
           /\ dpc' = "handle" /\ resp' = resp /\ UNCHANGED <<ecuVars, s3Vars, defaultBy, tool, inbox, spent>>
<1>1. toEcu \in Seq(Terminals \X Requests) /\ toEcu # <<>>
  BY DEF TInv, EcuTyped, EcuTakes
<1>2. /\ Head(toEcu) \in Terminals \X Requests /\ Head(toEcu) = toEcu[1]
      /\ Len(toEcu) \in Nat \ {0} /\ Len(Tail(toEcu)) = Len(toEcu) - 1
      /\ \A i \in 1..Len(Tail(toEcu)) : Tail(toEcu)[i] = toEcu[i + 1]
  BY ONLY <1>1, HeadTailProperties
<1>3. /\ dpc' = "handle" /\ resp' = resp /\ serving' = Head(toEcu)[1] /\ toEcu' = Tail(toEcu)
      /\ req' = Head(toEcu)[2] /\ dpc = "pop"
      /\ UNCHANGED <<ecuVars, s3Vars, defaultBy, tool, inbox, spent>>
  BY DEF EcuTakes, Pop
<1>4. serving = Nobody /\ serving' # Nobody
  <2>1. serving' \in Terminals
    BY <1>2, <1>3
  <2> QED BY <1>3, <2>1, DiagToolAssumption DEF TInv, EcuTyped
<1>5. ASSUME NEW p \in Held' PROVE p \in Held
  <2>1. (\E i \in 1..Len(toEcu') : p = toEcu'[i]) \/ p = <<serving', req'>>
    BY DEF Held
  <2>2. <<serving', req'>> = toEcu[1]
    BY <1>2, <1>3
  <2>3. 1 \in 1..Len(toEcu) /\ \A i \in 1..Len(Tail(toEcu)) : i + 1 \in 1..Len(toEcu)
    BY <1>2
  <2>4. \E i \in 1..Len(toEcu) : p = toEcu[i]
    BY <1>2, <1>3, <2>1, <2>2, <2>3
  <2> QED BY <2>4 DEF Held
<1> QED BY <1>1, <1>3, <1>4, <1>5

\* It answers it.
LEMMA HeldAnswered ==
    ASSUME TInv, EcuAnswers
    PROVE  /\ Held' \subseteq Held /\ toEcu' = toEcu /\ serving # Nobody /\ serving' = Nobody
           /\ dpc = "respond" /\ dpc' = "pop" /\ tool' = tool /\ UNCHANGED <<ecuVars, s3Vars, defaultBy>>
           /\ spent'.overtakes = spent.overtakes /\ Answer \in Mail
           /\ \A t \in Terminals : \/ inbox'[t] = inbox[t]
                                   \/ inbox'[t] = Append(inbox[t], Answer)
<1>1. /\ toEcu' = toEcu /\ serving' = Nobody /\ dpc = "respond" /\ dpc' = "pop" /\ tool' = tool
      /\ UNCHANGED <<ecuVars, s3Vars, defaultBy>>
  BY DEF EcuAnswers, Respond
<1>2. serving # Nobody
  BY <1>1 DEF TInv, EcuTyped
<1>3. Held' \subseteq Held
  BY <1>1 DEF Held
<1>4. spent'.overtakes = spent.overtakes
  BY NoOvertake DEF EcuAnswers
<1>5. Answer \in Mail
  BY <1>1, AnswerIsMail
<1>6. ASSUME NEW t \in Terminals PROVE inbox'[t] = inbox[t] \/ inbox'[t] = Append(inbox[t], Answer)
  <2>1. CASE inbox' = inbox
    BY <2>1
  <2>2. CASE inbox' = [u \in Terminals |->
                         IF sent' THEN Kept(tool[u], Append(inbox[u], Answer)) ELSE inbox[u]]
    <3>1. inbox'[t] = IF sent' THEN Kept(tool[t], Append(inbox[t], Answer)) ELSE inbox[t]
      BY <2>2
    <3>2. ~Live(tool[t]) => inbox[t] = <<>>
      BY DEF TInv, ToolsTyped
    <3> QED BY <3>1, <3>2 DEF Kept, Live
  <2> QED BY <2>1, <2>2 DEF EcuAnswers
<1> QED BY <1>1, <1>2, <1>3, <1>4, <1>5, <1>6

\* The handlers, the timer and the clock let the tools and the requests be.
LEMMA EcuInside ==
    ASSUME TInv, EcuHandles \/ EcuTimer \/ TimePasses
    PROVE  /\ UNCHANGED <<toEcu, serving, tool, inbox>> /\ spent'.overtakes = spent.overtakes
           /\ EcuTimer \/ TimePasses => UNCHANGED <<dpc, req, resp, owner, dtcs>>
<1>1. UNCHANGED <<toEcu, serving, tool, inbox>>
  BY DEF EcuHandles, EcuTimer, TimePasses, toolVars
<1>2. spent'.overtakes = spent.overtakes
  <2>1. spent' = spent \/ Spend(Once("ticks"))
    BY DEF EcuHandles, EcuTimer, TimePasses, toolVars
  <2> QED BY <2>1, NoOvertake
<1>3. EcuTimer \/ TimePasses => S3 \/ Tick
  BY DEF EcuTimer, TimePasses
<1>4. S3 \/ Tick => UNCHANGED <<dpc, req, resp, owner, dtcs>>
  BY DEF S3, S3Poll, S3ReadNow, S3ReadTp, S3Revert, S3Relock, Tick, dispVars, ecuVars
<1> QED BY <1>1, <1>2, <1>3, <1>4

\* The request in hand is of a script.
LEMMA InHandShape ==
    ASSUME TInv, HeldInv, dpc # "pop"
    PROVE  /\ serving \in Terminals /\ serving # Nobody /\ <<serving, req>> \in Held
           /\ FromScript(serving, req) /\ Shape(req)
<1>1. serving \in Terminals /\ serving # Nobody
  BY DEF TInv, EcuTyped
<1>2. <<serving, req>> \in Held
  BY <1>1 DEF Held
<1>3. FromScript(<<serving, req>>[1], <<serving, req>>[2])
  BY <1>2 DEF HeldInv
<1>4. FromScript(serving, req)
  BY <1>3
<1> QED BY <1>1, <1>2, <1>4, FromScriptFacts

\* The dispatcher's step at the request in hand.
LEMMA EcuServes ==
    ASSUME TInv, HeldInv, EcuHandles
    PROVE  /\ req' = req /\ InService' /\ defaultBy' = defaultBy /\ spc' = spc /\ Serves
           /\ dpc \notin {"pop", "respond"}
<1>1. VInv /\ Handler /\ dpc # "respond"
  BY DEF TInv, EcuHandles
<1>2. dpc # "pop"
  BY <1>1, HandlerSeeds
<1>3. Shape(req) /\ InService
  BY <1>2, InHandShape DEF HeldInv
<1> QED BY <1>1, <1>2, <1>3, HandlerServes

\* The ECU never holds anything but requests of the scripts.
LEMMA NextHeldInv == TInv /\ HeldInv /\ [ToolNext]_<<vars, toolVars>> => HeldInv'
<1> SUFFICES ASSUME TInv, HeldInv, [ToolNext]_<<vars, toolVars>> PROVE HeldInv'
  OBVIOUS
<1>1. ASSUME Held' \subseteq Held, InService' PROVE HeldInv'
  <2>1. \A p \in Held' : FromScript(p[1], p[2])
    BY <1>1 DEF HeldInv
  <2> QED BY <1>1, <2>1 DEF HeldInv
<1>2. CASE EcuTakes
  <2>1. Held' \subseteq Held /\ dpc' = "handle"
    BY <1>2, HeldTaken
  <2>2. InService'
    BY <2>1 DEF InService
  <2> QED BY <1>1, <2>1, <2>2
<1>3. CASE EcuHandles
  <2>1. req' = req /\ InService'
    BY <1>3, EcuServes
  <2>2. toEcu' = toEcu /\ serving' = serving
    BY <1>3, EcuInside
  <2> QED BY <1>1, <2>1, <2>2, HeldSame
<1>4. CASE EcuAnswers
  <2>1. Held' \subseteq Held /\ dpc' = "pop"
    BY <1>4, HeldAnswered
  <2>2. InService'
    BY <2>1 DEF InService
  <2> QED BY <1>1, <2>1, <2>2
<1>5. CASE EcuTimer \/ TimePasses
  <2>1. toEcu' = toEcu /\ serving' = serving /\ dpc' = dpc /\ req' = req
    BY <1>5, EcuInside
  <2>2. InService'
    BY <2>1 DEF HeldInv, InService
  <2> QED BY <1>1, <2>1, <2>2, HeldSame
<1>6. ASSUME NEW t \in Terminals, Tool(t) \/ \E k \in Commands(t) : Start(t, k) PROVE HeldInv'
  <2>1. Moves(t) /\ (Starts(t) \/ Sends(t) \/ GivesUp(t) \/ Takes(t))
    BY <1>6, ToolMoves
  <2>2. InService'
    BY <2>1 DEF HeldInv, InService, Moves, vars, dispVars
  <2>3. ASSUME NEW p \in Held' PROVE FromScript(p[1], p[2])
    <3>1. CASE p \in Held
      BY <3>1 DEF HeldInv
    <3>2. CASE Sends(t) /\ p[1] = t /\ p[2] = Current(tool[t])
      <4>1. GoodInvocation(t, tool[t]) /\ Live(tool[t])
        BY <3>2 DEF TInv, ToolsTyped, Sends, Live
      <4>2. FromScript(t, Current(tool[t]))
        BY <4>1, CurrentFromScript
      <4> QED BY <3>2, <4>2
    <3> QED BY <2>1, <3>1, <3>2, HeldMoves
  <2> QED BY <2>2, <2>3 DEF HeldInv
<1>7. CASE UNCHANGED <<vars, toolVars>>
  <2>1. toEcu' = toEcu /\ serving' = serving /\ dpc' = dpc /\ req' = req
    BY <1>7 DEF vars, toolVars, dispVars
  <2>2. InService'
    BY <2>1 DEF HeldInv, InService
  <2> QED BY <1>1, <2>1, <2>2, HeldSame
<1> QED BY <1>2, <1>3, <1>4, <1>5, <1>6, <1>7 DEF ToolNext, Ecu

-----------------------------------------------------------------------------
(* What positive answers say. *)

\* Where a message that was not dropped was before.
LEMMA MailDropped ==
    ASSUME NEW p, NEW q, NEW n \in Nat, Len(q) \in Nat, Dropped(p, q, n), NEW i \in 1..Len(p)
    PROVE  i + n \in 1..Len(q) /\ p[i] = q[i + n]
BY DEF Dropped

\* A positive answer that is left was there before.
LEMMA PositiveDropped ==
    ASSUME NEW p, NEW q, NEW n \in Nat, Len(q) \in Nat, Dropped(p, q, n), NEW sid, NEW sub,
           PositiveMail(p, sid, sub)
    PROVE  PositiveMail(q, sid, sub)
<1>1. PICK i \in 1..Len(p) : p[i].sid = sid /\ p[i].sub = sub /\ p[i].nrc = NO_NRC
  BY DEF PositiveMail
<1>2. i + n \in 1..Len(q) /\ p[i] = q[i + n]
  BY MailDropped
<1> QED BY <1>1, <1>2 DEF PositiveMail

\* Nobody is told anything by a tool's step.
LEMMA ToldMoves ==
    ASSUME TInv, NEW t \in Terminals, Moves(t), NEW sid, NEW sub, Told(sid, sub)'
    PROVE  Told(sid, sub)
<1>1. dpc' = dpc /\ req' = req /\ resp' = resp
  BY DEF Moves, vars, dispVars
<1>2. ASSUME NEW u \in Terminals, PositiveMail(inbox'[u], sid, sub)
      PROVE  PositiveMail(inbox[u], sid, sub)
  <2>1. CASE u # t
    BY <1>2, <2>1 DEF Moves
  <2>2. CASE u = t
    <3>1. PICK n \in Nat : Dropped(inbox'[t], inbox[t], n)
      BY DEF Moves
    <3>2. Len(inbox[t]) \in Nat
      BY DEF TInv, ToolsTyped
    <3> QED BY <1>2, <2>2, <3>1, <3>2, PositiveDropped
  <2> QED BY <2>1, <2>2
<1> QED BY <1>1, <1>2 DEF Told

\* What the tools are told, the ECU has said.
LEMMA ToldAnswered ==
    ASSUME TInv, EcuAnswers, NEW sid, NEW sub, Told(sid, sub)'
    PROVE  Told(sid, sub)
<1>1. /\ dpc' = "pop" /\ dpc = "respond" /\ Answer \in Mail
      /\ \A t \in Terminals : inbox'[t] = inbox[t] \/ inbox'[t] = Append(inbox[t], Answer)
  BY HeldAnswered
<1>2. PICK t \in Terminals : PositiveMail(inbox'[t], sid, sub)
  BY <1>1 DEF Told
<1>3. CASE inbox'[t] = inbox[t]
  BY <1>2, <1>3 DEF Told
<1>4. CASE inbox'[t] = Append(inbox[t], Answer)
  <2>1. PICK m \in Mail : m = Answer
    BY <1>1
  <2>2. inbox[t] \in Seq(Mail)
    BY DEF TInv, ToolsTyped
  <2>3. /\ Len(inbox[t]) \in Nat /\ Len(inbox'[t]) = Len(inbox[t]) + 1
        /\ \A i \in 1..Len(inbox[t]) : inbox'[t][i] = inbox[t][i]
        /\ inbox'[t][Len(inbox[t]) + 1] = m
    BY <1>4, <2>1, <2>2
  <2>4. PICK i \in 1..Len(inbox'[t]) :
           inbox'[t][i].sid = sid /\ inbox'[t][i].sub = sub /\ inbox'[t][i].nrc = NO_NRC
    BY <1>2 DEF PositiveMail
  <2>5. CASE i \in 1..Len(inbox[t])
    <3>1. PositiveMail(inbox[t], sid, sub)
      BY <2>3, <2>4, <2>5 DEF PositiveMail
    <3> QED BY <3>1 DEF Told
  <2>6. CASE i = Len(inbox[t]) + 1
    <3>1. m.sid = sid /\ m.sub = sub /\ m.nrc = NO_NRC
      BY <2>3, <2>4, <2>6
    <3>2. req.sid = sid /\ Sub(req) = sub /\ resp.nrc = NO_NRC
      BY <2>1, <3>1 DEF Answer
    <3> QED BY <1>1, <3>2 DEF Told
  <2>7. i \in 1..Len(inbox[t]) \/ i = Len(inbox[t]) + 1
    BY <2>3
  <2> QED BY <2>5, <2>6, <2>7
<1> QED BY <1>1, <1>3, <1>4

\* clear-dtc makes one request.
LEMMA ClearScript ==
    ASSUME NEW k, k.verb = "clear-dtc", NEW seed
    PROVE  Script(k, seed) = <<ClearDtc(TRUE)>>
BY DEF Script

\* A command that ends well was told so.
LEMMA EndsTold ==
    ASSUME TInv, NEW t \in Terminals, Takes(t), EndsWell(t)
    PROVE  /\ tool[t].cmd.verb = "clear-dtc" => Told(UDS_SID_CLEAR_DTC, 0)
           /\ tool[t].cmd.verb = "unlock" => Told(UDS_SID_SECURITY_ACCESS, 2)
<1>1. PICK v : v = tool[t]
  OBVIOUS
<1>2. PICK m : m = inbox[t][1]
  OBVIOUS
<1>3. /\ GoodInvocation(t, v) /\ Live(v) /\ inbox[t] # <<>> /\ inbox[t] \in Seq(Mail)
      /\ Answers(Current(v), m) /\ tool'[t].cmd = v.cmd /\ v.step >= Len(Steps(tool'[t]))
  BY <1>1, <1>2 DEF TInv, ToolsTyped, Takes, EndsWell, Live
<1>4. v.step \in 1..Len(Steps(v)) /\ v.step \in Nat /\ v.cmd \in Commands(t)
  BY <1>3 DEF GoodInvocation, InvocationType
<1>5. ASSUME NEW a, NEW b, Kind(Current(v))[1] = a, Kind(Current(v))[2] = b PROVE Told(a, b)
  <2>1. m.sid = a /\ m.sub = b /\ m.nrc = NO_NRC
    BY <1>3, <1>5 DEF Answers, Kind
  <2>2. 1 \in 1..Len(inbox[t])
    BY <1>3
  <2>3. PositiveMail(inbox[t], a, b)
    BY <1>2, <2>1, <2>2 DEF PositiveMail
  <2> QED BY <2>3 DEF Told
<1>6. ASSUME v.cmd.verb = "clear-dtc" PROVE Told(UDS_SID_CLEAR_DTC, 0)
  <2>0. Script(v.cmd, v.seed) = <<ClearDtc(TRUE)>>
    BY <1>6, ClearScript
  <2>1. Steps(v) = <<ClearDtc(TRUE)>>
    BY <2>0 DEF Steps
  <2>2. Len(Steps(v)) = 1 /\ Steps(v)[1] = ClearDtc(TRUE)
    BY <2>1
  <2>3. Current(v) = ClearDtc(TRUE)
    <3>1. v.step = 1
      BY <1>4, <2>2
    <3> QED BY <2>2, <3>1 DEF Current
  <2>4. Kind(Current(v)) = <<UDS_SID_CLEAR_DTC, 0, "none">>
    BY <2>3, KindOf, Zenon
  <2> QED BY <1>5, <2>4
<1>7. ASSUME v.cmd.verb = "unlock" PROVE Told(UDS_SID_SECURITY_ACCESS, 2)
  <2>1. /\ Steps(v) = <<Extended, RequestSeed, SendKey(KeyFor(v.seed))>>
        /\ Steps(tool'[t]) = <<Extended, RequestSeed, SendKey(KeyFor(tool'[t].seed))>>
    BY <1>3, <1>7, UnlockScript DEF Steps
  <2>2. Len(Steps(v)) = 3 /\ Steps(v)[3] = SendKey(KeyFor(v.seed)) /\ Len(Steps(tool'[t])) = 3
    BY <2>1
  <2>3. v.step = 3
    BY <1>3, <1>4, <2>2
  <2>4. Current(v) = SendKey(KeyFor(v.seed))
    BY <2>2, <2>3 DEF Current
  <2>5. Kind(Current(v)) = <<UDS_SID_SECURITY_ACCESS, 2, "none">>
    BY <2>4, KindOf, Zenon
  <2> QED BY <1>5, <2>5
<1> QED BY <1>1, <1>6, <1>7

\* A command that a terminal's step ends well.
LEMMA NewlyEnded ==
    ASSUME TInv, NEW t \in Terminals, Moves(t), Starts(t) \/ Sends(t) \/ GivesUp(t) \/ Takes(t),
           NEW verb \in Verbs \ {"monitor"}, NEW u \in Terminals, Ended(u, verb, EXIT_OK)'
    PROVE  Ended(u, verb, EXIT_OK) \/ (u = t /\ Takes(t) /\ EndsWell(t) /\ tool[t].cmd.verb = verb)
<1>0. EXIT_OK \notin {SENDING, WAITING, EXIT_IO} /\ tool'[u].cmd.verb = verb /\ tool'[u].status = EXIT_OK
  BY DEF EXIT_OK, SENDING, WAITING, EXIT_IO, Ended
<1>1. CASE u # t
  BY <1>1 DEF Moves, Ended
<1>2. CASE u = t
  <2>1. CASE Starts(t)
    <3>1. PICK k \in Commands(t), status \in {EXIT_IO, SENDING} : tool'[t] = Invocation(k, status)
      BY <2>1 DEF Starts
    <3>2. tool'[t].status \in {EXIT_IO, SENDING}
      BY <3>1 DEF Invocation
    <3> QED BY <1>0, <1>2, <3>2
  <2>2. ~Sends(t)
    BY <1>0, <1>2 DEF Sends
  <2>3. ~GivesUp(t)
    BY <1>0, <1>2 DEF GivesUp
  <2>4. CASE Takes(t)
    <3>1. tool[t].cmd.verb = verb /\ verb # "monitor"
      BY <1>0, <1>2, <2>4 DEF Takes
    <3>2. EndsWell(t)
      BY <1>0, <1>2, <2>4, <3>1 DEF Takes, GoesOn
    <3> QED BY <1>2, <2>4, <3>1, <3>2
  <2> QED BY <2>1, <2>2, <2>3, <2>4
<1> QED BY <1>1, <1>2

\* What holds of the ECU without a change of it.
LEMMA TruthKept ==
    ASSUME TruthInv, dtcs' = dtcs, Open => Open', spc' = "relock" => defaultBy' = "s3",
           \A sid, sub : Told(sid, sub)' => Told(sid, sub),
           \A t \in Terminals : /\ Ended(t, "clear-dtc", EXIT_OK)' => dtcs = {}
                                /\ Ended(t, "unlock", EXIT_OK)' => Open
    PROVE  TruthInv'
<1>1. Told(UDS_SID_CLEAR_DTC, 0)' => dtcs' = {}
  BY DEF TruthInv
<1>2. Told(UDS_SID_SECURITY_ACCESS, 2)' => Open'
  BY DEF TruthInv
<1>3. \A t \in Terminals : /\ Ended(t, "clear-dtc", EXIT_OK)' => dtcs' = {}
                           /\ Ended(t, "unlock", EXIT_OK)' => Open'
  OBVIOUS
<1> QED BY <1>1, <1>2, <1>3 DEF TruthInv

\* A step of a tool keeps what positive answers say true, ...
LEMMA ToolTruth ==
    ASSUME TInv, TruthInv, NEW t \in Terminals, Moves(t),
           Starts(t) \/ Sends(t) \/ GivesUp(t) \/ Takes(t)
    PROVE  TruthInv'
<1>1. dtcs' = dtcs /\ sec' = sec /\ defaultBy' = defaultBy /\ spc' = spc
  BY DEF Moves, vars, ecuVars, s3Vars
<1>2. Open => Open'
  BY <1>1 DEF Open, Unlocked
<1>3. \A sid, sub : Told(sid, sub)' => Told(sid, sub)
  BY ToldMoves
<1>4. ASSUME NEW u \in Terminals, Ended(u, "clear-dtc", EXIT_OK)' PROVE dtcs = {}
  <2>1. "clear-dtc" \in Verbs \ {"monitor"}
    BY DEF Verbs
  <2> QED BY <1>4, <2>1, NewlyEnded, EndsTold DEF TruthInv
<1>5. ASSUME NEW u \in Terminals, Ended(u, "unlock", EXIT_OK)' PROVE Open
  <2>1. "unlock" \in Verbs \ {"monitor"}
    BY DEF Verbs
  <2> QED BY <1>5, <2>1, NewlyEnded, EndsTold DEF TruthInv
<1>6. spc' = "relock" => defaultBy' = "s3"
  BY <1>1 DEF TruthInv
<1> QED BY <1>1, <1>2, <1>3, <1>4, <1>5, <1>6, TruthKept

\* ... so does a handler ...
LEMMA HandlesTruth ==
    ASSUME TInv, HeldInv, TruthInv, EcuHandles
    PROVE  TruthInv'
<1>1. req' = req /\ defaultBy' = defaultBy /\ spc' = spc /\ Serves /\ dpc # "respond"
  BY EcuServes
<1>2. tool' = tool /\ inbox' = inbox
  BY EcuInside
<1>3. \A t \in Terminals : \A verb : Ended(t, verb, EXIT_OK)' <=> Ended(t, verb, EXIT_OK)
  BY <1>2 DEF Ended
<1>4. ASSUME NEW sid, NEW sub, Told(sid, sub)'
      PROVE  Told(sid, sub) \/ (dpc' = "respond" /\ req.sid = sid /\ Sub(req) = sub /\ resp'.nrc = NO_NRC)
  BY <1>1, <1>2, <1>4 DEF Told
<1>5. sec.unlocked_level \in {0, 1} /\ sec'.unlocked_level \in {0, 1}
  <2>1. TInv'
    BY HandlesTInv
  <2> QED BY <2>1 DEF TInv, VInv, TypeOK, SecurityState
<1>6. Open => Open'
  BY <1>1, <1>5 DEF Open, Unlocked, security_is_unlocked, Serves, ServesQuietly, ServesClear, ServesSeed,
     ServesKey, ServesWrite
<1>7. dtcs' = dtcs \/ dtcs' = {}
  BY <1>1 DEF Serves, ServesQuietly, ServesClear, ServesSeed, ServesKey, ServesWrite
<1>8. ASSUME dpc' = "respond", req.sid = UDS_SID_CLEAR_DTC, resp'.nrc = NO_NRC PROVE dtcs' = {}
  <2>1. ServesClear
    BY <1>1, <1>8, Sids DEF Serves, ServesQuietly, ServesSeed, ServesKey, ServesWrite
  <2> QED BY <2>1 DEF ServesClear
<1>9. ASSUME dpc' = "respond", req.sid = UDS_SID_SECURITY_ACCESS, Sub(req) = 2, resp'.nrc = NO_NRC
      PROVE  Open'
  <2>1. ServesKey
    BY <1>1, <1>9, Sids DEF Serves, ServesQuietly, ServesSeed, ServesClear, ServesWrite
  <2> QED BY <1>9, <2>1 DEF ServesKey, Open, Unlocked, security_is_unlocked
<1>10. Told(UDS_SID_CLEAR_DTC, 0)' => dtcs' = {}
  BY <1>4, <1>7, <1>8 DEF TruthInv
<1>11. Told(UDS_SID_SECURITY_ACCESS, 2)' => Open'
  BY <1>4, <1>6, <1>9 DEF TruthInv
<1>12. \A t \in Terminals : /\ Ended(t, "clear-dtc", EXIT_OK)' => dtcs' = {}
                            /\ Ended(t, "unlock", EXIT_OK)' => Open'
  BY <1>3, <1>6, <1>7 DEF TruthInv
<1>13. spc' = "relock" => defaultBy' = "s3"
  BY <1>1 DEF TruthInv
<1> QED BY <1>10, <1>11, <1>12, <1>13 DEF TruthInv

\* ... and everything else the ECU does.
LEMMA EcuTruth ==
    ASSUME TInv, TruthInv, EcuTakes \/ EcuAnswers \/ EcuTimer \/ TimePasses
    PROVE  TruthInv'
<1>1. tool' = tool /\ dtcs' = dtcs
  BY HeldTaken, HeldAnswered, EcuInside DEF ecuVars
<1>2. \A t \in Terminals : /\ Ended(t, "clear-dtc", EXIT_OK)' => dtcs = {}
                           /\ Ended(t, "unlock", EXIT_OK)' => Open
  BY <1>1 DEF TruthInv, Ended
<1>3. \A sid, sub : Told(sid, sub)' => Told(sid, sub)
  <2>1. CASE EcuTakes
    <3>1. dpc' = "handle" /\ inbox' = inbox
      BY <2>1, HeldTaken
    <3> QED BY <3>1 DEF Told
  <2>2. CASE EcuAnswers
    BY <2>2, ToldAnswered
  <2>3. CASE EcuTimer \/ TimePasses
    <3>1. dpc' = dpc /\ req' = req /\ resp' = resp /\ inbox' = inbox
      BY <2>3, EcuInside
    <3> QED BY <3>1 DEF Told
  <2> QED BY <2>1, <2>2, <2>3
<1>4. (Open => Open') /\ (spc' = "relock" => defaultBy' = "s3")
  <2>1. CASE sec' = sec /\ defaultBy' = defaultBy /\ spc' = spc
    BY <2>1 DEF Open, Unlocked, TruthInv
  <2>2. CASE EcuTakes \/ EcuAnswers
    <3>1. sec' = sec /\ defaultBy' = defaultBy /\ spc' = spc
      BY <2>2, HeldTaken, HeldAnswered DEF ecuVars, s3Vars
    <3> QED BY <2>1, <3>1
  <2>3. CASE EcuTimer \/ TimePasses
    <3>1. S3 \/ Tick
      BY <2>3 DEF EcuTimer, TimePasses
    <3>2. CASE S3Poll \/ S3ReadNow \/ S3ReadTp \/ Tick
      <4>1. sec' = sec /\ defaultBy' = defaultBy /\ (spc' = spc \/ spc' # "relock")
        BY <3>2 DEF S3Poll, S3ReadNow, S3ReadTp, Tick, ecuVars, s3Vars
      <4> QED BY <4>1 DEF Open, Unlocked, TruthInv
    <3>3. CASE S3Revert
      BY <3>3 DEF S3Revert, vecu_set_session, Open
    <3>4. CASE S3Relock
      BY <3>4 DEF S3Relock, Open, TruthInv
    <3> QED BY <3>1, <3>2, <3>3, <3>4 DEF S3
  <2> QED BY <2>2, <2>3
<1> QED BY <1>1, <1>2, <1>3, <1>4, TruthKept

\* What a positive answer to ClearDTC or to a key says stays true.
LEMMA NextTruthInv == TInv /\ HeldInv /\ TruthInv /\ [ToolNext]_<<vars, toolVars>> => TruthInv'
<1> SUFFICES ASSUME TInv, HeldInv, TruthInv, [ToolNext]_<<vars, toolVars>> PROVE TruthInv'
  OBVIOUS
<1>1. ASSUME NEW t \in Terminals, Tool(t) \/ \E k \in Commands(t) : Start(t, k) PROVE TruthInv'
  BY <1>1, ToolMoves, ToolTruth
<1>2. CASE UNCHANGED <<vars, toolVars>>
  <2>1. /\ dtcs' = dtcs /\ sec' = sec /\ defaultBy' = defaultBy /\ spc' = spc /\ tool' = tool /\ inbox' = inbox
        /\ dpc' = dpc /\ req' = req /\ resp' = resp
    BY <1>2 DEF vars, toolVars, ecuVars, s3Vars, dispVars
  <2>2. \A sid, sub : Told(sid, sub)' => Told(sid, sub)
    BY <2>1 DEF Told
  <2>3. Open => Open'
    BY <2>1 DEF Open, Unlocked
  <2>4. \A t \in Terminals : /\ Ended(t, "clear-dtc", EXIT_OK)' => dtcs = {}
                             /\ Ended(t, "unlock", EXIT_OK)' => Open
    BY <2>1 DEF TruthInv, Ended
  <2>5. spc' = "relock" => defaultBy' = "s3"
    BY <2>1 DEF TruthInv
  <2> QED BY <2>1, <2>2, <2>3, <2>4, <2>5, TruthKept
<1> QED BY <1>1, <1>2, HandlesTruth, EcuTruth DEF ToolNext, Ecu

-----------------------------------------------------------------------------
(* How lines change. *)

\* The line of a terminal, entry by entry, ...
LEMMA LineOf ==
    ASSUME TInv, NEW w \in Terminals
    PROVE  InHandCount \in {0, 1} /\ Entries(Line(w), inbox[w], InHandCount, req, toEcu)
<1>1. InHandCount \in {0, 1}
  BY DEF InHandCount
<1>2. inbox[w] \in Seq(Mail) /\ toEcu \in Seq(Terminals \X Requests)
  BY DEF TInv, ToolsTyped, EcuTyped
<1> QED BY <1>1, <1>2, LineEntries DEF Line

\* ... and after a step.
LEMMA LineNext ==
    ASSUME TInv', NEW w \in Terminals
    PROVE  InHandCount' \in {0, 1} /\ Entries(Line(w)', inbox'[w], InHandCount', req', toEcu')
<1>1. InHandCount' \in {0, 1}
  BY DEF InHandCount
<1>2. inbox'[w] \in Seq(Mail) /\ toEcu' \in Seq(Terminals \X Requests)
  BY DEF TInv, ToolsTyped, EcuTyped
<1>3. Entries(Lined(inbox'[w], InHandCount', req', toEcu'), inbox'[w], InHandCount', req', toEcu')
  BY <1>1, <1>2, LineEntries
<1>4. Line(w)' = Lined(inbox'[w], InHandCount', req', toEcu')
  BY DEF Line
<1> QED BY <1>1, <1>3, <1>4

\* Messages that are dropped leave the line.
LEMMA LineDropped ==
    ASSUME TInv, TInv', NEW w \in Terminals, NEW n \in Nat, Dropped(inbox'[w], inbox[w], n),
           serving' = serving, req' = req, toEcu' = toEcu
    PROVE  Cut(Line(w)', Line(w), 0, n)
<1>1. InHandCount \in {0, 1} /\ InHandCount' = InHandCount
  BY DEF InHandCount
<1>2. Entries(Line(w), inbox[w], InHandCount, req, toEcu)
  BY LineOf
<1>3. Entries(Line(w)', inbox'[w], InHandCount, req, toEcu)
  BY <1>1, LineNext
<1>4. n \in 0..Len(inbox[w]) /\ Len(inbox'[w]) = Len(inbox[w]) - n
      /\ \A i \in 1..Len(inbox'[w]) : inbox'[w][i] = inbox[w][i + n]
  BY DEF Dropped
<1> QED BY <1>1, <1>2, <1>3, <1>4, LineDrops

\* Nothing was dropped.
LEMMA NoneDropped ==
    ASSUME NEW q \in Seq(Mail)
    PROVE  Dropped(q, q, 0)
BY DEF Dropped

\* L2 is what is left of L1.
Shorter(L2, L1) == \E a, n \in Nat : Cut(L2, L1, a, n)

\* What a step in terminal t does to a line.
LEMMA LineMoves ==
    ASSUME TInv, TInv', NEW t \in Terminals, Moves(t),
           Starts(t) \/ Sends(t) \/ GivesUp(t) \/ Takes(t),
           NEW w \in Terminals
    PROVE  \/ Shorter(Line(w)', Line(w))
           \/ /\ Sends(t)
              /\ \E M : Shorter(M, Line(w)) /\ Longer(Line(w)', M, Kind(Current(tool[t])))
<1>1. serving' = serving /\ req' = req /\ InHandCount' = InHandCount /\ InHandCount \in {0, 1}
  BY DEF Moves, vars, dispVars, InHandCount
<1>2. inbox[w] \in Seq(Mail) /\ inbox'[w] \in Seq(Mail) /\ toEcu \in Seq(Terminals \X Requests)
  BY DEF TInv, ToolsTyped, EcuTyped
<1>3. PICK n \in Nat : Dropped(inbox'[w], inbox[w], n)
  <2>1. CASE w = t
    BY <2>1 DEF Moves
  <2>2. CASE w # t
    <3>1. inbox'[w] = inbox[w]
      BY <2>2 DEF Moves
    <3> QED BY <1>2, <3>1, NoneDropped
  <2> QED BY <2>1, <2>2
<1>4. CASE toEcu' = toEcu
  <2>1. Cut(Line(w)', Line(w), 0, n)
    BY <1>1, <1>3, <1>4, LineDropped
  <2> QED BY <2>1 DEF Shorter
<1>5. CASE ~(toEcu' = toEcu)
  <2>1. Sends(t) /\ toEcu' = Append(toEcu, <<t, Current(tool[t])>>) /\ Current(tool[t]) \in Requests
    BY <1>5 DEF Starts, Sends, GivesUp, Takes
  <2>2. PICK r : r = <<t, Current(tool[t])>>
    OBVIOUS
  <2>3. r \in Terminals \X Requests /\ toEcu' = Append(toEcu, r) /\ r[2] = Current(tool[t])
    BY <2>1, <2>2
  <2>4. PICK M : M = Lined(inbox'[w], InHandCount, req, toEcu)
    OBVIOUS
  <2>5. Entries(M, inbox'[w], InHandCount, req, toEcu)
    BY <1>1, <1>2, <2>4, LineEntries
  <2>6. Entries(Line(w), inbox[w], InHandCount, req, toEcu)
    BY LineOf
  <2>7. Entries(Line(w)', inbox'[w], InHandCount, req, Append(toEcu, r))
    BY <1>1, <2>3, LineNext
  <2>8. n \in 0..Len(inbox[w]) /\ Len(inbox'[w]) = Len(inbox[w]) - n
        /\ \A i \in 1..Len(inbox'[w]) : inbox'[w][i] = inbox[w][i + n]
    BY <1>3 DEF Dropped
  <2>9. Cut(M, Line(w), 0, n)
    BY <1>1, <2>5, <2>6, <2>8, LineDrops
  <2>10. Longer(Line(w)', M, Kind(r[2]))
    BY <1>1, <1>2, <2>3, <2>5, <2>7, LineSent
  <2>11. Shorter(M, Line(w))
    BY <2>9 DEF Shorter
  <2> QED BY <2>1, <2>3, <2>10, <2>11
<1> QED BY <1>4, <1>5

\* The kind of an answer is the kind of the request.
LEMMA AnswerKind == MailKind(Answer) = Kind(req)
BY DEF MailKind, Answer, Kind

\* The ECU adds nothing to a line.
LEMMA LineEcu ==
    ASSUME TInv, TInv', HeldInv, Ecu \/ TimePasses, NEW w \in Terminals
    PROVE  Shorter(Line(w)', Line(w))
<1>1. Entries(Line(w), inbox[w], InHandCount, req, toEcu)
  BY LineOf
<1>2. Entries(Line(w)', inbox'[w], InHandCount', req', toEcu')
  BY LineNext
<1>3. CASE EcuTakes
  <2>1. /\ toEcu # <<>> /\ toEcu \in Seq(Terminals \X Requests) /\ toEcu' = Tail(toEcu)
        /\ req' = Head(toEcu)[2] /\ InHandCount = 0 /\ InHandCount' = 1 /\ inbox' = inbox
    BY <1>3, HeldTaken DEF InHandCount
  <2>2. Entries(Line(w), inbox[w], 0, req, toEcu)
    BY <1>1, <2>1
  <2>3. Entries(Line(w)', inbox[w], 1, Head(toEcu)[2], Tail(toEcu))
    BY <1>2, <2>1
  <2>4. Cut(Line(w)', Line(w), 0, 0)
    BY <2>1, <2>2, <2>3, LineTaken
  <2> QED BY <2>4 DEF Shorter
<1>4. CASE EcuAnswers
  <2>1. /\ toEcu' = toEcu /\ InHandCount = 1 /\ InHandCount' = 0 /\ Answer \in Mail
        /\ inbox'[w] = inbox[w] \/ inbox'[w] = Append(inbox[w], Answer)
    BY <1>4, HeldAnswered DEF InHandCount
  <2>2. Entries(Line(w), inbox[w], 1, req, toEcu) /\ Entries(Line(w)', inbox'[w], 0, req', toEcu)
    BY <1>1, <1>2, <2>1
  <2>3. inbox[w] \in Seq(Mail)
    BY DEF TInv, ToolsTyped
  <2>4. CASE inbox'[w] = inbox[w]
    <3>1. Entries(Line(w)', inbox[w], 0, req', toEcu)
      BY <2>2, <2>4
    <3>2. Cut(Line(w)', Line(w), Len(inbox[w]), 1) /\ Len(inbox[w]) \in Nat
      BY <2>2, <2>3, <3>1, LineLost
    <3> QED BY <3>2 DEF Shorter
  <2>5. CASE inbox'[w] = Append(inbox[w], Answer)
    <3>1. PICK m \in Mail : m = Answer
      BY <2>1
    <3>2. MailKind(m) = Kind(req) /\ Entries(Line(w)', Append(inbox[w], m), 0, req', toEcu)
      BY <2>2, <2>5, <3>1, AnswerKind
    <3>3. Cut(Line(w)', Line(w), 0, 0)
      BY <2>2, <2>3, <3>2, LineAnswered
    <3> QED BY <3>3 DEF Shorter
  <2> QED BY <2>1, <2>4, <2>5
<1>5. CASE EcuHandles \/ EcuTimer \/ TimePasses
  <2>1. toEcu' = toEcu /\ serving' = serving /\ inbox' = inbox /\ req' = req
    BY <1>5, EcuInside, EcuServes
  <2>2. Dropped(inbox'[w], inbox[w], 0)
    <3>1. inbox[w] \in Seq(Mail)
      BY DEF TInv, ToolsTyped
    <3> QED BY <2>1, <3>1, NoneDropped
  <2>3. Cut(Line(w)', Line(w), 0, 0)
    BY <2>1, <2>2, LineDropped
  <2> QED BY <2>3 DEF Shorter
<1> QED BY <1>3, <1>4, <1>5 DEF Ecu

\* What has a place in a line: the messages received, the request in hand, the requests on their way.
LEMMA PlaceOfMail ==
    ASSUME TInv, NEW w \in Terminals, NEW i \in 1..Len(inbox[w])
    PROVE  i \in DOMAIN Line(w) /\ Line(w)[i] = MailKind(inbox[w][i])
<1>1. InHandCount \in {0, 1} /\ Entries(Line(w), inbox[w], InHandCount, req, toEcu)
  BY LineOf
<1> QED BY <1>1 DEF Entries

\* The request in hand follows the messages received, ...
LEMMA PlaceInHand ==
    ASSUME TInv, NEW w \in Terminals, serving # Nobody
    PROVE  /\ Len(inbox[w]) + 1 \in DOMAIN Line(w)
           /\ Line(w)[Len(inbox[w]) + 1] = Kind(req)
<1>1. InHandCount = 1 /\ Entries(Line(w), inbox[w], InHandCount, req, toEcu)
  BY LineOf DEF InHandCount
<1> QED BY <1>1 DEF Entries

\* ... and the requests on their way follow it.
LEMMA PlaceOnTheWay ==
    ASSUME TInv, NEW w \in Terminals, NEW i \in 1..Len(toEcu)
    PROVE  /\ Len(inbox[w]) + InHandCount + i \in DOMAIN Line(w)
           /\ Line(w)[Len(inbox[w]) + InHandCount + i] = Kind(toEcu[i][2])
<1>1. InHandCount \in {0, 1} /\ Entries(Line(w), inbox[w], InHandCount, req, toEcu)
  BY LineOf
<1>2. Len(toEcu) \in Nat
  BY <1>1 DEF Entries
<1> QED BY <1>1, <1>2 DEF Entries

\* Every request the ECU holds is in the line of every terminal.
LEMMA PlaceOfHeld ==
    ASSUME TInv, NEW w \in Terminals, NEW p \in Held
    PROVE  \E i \in DOMAIN Line(w) : Line(w)[i] = Kind(p[2])
<1>1. CASE serving # Nobody /\ p = <<serving, req>>
  <2>1. Kind(p[2]) = Kind(req)
    BY <1>1
  <2> QED BY <1>1, <2>1, PlaceInHand
<1>2. ASSUME NEW i \in 1..Len(toEcu), p = toEcu[i]
      PROVE  \E j \in DOMAIN Line(w) : Line(w)[j] = Kind(p[2])
  BY <1>2, PlaceOnTheWay
<1> QED BY <1>1, <1>2 DEF Held

\* Nothing but requests of the monitor is left when the tool is not behind and has received nothing.
LEMMA NoStrays ==
    ASSUME TInv, HeldInv, NEW w \in Terminals, OnlyWriter(w), ~Behind(w), inbox[w] = <<>>
    PROVE  Strays(Line(w)) = {}
<1>1. InHandCount \in {0, 1} /\ Entries(Line(w), inbox[w], InHandCount, req, toEcu)
  BY LineOf
<1>2. toEcu \in Seq(Terminals \X Requests)
  BY DEF TInv, EcuTyped
<1>3. ASSUME NEW i \in DOMAIN Line(w) PROVE Line(w)[i] \in MonitorKinds
  <2>1. From(i, Len(inbox[w]), InHandCount, Len(toEcu))
    BY <1>1, LineParts
  <2>2. ~(i \in 1..Len(inbox[w]))
    OBVIOUS
  <2>3. CASE InHandCount = 1 /\ i = Len(inbox[w]) + 1
    <3>1. serving # Nobody /\ serving # w
      BY <2>3 DEF InHandCount, Behind
    <3>2. serving \in Terminals /\ FromScript(serving, req)
      <4>1. dpc # "pop"
        BY <3>1 DEF TInv, EcuTyped
      <4> QED BY <4>1, InHandShape
    <3>3. Kind(req) \in MonitorKinds
      BY <3>1, <3>2, FromScriptFacts
    <3> QED BY <2>3, <3>1, <3>3, PlaceInHand
  <2>4. ASSUME NEW j \in 1..Len(toEcu), i = Len(inbox[w]) + InHandCount + j
        PROVE  Line(w)[i] \in MonitorKinds
    <3>1. PICK p : p = toEcu[j]
      OBVIOUS
    <3>2. p \in Held /\ p[1] # w /\ p[1] \in Terminals
      BY <1>2, <3>1 DEF Held, Behind
    <3>3. FromScript(p[1], p[2])
      BY <3>2 DEF HeldInv
    <3>4. Kind(p[2]) \in MonitorKinds
      BY <3>2, <3>3, FromScriptFacts
    <3> QED BY <2>4, <3>1, <3>4, PlaceOnTheWay
  <2> QED BY <2>1, <2>2, <2>3, <2>4 DEF From
<1> QED BY <1>3 DEF Strays

\* The requests of other terminals are the monitor's.
LEMMA OthersMonitor ==
    ASSUME TInv, NEW t \in Terminals, Live(tool[t]), NEW w \in Terminals, OnlyWriter(w),
           t # w \/ tool[t].cmd.verb = "monitor"
    PROVE  Kind(Current(tool[t])) \in MonitorKinds
<1>1. PICK v : v = tool[t]
  OBVIOUS
<1>2. GoodInvocation(t, v) /\ v.cmd \in Commands(t) /\ v.step \in 1..Len(Steps(v))
  BY <1>1 DEF TInv, ToolsTyped, GoodInvocation
<1>3. v.cmd.verb = "monitor"
  BY <1>1, <1>2 DEF OnlyWriter
<1>4. Steps(v) = cmd_monitor
  BY <1>3, ScriptLength DEF Steps, Verbs
<1>5. v.step \in 1..3
  <2>1. Len(cmd_monitor) = 3
    BY DEF cmd_monitor
  <2> QED BY <1>2, <1>4, <2>1
<1>6. Current(v) = cmd_monitor[v.step]
  BY <1>4 DEF Current
<1> QED BY <1>1, <1>5, <1>6, StrayKinds

\* A shorter line keeps the lag.
LEMMA LagShorter ==
    ASSUME NEW v, NEW L1, NEW L2, Shorter(L2, L1), NEW o, LagOf(v, L1, o)
    PROVE  LagOf(v, L2, o)
<1>1. PICK a \in Nat, n \in Nat : Cut(L2, L1, a, n)
  BY DEF Shorter
<1> QED BY <1>1, LagCut

\* The lag of a tool after a step of another one.
LEMMA LagOther ==
    ASSUME TInv, TInv', [ToolNext]_<<vars, toolVars>>, NEW w \in Terminals, OnlyWriter(w),
           LagOf(tool[w], Line(w), spent.overtakes),
           NEW t \in Terminals, t # w, Moves(t), Starts(t) \/ Sends(t) \/ GivesUp(t) \/ Takes(t)
    PROVE  LagOf(tool'[w], Line(w)', spent'.overtakes)
<1>1. tool'[w] = tool[w]
  BY DEF Moves
<1>2. GoodInvocation(w, tool[w])
  BY DEF TInv, ToolsTyped
<1>3. spent.overtakes \in Nat /\ spent'.overtakes \in Nat /\ spent.overtakes <= spent'.overtakes
  BY OvertakesGrow
<1>4. LagOf(tool[w], Line(w)', spent.overtakes)
  <2>1. CASE Shorter(Line(w)', Line(w))
    BY <2>1, LagShorter
  <2>2. ASSUME Sends(t), NEW M, Shorter(M, Line(w)), Longer(Line(w)', M, Kind(Current(tool[t])))
        PROVE  LagOf(tool[w], Line(w)', spent.overtakes)
    <3>1. LagOf(tool[w], M, spent.overtakes)
      BY <2>2, LagShorter
    <3>2. Kind(Current(tool[t])) \in MonitorKinds
      BY <2>2, OthersMonitor DEF Sends, Live
    <3> QED BY <2>2, <3>1, <3>2, LagMonitor
  <2> QED BY <2>1, <2>2, LineMoves
<1> QED BY <1>1, <1>2, <1>3, <1>4, LagMore

\* The lag of a tool after a step of its own.
LEMMA LagStartsOwn ==
    ASSUME TInv, TInv', HeldInv, [ToolNext]_<<vars, toolVars>>, NEW w \in Terminals, OnlyWriter(w),
           LagOf(tool[w], Line(w), spent.overtakes), Moves(w), Starts(w)
    PROVE  LagOf(tool'[w], Line(w)', spent'.overtakes)
<1>1. ~Live(tool[w]) /\ GoodInvocation(w, tool[w]) /\ GoodInvocation(w, tool'[w]) /\ inbox[w] = <<>>
  BY DEF TInv, ToolsTyped, Starts
<1>2. spent.overtakes \in Nat /\ spent'.overtakes \in Nat /\ spent.overtakes <= spent'.overtakes
  BY OvertakesGrow
<1>3. Shorter(Line(w)', Line(w))
  <2>1. ~Sends(w)
    BY <1>1 DEF Sends, Live
  <2> QED BY <2>1, LineMoves
<1>4. PICK k \in Commands(w), status \in {EXIT_IO, SENDING} : tool'[w] = Invocation(k, status)
  BY DEF Starts
<1>5. tool'[w].step = 1 /\ tool'[w].status = status
  BY <1>4 DEF Invocation
<1>6. LagOf(tool'[w], Line(w), spent'.overtakes)
  <2>1. CASE status = EXIT_IO
    <3>1. ~Live(tool'[w])
      BY <1>5, <2>1 DEF Live, EXIT_IO, SENDING, WAITING
    <3>2. LagOf(tool'[w], Line(w), spent.overtakes)
      BY <1>1, <1>2, <3>1, LagEnds
    <3> QED BY <1>1, <1>2, <3>2, LagMore
  <2>2. CASE status = SENDING
    <3>1. \/ spent'.overtakes = spent.overtakes + 1
          \/ spent'.overtakes = spent.overtakes /\ Strays(Line(w)) = {}
      <4>1. CASE Behind(w)
        BY <4>1 DEF Starts
      <4>2. CASE ~Behind(w)
        <5>1. Strays(Line(w)) = {}
          BY <1>1, <4>2, NoStrays
        <5>2. spent'.overtakes = spent.overtakes
          BY <1>2, <4>2 DEF Starts
        <5> QED BY <5>1, <5>2
      <4> QED BY <4>1, <4>2
    <3> QED BY <1>1, <1>2, <1>5, <2>2, <3>1, LagStarts
  <2> QED BY <2>1, <2>2
<1> QED BY <1>3, <1>6, LagShorter

\* It sends its next request, ...
LEMMA LagSendsOwn ==
    ASSUME TInv, TInv', [ToolNext]_<<vars, toolVars>>, NEW w \in Terminals, OnlyWriter(w),
           LagOf(tool[w], Line(w), spent.overtakes), Moves(w), Sends(w)
    PROVE  LagOf(tool'[w], Line(w)', spent'.overtakes)
<1>1. /\ GoodInvocation(w, tool[w]) /\ GoodInvocation(w, tool'[w])
      /\ tool[w].status = SENDING /\ Live(tool[w]) /\ tool'[w].status = WAITING
      /\ tool'[w].cmd = tool[w].cmd /\ tool'[w].step = tool[w].step /\ tool'[w].seed = tool[w].seed
  BY DEF TInv, ToolsTyped, Sends, Live
<1>2. spent.overtakes \in Nat /\ spent'.overtakes \in Nat /\ spent.overtakes <= spent'.overtakes
  BY OvertakesGrow
<1>3. PICK M : Shorter(M, Line(w)) /\ (Line(w)' = M \/ Longer(Line(w)', M, Kind(Current(tool[w]))))
  <2>1. CASE Shorter(Line(w)', Line(w))
    BY <2>1
  <2> QED BY <2>1, LineMoves
<1>4. LagOf(tool[w], M, spent.overtakes)
  BY <1>3, LagShorter
<1>5. CASE tool[w].cmd.verb # "monitor"
  <2>1. LagOf(tool'[w], Line(w)', spent.overtakes)
    BY <1>1, <1>2, <1>3, <1>4, <1>5, LagSends
  <2>2. spent'.overtakes = spent.overtakes
    BY <1>5 DEF Sends
  <2> QED BY <2>1, <2>2
<1>6. CASE tool[w].cmd.verb = "monitor"
  <2>1. Kind(Current(tool[w])) \in MonitorKinds
    BY <1>1, <1>6, OthersMonitor
  <2>2. LagOf(tool[w], Line(w)', spent.overtakes)
    <3>1. CASE Line(w)' = M
      BY <1>4, <3>1
    <3>2. CASE Longer(Line(w)', M, Kind(Current(tool[w])))
      BY <1>4, <2>1, <3>2, LagMonitor
    <3> QED BY <1>3, <3>1, <3>2
  <2>3. LagOf(tool'[w], Line(w)', spent.overtakes)
    BY <1>1, <1>2, <1>6, <2>2, LagEnds
  <2> QED BY <1>1, <1>2, <2>3, LagMore
<1> QED BY <1>5, <1>6

\* ... ends, ...
LEMMA LagGivesUpOwn ==
    ASSUME TInv, TInv', [ToolNext]_<<vars, toolVars>>, NEW w \in Terminals,
           LagOf(tool[w], Line(w), spent.overtakes), Moves(w), GivesUp(w) \/ Takes(w),
           ~(Live(tool'[w]) /\ tool'[w].cmd.verb # "monitor")
    PROVE  LagOf(tool'[w], Line(w)', spent'.overtakes)
<1>1. GoodInvocation(w, tool[w]) /\ spent'.overtakes = spent.overtakes
  BY DEF TInv, ToolsTyped, GivesUp, Takes
<1>2. spent.overtakes \in Nat
  BY OvertakesGrow
<1>3. Shorter(Line(w)', Line(w))
  <2>1. PICK n \in Nat : Dropped(inbox'[w], inbox[w], n)
    BY DEF Moves
  <2>2. serving' = serving /\ req' = req /\ toEcu' = toEcu
    BY DEF Moves, vars, dispVars, GivesUp, Takes
  <2>3. Cut(Line(w)', Line(w), 0, n)
    BY <2>1, <2>2, LineDropped
  <2> QED BY <2>3 DEF Shorter
<1>4. LagOf(tool[w], Line(w)', spent.overtakes)
  BY <1>3, LagShorter
<1>5. LagOf(tool'[w], Line(w)', spent.overtakes)
  BY <1>1, <1>2, <1>4, LagEnds
<1> QED BY <1>1, <1>5

\* The answer is at the head of the line.
LEMMA HeadOfLine ==
    ASSUME TInv, NEW w \in Terminals, Takes(w)
    PROVE  /\ DOMAIN Line(w) \subseteq Nat \ {0} /\ 1 \in DOMAIN Line(w) /\ 1 \in 1..Len(inbox[w])
           /\ Line(w)[1] = Kind(Current(tool[w]))
<1>1. InHandCount \in {0, 1} /\ Entries(Line(w), inbox[w], InHandCount, req, toEcu)
  BY LineOf
<1>2. inbox[w] \in Seq(Mail) /\ inbox[w] # <<>> /\ Answers(Current(tool[w]), inbox[w][1])
  BY DEF TInv, ToolsTyped, Takes
<1>3. 1 \in 1..Len(inbox[w])
  BY <1>2
<1>4. DOMAIN Line(w) \subseteq Nat \ {0}
  <2>1. Len(inbox[w]) + InHandCount + Len(toEcu) \in Nat
    BY <1>1 DEF Entries
  <2> QED BY <1>1, <2>1 DEF Entries
<1>5. 1 \in DOMAIN Line(w) /\ Line(w)[1] = MailKind(inbox[w][1])
  BY <1>3, PlaceOfMail
<1>6. MailKind(inbox[w][1]) = Kind(Current(tool[w]))
  BY <1>2 DEF Answers, MailKind, Kind
<1> QED BY <1>3, <1>4, <1>5, <1>6

\* ... or takes an answer.
LEMMA LagTakesOwn ==
    ASSUME TInv, TInv', [ToolNext]_<<vars, toolVars>>, NEW w \in Terminals,
           LagOf(tool[w], Line(w), spent.overtakes), Moves(w), Takes(w)
    PROVE  LagOf(tool'[w], Line(w)', spent'.overtakes)
<1>1. CASE ~(Live(tool'[w]) /\ tool'[w].cmd.verb # "monitor")
  BY <1>1, LagGivesUpOwn
<1>2. CASE Live(tool'[w]) /\ tool'[w].cmd.verb # "monitor"
  <2>1. /\ GoodInvocation(w, tool[w]) /\ tool[w].status = WAITING /\ tool'[w].cmd = tool[w].cmd
        /\ tool'[w].seed = tool[w].seed \/ Current(tool[w]) = RequestSeed
        /\ spent'.overtakes = spent.overtakes /\ tool[w].cmd.verb # "monitor"
    BY <1>2 DEF TInv, ToolsTyped, Takes
  <2>2. GoesOn(w)
    <3>1. ~EndsWell(w)
      BY <1>2 DEF EndsWell, Live, EXIT_OK, SENDING, WAITING
    <3> QED BY <2>1, <3>1 DEF Takes
  <2>3. spent.overtakes \in Nat
    BY OvertakesGrow
  <2>4. tool'[w].step = tool[w].step + 1 /\ tool'[w].status = SENDING /\ Dropped(inbox'[w], inbox[w], 1)
    BY <2>2 DEF GoesOn
  <2>5. serving' = serving /\ req' = req /\ toEcu' = toEcu
    BY DEF Moves, vars, dispVars, Takes
  <2>6. Cut(Line(w)', Line(w), 0, 1)
    BY <2>4, <2>5, LineDropped
  <2> QED BY <2>1, <2>3, <2>4, <2>6, HeadOfLine, LagAccepts
<1> QED BY <1>1, <1>2

\* The lag is kept.
LEMMA NextLag == TInv /\ HeldInv /\ Lag /\ [ToolNext]_<<vars, toolVars>> => Lag'
<1> SUFFICES ASSUME TInv, HeldInv, Lag, [ToolNext]_<<vars, toolVars>>, NEW w \in Terminals, OnlyWriter(w)
             PROVE  LagOf(tool'[w], Line(w)', spent'.overtakes)
  BY DEF Lag
<1>1. TInv' /\ LagOf(tool[w], Line(w), spent.overtakes)
  BY NextTInv DEF Lag
<1>2. ASSUME NEW t \in Terminals, Tool(t) \/ \E k \in Commands(t) : Start(t, k)
      PROVE  LagOf(tool'[w], Line(w)', spent'.overtakes)
  <2>1. Moves(t) /\ (Starts(t) \/ Sends(t) \/ GivesUp(t) \/ Takes(t))
    BY <1>2, ToolMoves
  <2>2. CASE t # w
    BY <1>1, <2>1, <2>2, LagOther
  <2>3. CASE t = w
    <3>1. CASE Starts(w)
      BY <1>1, <2>1, <2>3, <3>1, LagStartsOwn
    <3>2. CASE Sends(w)
      BY <1>1, <2>1, <2>3, <3>2, LagSendsOwn
    <3>3. CASE GivesUp(w)
      <4>1. ~(Live(tool'[w]) /\ tool'[w].cmd.verb # "monitor")
        BY <3>3 DEF GivesUp
      <4> QED BY <1>1, <2>1, <2>3, <3>3, <4>1, LagGivesUpOwn
    <3>4. CASE Takes(w)
      BY <1>1, <2>1, <2>3, <3>4, LagTakesOwn
    <3> QED BY <2>1, <2>3, <3>1, <3>2, <3>3, <3>4
  <2> QED BY <2>2, <2>3
<1>3. CASE Ecu \/ TimePasses
  <2>1. tool' = tool /\ spent'.overtakes = spent.overtakes
    BY <1>3, HeldTaken, HeldAnswered, EcuInside DEF Ecu
  <2>2. Shorter(Line(w)', Line(w))
    BY <1>1, <1>3, LineEcu
  <2> QED BY <1>1, <2>1, <2>2, LagShorter
<1>4. CASE UNCHANGED <<vars, toolVars>>
  <2>1. tool' = tool /\ spent' = spent /\ Line(w)' = Line(w)
    BY <1>4 DEF vars, toolVars, dispVars, Line, InHandCount
  <2> QED BY <1>1, <2>1
<1> QED BY <1>2, <1>3, <1>4 DEF ToolNext

-----------------------------------------------------------------------------
(* What the commands ask for. *)

\* The requests of write-name.
WriteAt(S, k, n) ==
    /\ n \in {3, 4} /\ Len(S) = n + 1
    /\ S[1] = Extended /\ S[2] = RequestSeed /\ S[n] = WriteName(k) /\ S[n + 1] = ReadOwner

\* write-name writes at step 3, or at step 4 after a key.
LEMMA WriteSteps ==
    ASSUME NEW k, k.verb = "write-name", NEW seed
    PROVE  \E n \in {3, 4} : WriteAt(Script(k, seed), k, n) /\ (n = 4 => Script(k, seed)[3] = SendKey(KeyFor(seed)))
<1>1. CASE seed = 0
  <2>1. Script(k, seed) = <<Extended, RequestSeed, WriteName(k), ReadOwner>>
    BY <1>1, WriteUnlockedScript
  <2>2. WriteAt(Script(k, seed), k, 3)
    BY <2>1 DEF WriteAt
  <2> QED BY <2>2
<1>2. CASE seed # 0
  <2>1. Script(k, seed) = <<Extended, RequestSeed, SendKey(KeyFor(seed)), WriteName(k), ReadOwner>>
    BY <1>2, WriteLockedScript
  <2>2. WriteAt(Script(k, seed), k, 4)
    BY <2>1 DEF WriteAt
  <2>3. Script(k, seed)[3] = SendKey(KeyFor(seed))
    BY <2>1
  <2> QED BY <2>2, <2>3
<1> QED BY <1>1, <1>2

\* The parts of the requests.
LEMMA RequestParts ==
    /\ Extended.sid = UDS_SID_DIAGNOSTIC_SESSION_CONTROL
    /\ RequestSeed.sid = UDS_SID_SECURITY_ACCESS /\ Sub(RequestSeed) = 1
    /\ ReadOwner.sid = UDS_SID_READ_DATA_BY_IDENTIFIER /\ Sub(ReadOwner) = 0 /\ ReadOwner.did = "F200 owner"
    /\ \A key : /\ SendKey(key).sid = UDS_SID_SECURITY_ACCESS /\ Sub(SendKey(key)) = 2
                /\ SendKey(key).key = key
    /\ \A k : /\ WriteName(k).sid = UDS_SID_WRITE_DATA_BY_IDENTIFIER /\ Sub(WriteName(k)) = 0
              /\ WriteName(k).did = "F200 owner" /\ WriteName(k).name = k.name
<1>1. Extended.sid = UDS_SID_DIAGNOSTIC_SESSION_CONTROL
  BY RequestFields
<1>2. RequestSeed.sid = UDS_SID_SECURITY_ACCESS /\ Sub(RequestSeed) = 1
  <2>1. Kind(RequestSeed) = <<UDS_SID_SECURITY_ACCESS, 1, "none">>
    BY KindOf, Zenon
  <2> QED BY <2>1, KindParts
<1>3. ReadOwner.sid = UDS_SID_READ_DATA_BY_IDENTIFIER /\ Sub(ReadOwner) = 0 /\ ReadOwner.did = "F200 owner"
  <2>1. Kind(ReadOwner) = <<UDS_SID_READ_DATA_BY_IDENTIFIER, 0, "F200 owner">>
    BY KindOf, Zenon DEF ReadOwner
  <2> QED BY <2>1, KindParts
<1>4. ASSUME NEW key
      PROVE  SendKey(key).sid = UDS_SID_SECURITY_ACCESS /\ Sub(SendKey(key)) = 2 /\ SendKey(key).key = key
  <2>1. Kind(SendKey(key)) = <<UDS_SID_SECURITY_ACCESS, 2, "none">>
    BY KindOf, Zenon
  <2>2. SendKey(key).key = key
    BY RequestFields, Zenon
  <2> QED BY <2>1, <2>2, KindParts
<1>5. ASSUME NEW k
      PROVE  /\ WriteName(k).sid = UDS_SID_WRITE_DATA_BY_IDENTIFIER /\ Sub(WriteName(k)) = 0
             /\ WriteName(k).did = "F200 owner" /\ WriteName(k).name = k.name
  <2>1. Kind(WriteName(k)) = <<UDS_SID_WRITE_DATA_BY_IDENTIFIER, 0, "F200 owner">> /\ WriteName(k).name = k.name
    BY KindOf, Zenon
  <2> QED BY <2>1, KindParts
<1> QED BY <1>1, <1>2, <1>3, <1>4, <1>5

\* What a step of a command asks for.
LEMMA AsksAt ==
    ASSUME NEW k, k.verb \in Verbs \ {"monitor"}, NEW seed, NEW i \in 1..Len(Script(k, seed)),
           NEW r, r = Script(k, seed)[i]
    PROVE  /\ i = 1 => r.sid # UDS_SID_SECURITY_ACCESS
           /\ i = 2 => r = RequestSeed
           /\ r.sid = UDS_SID_SECURITY_ACCESS /\ Sub(r) = 2 => i = 3 /\ r.key = KeyFor(seed)
           /\ r.sid = UDS_SID_WRITE_DATA_BY_IDENTIFIER => k.verb = "write-name" /\ r = WriteName(k)
<1> DEFINE Goal == /\ i = 1 => r.sid # UDS_SID_SECURITY_ACCESS
                   /\ i = 2 => r = RequestSeed
                   /\ r.sid = UDS_SID_SECURITY_ACCESS /\ Sub(r) = 2 => i = 3 /\ r.key = KeyFor(seed)
                   /\ r.sid = UDS_SID_WRITE_DATA_BY_IDENTIFIER => k.verb = "write-name" /\ r = WriteName(k)
<1>a. ASSUME i = 1, r = Extended PROVE Goal
  <2>1. r.sid = UDS_SID_DIAGNOSTIC_SESSION_CONTROL
    BY <1>a, RequestParts, Zenon
  <2> QED BY <1>a, <2>1, Sids
<1>b. ASSUME i = 2, r = RequestSeed PROVE Goal
  <2>1. r.sid = UDS_SID_SECURITY_ACCESS /\ Sub(r) = 1
    BY <1>b, RequestParts, Zenon
  <2> QED BY <1>b, <2>1, Sids
<1>c. ASSUME i = 3, r = SendKey(KeyFor(seed)) PROVE Goal
  <2>1. r.sid = UDS_SID_SECURITY_ACCESS /\ r.key = KeyFor(seed)
    BY <1>c, RequestParts, Zenon
  <2> QED BY <1>c, <2>1, Sids
<1>d. ASSUME i \in {3, 4}, k.verb = "write-name", r = WriteName(k) PROVE Goal
  <2>1. r.sid = UDS_SID_WRITE_DATA_BY_IDENTIFIER
    BY <1>d, RequestParts, Zenon
  <2> QED BY <1>d, <2>1, Sids
<1>e. ASSUME i \in {4, 5}, r = ReadOwner PROVE Goal
  <2>1. r.sid = UDS_SID_READ_DATA_BY_IDENTIFIER
    BY <1>e, RequestParts, Zenon
  <2> QED BY <1>e, <2>1, Sids
<1>f. Goal => /\ i = 1 => r.sid # UDS_SID_SECURITY_ACCESS
              /\ i = 2 => r = RequestSeed
              /\ r.sid = UDS_SID_SECURITY_ACCESS /\ Sub(r) = 2 => i = 3 /\ r.key = KeyFor(seed)
              /\ r.sid = UDS_SID_WRITE_DATA_BY_IDENTIFIER => k.verb = "write-name" /\ r = WriteName(k)
  OBVIOUS
<1> HIDE DEF Goal
<1>1. CASE k.verb = "unlock"
  <2>1. Script(k, seed) = <<Extended, RequestSeed, SendKey(KeyFor(seed))>>
    BY <1>1, UnlockScript
  <2>2. \/ i = 1 /\ r = Extended
        \/ i = 2 /\ r = RequestSeed
        \/ i = 3 /\ r = SendKey(KeyFor(seed))
    BY <2>1
  <2> QED BY <1>a, <1>b, <1>c, <1>f, <2>2
<1>2. CASE k.verb = "write-name"
  <2>1. PICK n \in {3, 4} : /\ WriteAt(Script(k, seed), k, n)
                            /\ n = 4 => Script(k, seed)[3] = SendKey(KeyFor(seed))
    BY <1>2, WriteSteps
  <2>2. \/ i = 1 /\ r = Extended
        \/ i = 2 /\ r = RequestSeed
        \/ i = 3 /\ r = SendKey(KeyFor(seed))
        \/ i = n /\ r = WriteName(k)
        \/ i = n + 1 /\ r = ReadOwner
    BY <2>1 DEF WriteAt
  <2>3. Goal
    BY <1>2, <1>a, <1>b, <1>c, <1>d, <1>e, <2>1, <2>2
  <2> QED BY <1>f, <2>3
<1>3. CASE k.verb \notin {"unlock", "write-name"}
  <2>1. PICK q : Single(q) /\ \A z : Script(k, z) = <<q>>
    BY <1>3, SingleScript
  <2>2. Script(k, seed) = <<q>>
    BY <2>1
  <2>3. i = 1 /\ r = q
    BY <2>2
  <2> QED BY <2>1, <2>3, Sids DEF Single
<1> QED BY <1>1, <1>2, <1>3

\* No request of the monitor is for the security or for a write.
LEMMA MonitorSid ==
    ASSUME NEW k \in MonitorKinds
    PROVE  k[1] = UDS_SID_READ_DATA_BY_IDENTIFIER /\ k[3] \in {"010C rpm", "010D speed", "0105 coolant"}
<1>1. PICK d \in {"010C rpm", "010D speed", "0105 coolant"} : k = Kind(Read(d))
  BY DEF MonitorKinds
<1>2. k = <<UDS_SID_READ_DATA_BY_IDENTIFIER, 0, d>>
  BY <1>1, KindOf, Zenon
<1> QED BY <1>2

-----------------------------------------------------------------------------
(* One request for the security at a time. *)

\* A command that runs is one of those typed.
LEMMA LiveVerb ==
    ASSUME NEW t \in Terminals, NEW v, GoodInvocation(t, v), Live(v)
    PROVE  v.cmd.verb \in Verbs /\ v.step \in 1..Len(Script(v.cmd, v.seed)) /\ v.step \in Nat
<1>1. v.cmd \in Commands(t) /\ v.step \in 1..Len(Steps(v)) /\ v.step \in Nat
  BY DEF GoodInvocation, InvocationType
<1> QED BY <1>1, CommandsAssumption DEF Steps

\* A shorter line has no more requests for the security, ...
LEMMA OneAccessShorter ==
    ASSUME NEW L1, NEW L2, Shorter(L2, L1), OneAccess(L1)
    PROVE  OneAccess(L2)
<1>1. PICK a \in Nat, n \in Nat : Cut(L2, L1, a, n)
  BY DEF Shorter
<1> DEFINE at(i) == IF i <= a THEN i ELSE i + n
<1>2. \A i \in DOMAIN L2 : i \in Nat /\ at(i) \in DOMAIN L1 /\ L2[i] = L1[at(i)]
  BY <1>1 DEF Cut
<1>3. \A i, j \in DOMAIN L2 : at(i) = at(j) => i = j
  BY <1>2
<1> HIDE DEF at
<1> QED BY <1>2, <1>3 DEF OneAccess

\* ... and neither has a line with a request of another service at its end.
LEMMA OneAccessLonger ==
    ASSUME NEW L1, NEW L2, NEW k, Longer(L2, L1, k), ~IsAccess(k), OneAccess(L1)
    PROVE  OneAccess(L2)
<1>1. PICK n \in Nat : /\ DOMAIN L1 = 1..n /\ DOMAIN L2 = 1..(n + 1)
                       /\ \A i \in 1..n : L2[i] = L1[i]
                       /\ L2[n + 1] = k
  BY DEF Longer
<1>2. \A i \in DOMAIN L2 : IsAccess(L2[i]) => i \in DOMAIN L1 /\ L2[i] = L1[i]
  BY <1>1
<1> QED BY <1>2 DEF OneAccess

\* A tool that overtook at most one other has one request for the security under way when it waits ...
LEMMA OneAccessLag ==
    ASSUME NEW t \in Terminals, NEW v, GoodInvocation(t, v), v.status = WAITING,
           v.cmd.verb # "monitor",
           NEW L, DOMAIN L \subseteq Nat, NEW o \in {0, 1}, LagOf(v, L, o)
    PROVE  OneAccess(L)
<1>1. Live(v) /\ v.cmd.verb \in Verbs \ {"monitor"} /\ v.step \in Nat \ {0} /\ v.step \in 1..Len(Script(v.cmd, v.seed))
  BY LiveVerb DEF Live
<1>2. Ranked(L, Low(o, v.step), v.step, Steps(v))
  BY <1>1 DEF LagOf
<1>3. PICK h \in [Strays(L) -> Low(o, v.step)..v.step] :
         /\ \A i, j \in Strays(L) : i < j => h[i] < h[j]
         /\ \A i \in Strays(L) : h[i] >= 1 => L[i] = Kind(Steps(v)[h[i]])
  BY <1>2 DEF Ranked
<1>4. ~IsAccess(Kind(Steps(v)[1]))
  <2>1. 1 \in 1..Len(Script(v.cmd, v.seed))
    BY <1>1, ScriptLength
  <2>2. Script(v.cmd, v.seed)[1].sid # UDS_SID_SECURITY_ACCESS
    BY <1>1, <2>1, AsksAt
  <2> QED BY <2>2 DEF IsAccess, Kind, Steps
<1>5. ASSUME NEW i \in DOMAIN L, NEW j \in DOMAIN L, IsAccess(L[i]), IsAccess(L[j]), i < j
      PROVE  FALSE
  <2>1. i \in Strays(L) /\ j \in Strays(L)
    BY <1>5, MonitorSid, Sids DEF Strays, IsAccess
  <2>2. h[i] < h[j] /\ h[i] \in Low(o, v.step)..v.step /\ h[j] \in Low(o, v.step)..v.step
    BY <1>3, <1>5, <2>1
  <2>3. h[i] # 1 /\ h[j] # 1
    <3>1. h[i] = 1 => L[i] = Kind(Steps(v)[1])
      BY <1>3, <2>1
    <3>2. h[j] = 1 => L[j] = Kind(Steps(v)[1])
      BY <1>3, <2>1
    <3> QED BY <1>4, <1>5, <3>1, <3>2
  <2>4. PICK s \in Nat \ {0} : s = v.step
    BY <1>1
  <2>5. PICK x : x = h[i]
    OBVIOUS
  <2>6. PICK y : y = h[j]
    OBVIOUS
  <2>7. x \in Low(o, s)..s /\ y \in Low(o, s)..s /\ x < y /\ x # 1 /\ y # 1
    BY <2>2, <2>3, <2>4, <2>5, <2>6
  <2>8. Low(o, s) = IF s <= o + 1 THEN s - o ELSE s
    BY DEF Low
  <2> QED BY ONLY <2>7, <2>8, o \in {0, 1}, s \in Nat \ {0}
<1>6. ASSUME NEW i \in DOMAIN L, NEW j \in DOMAIN L, IsAccess(L[i]), IsAccess(L[j]) PROVE i = j
  <2>1. i \in Nat /\ j \in Nat
    OBVIOUS
  <2> QED BY <1>5, <1>6, <2>1
<1> QED BY <1>6 DEF OneAccess

\* ... and none when it is about to send the third.
LEMMA NoneBeforeThird ==
    ASSUME NEW t \in Terminals, NEW v, GoodInvocation(t, v), v.status = SENDING,
           v.cmd.verb # "monitor",
           v.step = 3, NEW L, NEW o \in {0, 1}, LagOf(v, L, o)
    PROVE  Strays(L) = {}
<1>1. Ranked(L, Low(o, 3), 3 - 1, Steps(v))
  BY DEF LagOf, Live, SENDING, WAITING
<1>2. Low(o, 3) = 3
  BY DEF Low
<1>3. PICK h \in [Strays(L) -> 3..2] : TRUE
  BY <1>1, <1>2 DEF Ranked
<1> QED BY <1>3

\* The access in hand is the only one.
LEMMA InHandAlone ==
    ASSUME TInv, NEW w \in Terminals, OneAccess(Line(w)), serving # Nobody,
           req.sid = UDS_SID_SECURITY_ACCESS
    PROVE  /\ \A p \in Held : p[2].sid = UDS_SID_SECURITY_ACCESS => p[2] = req
           /\ \A i \in 1..Len(inbox[w]) : inbox[w][i].sid # UDS_SID_SECURITY_ACCESS
<1> DEFINE n == Len(inbox[w])
<1>1. n \in Nat /\ Len(toEcu) \in Nat /\ InHandCount = 1
  BY DEF TInv, ToolsTyped, EcuTyped, InHandCount
<1>2. n + 1 \in DOMAIN Line(w) /\ IsAccess(Line(w)[n + 1])
  BY PlaceInHand DEF IsAccess, Kind
<1>3. ASSUME NEW i \in DOMAIN Line(w), IsAccess(Line(w)[i]) PROVE i = n + 1
  BY <1>2, <1>3 DEF OneAccess
<1>4. ASSUME NEW i \in 1..n PROVE inbox[w][i].sid # UDS_SID_SECURITY_ACCESS
  <2>1. i \in DOMAIN Line(w) /\ Line(w)[i] = MailKind(inbox[w][i])
    BY PlaceOfMail
  <2>2. i # n + 1
    BY <1>1
  <2>3. ~IsAccess(Line(w)[i])
    BY <1>3, <2>1, <2>2
  <2> QED BY <2>1, <2>3 DEF IsAccess, MailKind
<1>5. ASSUME NEW i \in 1..Len(toEcu) PROVE toEcu[i][2].sid # UDS_SID_SECURITY_ACCESS
  <2>1. n + 1 + i \in DOMAIN Line(w) /\ Line(w)[n + 1 + i] = Kind(toEcu[i][2])
    BY <1>1, PlaceOnTheWay
  <2>2. n + 1 + i # n + 1
    BY <1>1
  <2>3. ~IsAccess(Line(w)[n + 1 + i])
    BY <1>3, <2>1, <2>2
  <2> QED BY <2>1, <2>3 DEF IsAccess, Kind
<1>6. ASSUME NEW p \in Held, p[2].sid = UDS_SID_SECURITY_ACCESS PROVE p[2] = req
  <2>1. p = <<serving, req>> \/ \E i \in 1..Len(toEcu) : p = toEcu[i]
    BY DEF Held
  <2> QED BY <1>5, <1>6, <2>1
<1> QED BY <1>4, <1>6

\* A step that issues no seed.
NoNewSeed == sec'.seed_issued => sec.seed_issued /\ sec'.pending_seed = sec.pending_seed

\* A tool's step.
LEMMA ToolHonest ==
    ASSUME TInv, TInv', HeldInv, Lag, Lag', [ToolNext]_<<vars, toolVars>>, NEW w \in Terminals,
           OnlyWriter(w),
           spent'.overtakes <= 1, HonestW(w),
           NEW t \in Terminals, Moves(t), Starts(t) \/ Sends(t) \/ GivesUp(t) \/ Takes(t)
    PROVE  HonestW(w)'
<1>1. sec' = sec /\ dpc' = dpc /\ req' = req /\ resp' = resp
  BY DEF Moves, vars, ecuVars, dispVars
<1>2. (\A s : SeedFits(s) => SeedFits(s)') /\ (\A key : KeyFits(key) => KeyFits(key)')
  BY <1>1 DEF SeedFits, KeyFits
<1>3. OneAccess(Line(w)) /\ KeysFit /\ SeedsFit(w) /\ AnswerFits /\ SeedInUseFits(tool[w]) /\ sec.fail_count = 0
  BY DEF HonestW
<1>4. spent'.overtakes \in {0, 1}
  <2>1. spent'.overtakes \in Nat
    BY OvertakesGrow
  <2> QED BY <2>1
<1>5. GoodInvocation(t, tool[t]) /\ GoodInvocation(w, tool[w]) /\ GoodInvocation(w, tool'[w])
  BY DEF TInv, ToolsTyped
<1>6. OneAccess(Line(w)')
  <2>1. CASE Shorter(Line(w)', Line(w))
    BY <1>3, <2>1, OneAccessShorter
  <2>2. ASSUME Sends(t), NEW M, Shorter(M, Line(w)), Longer(Line(w)', M, Kind(Current(tool[t])))
        PROVE  OneAccess(Line(w)')
    <3>1. CASE t # w \/ tool[t].cmd.verb = "monitor"
      <4>1. Kind(Current(tool[t])) \in MonitorKinds
        BY <2>2, <3>1, OthersMonitor DEF Sends, Live
      <4>2. ~IsAccess(Kind(Current(tool[t])))
        BY <4>1, MonitorSid, Sids DEF IsAccess
      <4>3. OneAccess(M)
        BY <1>3, <2>2, OneAccessShorter
      <4> QED BY <2>2, <4>2, <4>3, OneAccessLonger
    <3>2. CASE t = w /\ tool[t].cmd.verb # "monitor"
      <4>1. tool'[w].status = WAITING /\ tool'[w].cmd.verb # "monitor"
        BY <2>2, <3>2 DEF Sends
      <4>2. LagOf(tool'[w], Line(w)', spent'.overtakes)
        BY DEF Lag
      <4>3. DOMAIN (Line(w)') \subseteq Nat
        BY <2>2 DEF Longer
      <4> QED BY <1>4, <1>5, <4>1, <4>2, <4>3, OneAccessLag
    <3> QED BY <3>1, <3>2
  <2> QED BY <2>1, <2>2, LineMoves
<1>7. KeysFit'
  <2> SUFFICES ASSUME NEW p \in Held', p[2].sid = UDS_SID_SECURITY_ACCESS, Sub(p[2]) = 2
               PROVE  KeyFits(p[2].key)
    BY <1>2 DEF KeysFit
  <2>1. CASE p \in Held
    BY <1>3, <2>1 DEF KeysFit
  <2>2. CASE Sends(t) /\ p[2] = Current(tool[t])
    <3>1. tool[t].status = SENDING /\ Live(tool[t])
      BY <2>2 DEF Sends, Live
    <3>2. t = w /\ tool[t].cmd.verb # "monitor"
      <4>1. Kind(Current(tool[t]))[1] = UDS_SID_SECURITY_ACCESS
        BY <2>2 DEF Kind
      <4>2. Kind(Current(tool[t])) \notin MonitorKinds
        BY <4>1, MonitorSid, Sids
      <4> QED BY <3>1, <4>2, OthersMonitor
    <3>3. PICK v : v = tool[w]
      OBVIOUS
    <3>4. v.cmd.verb \in Verbs \ {"monitor"} /\ v.step \in 1..Len(Script(v.cmd, v.seed))
      BY <1>5, <3>1, <3>2, <3>3, LiveVerb
    <3>5. p[2] = Script(v.cmd, v.seed)[v.step]
      BY <2>2, <3>2, <3>3 DEF Current, Steps
    <3>6. v.step = 3 /\ p[2].key = KeyFor(v.seed)
      BY <3>4, <3>5, AsksAt
    <3>7. SeedFits(v.seed)
      BY <1>3, <3>1, <3>2, <3>3, <3>6 DEF SeedInUseFits
    <3> QED BY <3>6, <3>7 DEF SeedFits, KeyFits
  <2> QED BY <2>1, <2>2, HeldMoves
<1>8. SeedsFit(w)'
  <2>0. SeedsFit(w)' <=> \A i \in 1..Len(inbox'[w]) :
          /\ inbox'[w][i].sid = UDS_SID_SECURITY_ACCESS /\ inbox'[w][i].sub = 1 /\ inbox'[w][i].nrc = NO_NRC
          => SeedFits(inbox'[w][i].seed)
    BY <1>1 DEF SeedsFit, SeedFits
  <2>1. Len(inbox[w]) \in Nat /\ Len(inbox'[w]) \in Nat /\ inbox[w] \in Seq(Mail)
    BY DEF TInv, ToolsTyped
  <2>2. PICK n \in Nat : Dropped(inbox'[w], inbox[w], n)
    <3>1. CASE w = t
      BY <3>1 DEF Moves
    <3>2. CASE w # t
      <4>1. inbox'[w] = inbox[w]
        BY <3>2 DEF Moves
      <4> QED BY <2>1, <4>1, NoneDropped
    <3> QED BY <3>1, <3>2
  <2>3. ASSUME NEW i \in 1..Len(inbox'[w]), inbox'[w][i].sid = UDS_SID_SECURITY_ACCESS,
               inbox'[w][i].sub = 1, inbox'[w][i].nrc = NO_NRC
        PROVE  SeedFits(inbox'[w][i].seed)
    <3>1. i + n \in 1..Len(inbox[w]) /\ inbox'[w][i] = inbox[w][i + n]
      BY <2>1, <2>2, MailDropped
    <3>2. SeedFits(inbox[w][i + n].seed)
      BY <1>3, <2>3, <3>1 DEF SeedsFit
    <3> QED BY <3>1, <3>2
  <2> QED BY <2>0, <2>3
<1>9. AnswerFits'
  BY <1>1, <1>3 DEF AnswerFits, SeedFits
<1>10. SeedInUseFits(tool[w])'
  <2> SUFFICES ASSUME tool'[w].status = SENDING, tool'[w].cmd.verb # "monitor", tool'[w].step = 3
               PROVE  SeedFits(tool'[w].seed)
    BY <1>1 DEF SeedInUseFits, SeedFits
  <2>1. CASE t # w
    <3>1. tool'[w] = tool[w]
      BY <2>1 DEF Moves
    <3> QED BY <1>3, <3>1 DEF SeedInUseFits
  <2>2. CASE t = w
    <3>1. ~Starts(w)
      <4>1. \A k, status : Invocation(k, status).step = 1
        BY DEF Invocation
      <4> QED BY <4>1 DEF Starts
    <3>2. ~Sends(w)
      BY DEF Sends, SENDING, WAITING
    <3>3. ~GivesUp(w)
      BY DEF GivesUp, Live
    <3>4. Takes(w)
      BY <2>2, <3>1, <3>2, <3>3
    <3>5. PICK v : v = tool[w]
      OBVIOUS
    <3>6. PICK m : m = inbox[w][1]
      OBVIOUS
    <3>7. /\ v.status = WAITING /\ v.cmd = tool'[w].cmd /\ Answers(Current(v), m)
          /\ tool'[w].seed = IF Current(v) = RequestSeed THEN m.seed ELSE v.seed
      BY <3>4, <3>5, <3>6 DEF Takes
    <3>8. GoesOn(w)
      <4>1. ~EndsWell(w)
        BY DEF EndsWell, EXIT_OK, SENDING
      <4> QED BY <3>4, <3>5, <3>7, <4>1 DEF Takes
    <3>9. v.cmd.verb \in Verbs \ {"monitor"} /\ v.step \in 1..Len(Script(v.cmd, v.seed)) /\ v.step \in Nat
      BY <1>5, <3>5, <3>7, LiveVerb DEF Live
    <3>10. v.step = 2
      <4>1. tool'[w].step = v.step + 1
        BY <3>5, <3>8 DEF GoesOn
      <4> QED BY <3>9, <4>1
    <3>11. Current(v) = RequestSeed
      BY <3>9, <3>10, AsksAt DEF Current, Steps
    <3>12. m.sid = UDS_SID_SECURITY_ACCESS /\ m.sub = 1 /\ m.nrc = NO_NRC
      BY <3>7, <3>11, RequestParts DEF Answers
    <3>13. 1 \in 1..Len(inbox[w])
      BY <3>4, HeadOfLine
    <3>14. SeedFits(m.seed)
      BY <1>3, <3>6, <3>12, <3>13 DEF SeedsFit
    <3> QED BY <3>7, <3>11, <3>14
  <2> QED BY <2>1, <2>2
<1> QED BY <1>1, <1>3, <1>6, <1>7, <1>8, <1>9, <1>10 DEF HonestW

\* A step of the ECU.
LEMMA EcuHonest ==
    ASSUME TInv, TInv', HeldInv, NEW w \in Terminals, HonestW(w), Ecu \/ TimePasses,
           ~EcuAnswers,
           NoNewSeed, sec'.fail_count = 0, AnswerFits'
    PROVE  HonestW(w)'
<1>1. OneAccess(Line(w)) /\ KeysFit /\ SeedsFit(w) /\ AnswerFits /\ SeedInUseFits(tool[w])
  BY DEF HonestW
<1>2. tool' = tool /\ inbox' = inbox /\ Held' \subseteq Held
  <2>1. CASE EcuTakes
    BY <2>1, HeldTaken
  <2>2. CASE EcuHandles \/ EcuTimer \/ TimePasses
    <3>1. toEcu' = toEcu /\ serving' = serving /\ tool' = tool /\ inbox' = inbox /\ req' = req
      BY <2>2, EcuInside, EcuServes
    <3> QED BY <3>1, HeldSame
  <2> QED BY <2>1, <2>2 DEF Ecu
<1>3. OneAccess(Line(w)')
  BY <1>1, LineEcu, OneAccessShorter
<1>4. KeysFit'
  <2> SUFFICES ASSUME NEW p \in Held', p[2].sid = UDS_SID_SECURITY_ACCESS, Sub(p[2]) = 2
               PROVE  KeyFits(p[2].key)'
    BY DEF KeysFit
  <2>1. KeyFits(p[2].key)
    BY <1>1, <1>2 DEF KeysFit
  <2> QED BY <2>1 DEF NoNewSeed, KeyFits
<1>5. SeedsFit(w)'
  BY <1>1, <1>2 DEF SeedsFit, SeedFits, NoNewSeed
<1>6. SeedInUseFits(tool[w])'
  BY <1>1, <1>2 DEF SeedInUseFits, SeedFits, NoNewSeed
<1> QED BY <1>3, <1>4, <1>5, <1>6 DEF HonestW

\* A seed is drawn: no other request for the security is under way.
LEMMA SeedHonest ==
    ASSUME TInv, TInv', HeldInv, Lag, EcuHandles, ServesSeed, NEW w \in Terminals, OnlyWriter(w),
           spent.overtakes \in {0, 1}, HonestW(w)
    PROVE  HonestW(w)'
<1>1. OneAccess(Line(w)) /\ sec.fail_count = 0
  BY DEF HonestW
<1>2. /\ toEcu' = toEcu /\ serving' = serving /\ tool' = tool /\ inbox' = inbox /\ req' = req
      /\ dpc \notin {"pop", "respond"}
  BY EcuInside, EcuServes
<1>3. serving # Nobody /\ req.sid = UDS_SID_SECURITY_ACCESS /\ Sub(req) = 1
  BY <1>2 DEF TInv, EcuTyped, ServesSeed
<1>4. /\ \A p \in Held : p[2].sid = UDS_SID_SECURITY_ACCESS => p[2] = req
      /\ \A i \in 1..Len(inbox[w]) : inbox[w][i].sid # UDS_SID_SECURITY_ACCESS
  BY <1>1, <1>3, InHandAlone
<1>5. OneAccess(Line(w)')
  BY <1>1, LineEcu, OneAccessShorter DEF Ecu
<1>6. KeysFit'
  <2>1. Held' = Held
    BY <1>2, HeldSame
  <2>2. \A p \in Held : ~(p[2].sid = UDS_SID_SECURITY_ACCESS /\ Sub(p[2]) = 2)
    BY <1>3, <1>4
  <2> QED BY <2>1, <2>2 DEF KeysFit
<1>7. SeedsFit(w)'
  BY <1>2, <1>4 DEF SeedsFit
<1>8. AnswerFits'
  BY <1>2 DEF AnswerFits, SeedFits, ServesSeed
<1>9. SeedInUseFits(tool[w])'
  <2> SUFFICES ASSUME tool[w].status = SENDING, tool[w].cmd.verb # "monitor", tool[w].step = 3
               PROVE  FALSE
    BY <1>2 DEF SeedInUseFits
  <2>1. GoodInvocation(w, tool[w]) /\ LagOf(tool[w], Line(w), spent.overtakes)
    BY DEF TInv, ToolsTyped, Lag
  <2>2. Strays(Line(w)) = {}
    BY <2>1, NoneBeforeThird
  <2>3. Len(inbox[w]) + 1 \in DOMAIN Line(w) /\ Line(w)[Len(inbox[w]) + 1] = Kind(req)
    BY <1>3, PlaceInHand
  <2>4. Kind(req) \notin MonitorKinds
    <3>1. Kind(req)[1] = UDS_SID_SECURITY_ACCESS
      BY <1>3 DEF Kind
    <3> QED BY <3>1, MonitorSid, Sids
  <2> QED BY <2>2, <2>3, <2>4 DEF Strays
<1>10. sec'.fail_count = 0
  BY <1>1 DEF ServesSeed
<1> QED BY <1>5, <1>6, <1>7, <1>8, <1>9, <1>10 DEF HonestW

\* A handler: the key it compares fits the pending seed.
LEMMA HandlesHonest ==
    ASSUME TInv, TInv', HeldInv, Lag, EcuHandles, NEW w \in Terminals, OnlyWriter(w),
           spent.overtakes \in {0, 1}, HonestW(w)
    PROVE  HonestW(w)'
<1>1. Serves /\ req' = req /\ dpc \notin {"pop", "respond"} /\ sec.fail_count = 0 /\ KeysFit
  BY EcuServes DEF HonestW
<1>2. CASE ServesSeed
  BY <1>2, SeedHonest
<1>3. ASSUME NoNewSeed, sec'.fail_count = 0,
             ~(dpc' = "respond" /\ req.sid = UDS_SID_SECURITY_ACCESS /\ Sub(req) = 1 /\ resp'.nrc = NO_NRC)
      PROVE  HonestW(w)'
  <2>1. AnswerFits'
    BY <1>1, <1>3 DEF AnswerFits
  <2>2. ~EcuAnswers
    BY <1>1 DEF EcuAnswers, Respond
  <2> QED BY <1>3, <2>1, <2>2, EcuHonest DEF Ecu
<1>4. CASE ServesQuietly \/ ServesClear \/ ServesWrite
  <2>1. sec' = sec
    BY <1>4 DEF ServesQuietly, ServesClear, ServesWrite
  <2>2. ~(dpc' = "respond" /\ req.sid = UDS_SID_SECURITY_ACCESS /\ resp'.nrc = NO_NRC)
    BY <1>4, Sids DEF ServesQuietly, ServesClear, ServesWrite
  <2>3. NoNewSeed
    BY <2>1 DEF NoNewSeed
  <2> QED BY <1>1, <1>3, <2>1, <2>2, <2>3
<1>5. CASE ServesKey
  <2>1. NoNewSeed /\ Sub(req) = 2 /\ req.sid = UDS_SID_SECURITY_ACCESS
    BY <1>5 DEF ServesKey, NoNewSeed
  <2>2. <<serving, req>> \in Held
    BY <1>1, InHandShape
  <2>3. PICK p \in Held : p[2] = req
    BY <2>2
  <2>4. KeyFits(req.key)
    BY <1>1, <2>1, <2>3 DEF KeysFit
  <2>5. sec'.fail_count = 0
    BY <1>1, <1>5, <2>4 DEF ServesKey
  <2> QED BY <1>3, <2>1, <2>5
<1> QED BY <1>1, <1>2, <1>4, <1>5 DEF Serves

\* The dispatcher answers.
LEMMA AnswersHonest ==
    ASSUME TInv, TInv', HeldInv, EcuAnswers, NEW w \in Terminals, HonestW(w)
    PROVE  HonestW(w)'
<1>1. OneAccess(Line(w)) /\ KeysFit /\ SeedsFit(w) /\ AnswerFits /\ SeedInUseFits(tool[w]) /\ sec.fail_count = 0
  BY DEF HonestW
<1>2. /\ Held' \subseteq Held /\ dpc = "respond" /\ dpc' = "pop" /\ tool' = tool /\ sec' = sec /\ Answer \in Mail
      /\ inbox'[w] = inbox[w] \/ inbox'[w] = Append(inbox[w], Answer)
  BY HeldAnswered DEF ecuVars
<1>3. OneAccess(Line(w)')
  BY <1>1, LineEcu, OneAccessShorter DEF Ecu
<1>4. KeysFit'
  BY <1>1, <1>2 DEF KeysFit, KeyFits
<1>5. SeedsFit(w)'
  <2>1. CASE inbox'[w] = inbox[w]
    BY <1>1, <1>2, <2>1 DEF SeedsFit, SeedFits
  <2>2. CASE inbox'[w] = Append(inbox[w], Answer)
    <3>1. PICK m \in Mail : m = Answer
      BY <1>2
    <3>2. inbox[w] \in Seq(Mail)
      BY DEF TInv, ToolsTyped
    <3>3. /\ Len(inbox[w]) \in Nat /\ Len(inbox'[w]) = Len(inbox[w]) + 1
          /\ \A i \in 1..Len(inbox[w]) : inbox'[w][i] = inbox[w][i]
          /\ inbox'[w][Len(inbox[w]) + 1] = m
      BY <2>2, <3>1, <3>2
    <3>4. m.sid = UDS_SID_SECURITY_ACCESS /\ m.sub = 1 /\ m.nrc = NO_NRC => SeedFits(m.seed)
      <4>1. m.sid = req.sid /\ m.sub = Sub(req) /\ m.nrc = resp.nrc /\ m.seed = resp.seed
        BY <3>1 DEF Answer
      <4> QED BY <1>1, <1>2, <4>1 DEF AnswerFits
    <3>5. ASSUME NEW i \in 1..Len(inbox'[w]), inbox'[w][i].sid = UDS_SID_SECURITY_ACCESS,
                 inbox'[w][i].sub = 1, inbox'[w][i].nrc = NO_NRC
          PROVE  SeedFits(inbox'[w][i].seed)
      <4>1. CASE i \in 1..Len(inbox[w])
        BY <1>1, <3>3, <3>5, <4>1 DEF SeedsFit
      <4>2. CASE i = Len(inbox[w]) + 1
        BY <3>3, <3>4, <3>5, <4>2
      <4>3. i \in 1..Len(inbox[w]) \/ i = Len(inbox[w]) + 1
        BY <3>3
      <4> QED BY <4>1, <4>2, <4>3
    <3> QED BY <1>2, <3>5 DEF SeedsFit, SeedFits
  <2> QED BY <1>2, <2>1, <2>2
<1>6. AnswerFits'
  BY <1>2 DEF AnswerFits
<1>7. SeedInUseFits(tool[w])'
  BY <1>1, <1>2 DEF SeedInUseFits, SeedFits
<1> QED BY <1>1, <1>2, <1>3, <1>4, <1>5, <1>6, <1>7 DEF HonestW

\* No key is wrong as long as one command at most overtakes another.
LEMMA NextHonest == TInv /\ HeldInv /\ Lag /\ Honest /\ [ToolNext]_<<vars, toolVars>> => Honest'
<1> SUFFICES ASSUME TInv, HeldInv, Lag, Honest, [ToolNext]_<<vars, toolVars>>, NEW w \in Terminals,
                    OnlyWriter(w), spent'.overtakes <= 1
             PROVE  HonestW(w)'
  BY DEF Honest
<1>1. TInv' /\ Lag'
  BY NextTInv, NextLag
<1>2. spent.overtakes \in {0, 1} /\ HonestW(w)
  <2>1. spent.overtakes \in Nat /\ spent'.overtakes \in Nat /\ spent.overtakes <= spent'.overtakes
    BY OvertakesGrow
  <2>2. spent.overtakes <= 1
    BY <2>1
  <2> QED BY <2>1, <2>2 DEF Honest
<1>3. ASSUME NEW t \in Terminals, Tool(t) \/ \E k \in Commands(t) : Start(t, k) PROVE HonestW(w)'
  <2>1. Moves(t) /\ (Starts(t) \/ Sends(t) \/ GivesUp(t) \/ Takes(t))
    BY <1>3, ToolMoves
  <2> QED BY <1>1, <1>2, <2>1, ToolHonest
<1>4. CASE EcuHandles
  BY <1>1, <1>2, <1>4, HandlesHonest
<1>5. CASE EcuAnswers
  BY <1>1, <1>2, <1>5, AnswersHonest
<1>6. CASE EcuTakes
  <2>1. dpc' = "handle" /\ sec' = sec /\ dpc = "pop"
    BY <1>6, HeldTaken DEF ecuVars, EcuTakes, Pop
  <2>2. AnswerFits' /\ NoNewSeed /\ ~EcuAnswers /\ sec'.fail_count = 0
    BY <1>2, <2>1 DEF AnswerFits, NoNewSeed, EcuAnswers, Respond, HonestW
  <2> QED BY <1>1, <1>2, <1>6, <2>2, EcuHonest DEF Ecu
<1>7. CASE (EcuTimer \/ TimePasses) /\ ~EcuAnswers
  <2>1. dpc' = dpc /\ req' = req /\ resp' = resp
    BY <1>7, EcuInside
  <2>2. NoNewSeed /\ sec'.fail_count = sec.fail_count
    <3>1. S3 \/ Tick
      BY <1>7 DEF EcuTimer, TimePasses
    <3>2. CASE sec' = sec
      BY <3>2 DEF NoNewSeed
    <3>3. CASE sec' = security_relock(sec)
      <4>1. sec \in SecurityState
        BY DEF TInv, VInv, TypeOK
      <4>2. sec'.seed_issued = FALSE /\ sec'.fail_count = sec.fail_count
        BY <3>3, <4>1 DEF security_relock, SecurityState
      <4> QED BY <4>2 DEF NoNewSeed
    <3> QED BY <3>1, <3>2, <3>3 DEF S3, S3Poll, S3ReadNow, S3ReadTp, S3Revert, S3Relock, Tick, ecuVars
  <2>3. AnswerFits'
    BY <1>2, <2>1, <2>2 DEF HonestW, AnswerFits, SeedFits, NoNewSeed
  <2>4. sec'.fail_count = 0
    BY <1>2, <2>2 DEF HonestW
  <2> QED BY <1>1, <1>2, <1>7, <2>2, <2>3, <2>4, EcuHonest DEF Ecu
<1>8. CASE UNCHANGED <<vars, toolVars>>
  <2>1. /\ sec' = sec /\ tool' = tool /\ inbox' = inbox /\ dpc' = dpc /\ req' = req /\ resp' = resp
        /\ Line(w)' = Line(w) /\ Held' = Held
    BY <1>8 DEF vars, toolVars, ecuVars, dispVars, Line, InHandCount, Held
  <2>2. KeysFit' /\ SeedsFit(w)' /\ AnswerFits' /\ SeedInUseFits(tool[w])'
    BY <1>2, <2>1 DEF HonestW, KeysFit, SeedsFit, AnswerFits, SeedInUseFits, SeedFits, KeyFits
  <2> QED BY <1>2, <2>1, <2>2 DEF HonestW
<1> QED BY <1>3, <1>4, <1>5, <1>6, <1>7, <1>8 DEF ToolNext, Ecu

-----------------------------------------------------------------------------
(* The writes. *)

\* Where a write-name that runs has got to.
LEMMA WriteStage ==
    ASSUME NEW t \in Terminals, NEW v, GoodInvocation(t, v), v.cmd.verb = "write-name", Live(v)
    PROVE  \E n \in {3, 4} : /\ WriteAt(Steps(v), v.cmd, n)
                             /\ v.step \in 1..(n + 1)
                             /\ Writing(v) <=> v.step = n
                             /\ Confirming(v) <=> v.step = n + 1
<1>1. PICK n \in {3, 4} : WriteAt(Steps(v), v.cmd, n)
  BY WriteSteps DEF Steps
<1>2. Len(Steps(v)) = n + 1 /\ v.step \in 1..(n + 1) /\ v.step \in 1..Len(Script(v.cmd, v.seed))
  BY <1>1, LiveVerb DEF WriteAt, Steps
<1>3. Steps(v)[n] = WriteName(v.cmd) /\ Steps(v)[n + 1] = ReadOwner
  BY <1>1 DEF WriteAt
<1>4. ASSUME NEW j \in {n, n + 1}, Current(v) = Steps(v)[j] PROVE v.step = j
  <2>1. j \in 1..Len(Script(v.cmd, v.seed))
    BY <1>2 DEF Steps
  <2>2. j # v.step => Kind(Script(v.cmd, v.seed)[j]) # Kind(Script(v.cmd, v.seed)[v.step])
    <3>1. v.cmd.verb \in Verbs \ {"monitor"}
      BY DEF Verbs
    <3> QED BY <1>2, <2>1, <3>1, KindsDiffer
  <2> QED BY <1>4, <2>2 DEF Current, Steps
<1>5. Writing(v) <=> v.step = n
  BY <1>3, <1>4 DEF Writing, Current
<1>6. Confirming(v) <=> v.step = n + 1
  BY <1>3, <1>4 DEF Confirming, Current
<1> QED BY <1>1, <1>2, <1>5, <1>6

\* No stray is a write when the name is about to be sent, ...
LEMMA NoWriteBefore ==
    ASSUME NEW t \in Terminals, NEW v, GoodInvocation(t, v), v.status = SENDING, Writing(v),
           NEW L, NEW o \in {0, 1, 2}, LagOf(v, L, o), NEW i \in DOMAIN L
    PROVE  L[i][1] # UDS_SID_WRITE_DATA_BY_IDENTIFIER
<1>1. Live(v) /\ v.cmd.verb = "write-name"
  BY DEF Writing
<1>2. PICK n \in {3, 4} : WriteAt(Steps(v), v.cmd, n) /\ v.step = n
  BY <1>1, WriteStage
<1>3. Ranked(L, Low(o, n), n - 1, Steps(v))
  BY <1>1, <1>2 DEF LagOf, SENDING, WAITING
<1>4. PICK h \in [Strays(L) -> Low(o, n)..(n - 1)] : \A j \in Strays(L) : h[j] >= 1 => L[j] = Kind(Steps(v)[h[j]])
  BY <1>3 DEF Ranked
<1>5. CASE i \notin Strays(L)
  BY <1>5, MonitorSid, Sids DEF Strays
<1>6. CASE i \in Strays(L)
  <2>1. PICK x : x = h[i]
    OBVIOUS
  <2>2. x \in Low(o, n)..(n - 1) /\ (x >= 1 => L[i] = Kind(Steps(v)[x]))
    BY <1>4, <1>6, <2>1
  <2>3. Low(o, n) = IF n <= o + 1 THEN n - o ELSE n
    BY DEF Low
  <2>4. x \in {1, 2}
    BY ONLY <2>2, <2>3, n \in {3, 4}, o \in {0, 1, 2}
  <2>5. L[i] = Kind(Steps(v)[1]) \/ L[i] = Kind(Steps(v)[2])
    BY <2>2, <2>4
  <2>6. Steps(v)[1] = Extended /\ Steps(v)[2] = RequestSeed
    BY <1>2 DEF WriteAt
  <2>7. L[i][1] = Extended.sid \/ L[i][1] = RequestSeed.sid
    BY <2>5, <2>6 DEF Kind
  <2> QED BY <2>7, RequestParts, Sids
<1> QED BY <1>5, <1>6

\* ... and there is none when the owner is about to be read back.
LEMMA NoneBeforeConfirming ==
    ASSUME NEW t \in Terminals, NEW v, GoodInvocation(t, v), v.status = SENDING, Confirming(v),
           NEW L, NEW o \in {0, 1, 2}, LagOf(v, L, o)
    PROVE  Strays(L) = {}
<1>1. Live(v) /\ v.cmd.verb = "write-name"
  BY DEF Confirming
<1>2. PICK n \in {3, 4} : v.step = n + 1
  BY <1>1, WriteStage
<1>3. Ranked(L, Low(o, n + 1), n, Steps(v))
  BY <1>1, <1>2 DEF LagOf, SENDING, WAITING
<1>4. Low(o, n + 1) = n + 1
  BY DEF Low
<1>5. PICK h \in [Strays(L) -> (n + 1)..n] : TRUE
  BY <1>3, <1>4 DEF Ranked
<1> QED BY <1>5

\* The ECU holds no write and answered none when the line has none.
LEMMA NoWriteHeld ==
    ASSUME TInv, NEW w \in Terminals,
           \A i \in DOMAIN Line(w) : Line(w)[i][1] # UDS_SID_WRITE_DATA_BY_IDENTIFIER
    PROVE  /\ \A p \in Held : p[2].sid # UDS_SID_WRITE_DATA_BY_IDENTIFIER
           /\ ~WriteTold(w)
<1>1. ASSUME NEW p \in Held PROVE p[2].sid # UDS_SID_WRITE_DATA_BY_IDENTIFIER
  <2>1. PICK i \in DOMAIN Line(w) : Line(w)[i] = Kind(p[2])
    BY PlaceOfHeld
  <2>2. Line(w)[i][1] = p[2].sid
    BY <2>1 DEF Kind
  <2> QED BY <2>2
<1>2. ASSUME NEW i \in 1..Len(inbox[w]) PROVE inbox[w][i].sid # UDS_SID_WRITE_DATA_BY_IDENTIFIER
  <2>1. i \in DOMAIN Line(w) /\ Line(w)[i] = MailKind(inbox[w][i])
    BY PlaceOfMail
  <2>2. Line(w)[i][1] = inbox[w][i].sid
    BY <2>1 DEF MailKind
  <2> QED BY <2>1, <2>2
<1> QED BY <1>1, <1>2 DEF WriteTold, PositiveMail

\* Another tool's step: it holds a monitor.
LEMMA OtherWrites ==
    ASSUME TInv, NEW w \in Terminals, OnlyWriter(w), WriteW(w),
           NEW t \in Terminals, t # w, Moves(t), Starts(t) \/ Sends(t) \/ GivesUp(t) \/ Takes(t)
    PROVE  WriteW(w)'
<1>1. tool'[w] = tool[w] /\ inbox'[w] = inbox[w] /\ owner' = owner
  BY DEF Moves, vars, ecuVars
<1>2. ASSUME NEW name, WritesAre(name) PROVE WritesAre(name)'
  <2> SUFFICES ASSUME NEW p \in Held', p[2].sid = UDS_SID_WRITE_DATA_BY_IDENTIFIER
               PROVE  p[2].name = name
    BY DEF WritesAre
  <2>1. CASE p \in Held
    BY <1>2, <2>1 DEF WritesAre
  <2>2. CASE Sends(t) /\ p[2] = Current(tool[t])
    <3>1. Kind(Current(tool[t])) \in MonitorKinds
      BY <2>2, OthersMonitor DEF Sends, Live
    <3>2. Kind(Current(tool[t]))[1] = UDS_SID_WRITE_DATA_BY_IDENTIFIER
      BY <2>2 DEF Kind
    <3> QED BY <3>1, <3>2, MonitorSid, Sids
  <2> QED BY <2>1, <2>2, HeldMoves
<1>3. WritesAre(tool[w].cmd.name) => WritesAre(tool[w].cmd.name)'
  <2>1. PICK name : name = tool[w].cmd.name
    OBVIOUS
  <2>2. WritesAre(name) => WritesAre(name)'
    BY <1>2
  <2> QED BY <1>1, <2>1, <2>2 DEF WritesAre
<1> QED BY <1>1, <1>3 DEF WriteW, Writing, Confirming, Wrote, WriteTold, Current, Steps, Live

\* A tool that is not at one of the last two requests of write-name promises nothing yet.
LEMMA NothingToShow ==
    ASSUME NEW w \in Terminals,
           ~(Writing(tool'[w]) /\ tool'[w].status = WAITING), ~Confirming(tool'[w]), ~Wrote(tool'[w])
    PROVE  WriteW(w)'
BY DEF WriteW, Writing, Confirming, Wrote, Current, Steps, Live

\* The tool sends the name, ...
LEMMA NameSent ==
    ASSUME TInv, TInv', Lag, NEW w \in Terminals, OnlyWriter(w), spent.overtakes \in {0, 1, 2},
           Moves(w), Sends(w),
           Writing(tool[w])
    PROVE  WriteW(w)'
<1>1. PICK v : v = tool[w]
  OBVIOUS
<1>2. /\ GoodInvocation(w, v) /\ v.status = SENDING /\ tool'[w].status = WAITING
      /\ tool'[w].cmd = v.cmd /\ tool'[w].step = v.step /\ tool'[w].seed = v.seed
      /\ v.cmd.verb = "write-name" /\ Current(v) = WriteName(v.cmd) /\ LagOf(v, Line(w), spent.overtakes)
  BY <1>1 DEF TInv, ToolsTyped, Sends, Writing, Lag
<1>3. \A i \in DOMAIN Line(w) : Line(w)[i][1] # UDS_SID_WRITE_DATA_BY_IDENTIFIER
  BY <1>1, <1>2, NoWriteBefore
<1>4. (\A p \in Held : p[2].sid # UDS_SID_WRITE_DATA_BY_IDENTIFIER) /\ ~WriteTold(w)
  BY <1>3, NoWriteHeld
<1>5. ASSUME NEW p \in Held', p[2].sid = UDS_SID_WRITE_DATA_BY_IDENTIFIER
      PROVE  p[2].name = v.cmd.name
  <2>1. p[2] = WriteName(v.cmd)
    BY <1>1, <1>2, <1>4, <1>5, HeldMoves
  <2>2. WriteName(v.cmd).name = v.cmd.name
    BY RequestParts, Zenon
  <2> QED BY <2>1, <2>2
<1>6. WritesAre(tool[w].cmd.name)'
  BY <1>2, <1>5 DEF WritesAre
<1>7. ~PositiveMail(inbox'[w], UDS_SID_WRITE_DATA_BY_IDENTIFIER, 0)
  <2>1. PICK n \in Nat : Dropped(inbox'[w], inbox[w], n)
    BY DEF Moves
  <2>2. Len(inbox[w]) \in Nat
    BY DEF TInv, ToolsTyped
  <2> QED BY <1>4, <2>1, <2>2, PositiveDropped DEF WriteTold
<1>8. ~WriteTold(w)'
  BY <1>7 DEF WriteTold
<1>9. Current(tool'[w]) = WriteName(v.cmd)
  BY <1>2 DEF Current, Steps
<1>10. ~Confirming(tool[w])' /\ ~Wrote(tool[w])'
  <2>1. WriteName(v.cmd) # ReadOwner
    <3>1. WriteName(v.cmd).sid = UDS_SID_WRITE_DATA_BY_IDENTIFIER
      BY RequestParts, Zenon
    <3> QED BY <3>1, RequestParts, Sids
  <2>2. ~Confirming(tool'[w])
    BY <1>9, <2>1 DEF Confirming
  <2>3. ~Wrote(tool'[w])
    BY <1>2 DEF Wrote, WAITING, EXIT_OK
  <2> QED BY <2>2, <2>3 DEF Confirming, Wrote, Current, Steps, Live
<1> QED BY <1>6, <1>8, <1>10 DEF WriteW

\* ... and asks for it.
LEMMA OwnerAsked ==
    ASSUME TInv, TInv', Lag, NEW w \in Terminals, OnlyWriter(w), spent.overtakes \in {0, 1, 2},
           Moves(w), Sends(w),
           Confirming(tool[w]), WriteW(w)
    PROVE  WriteW(w)'
<1>1. PICK v : v = tool[w]
  OBVIOUS
<1>2. /\ GoodInvocation(w, v) /\ v.status = SENDING /\ tool'[w].status = WAITING
      /\ tool'[w].cmd = v.cmd /\ tool'[w].step = v.step /\ tool'[w].seed = v.seed
      /\ v.cmd.verb = "write-name" /\ Current(v) = ReadOwner /\ LagOf(v, Line(w), spent.overtakes)
  BY <1>1 DEF TInv, ToolsTyped, Sends, Confirming, Lag
<1>3. Strays(Line(w)) = {}
  BY <1>1, <1>2, NoneBeforeConfirming
<1>4. WritesAre(v.cmd.name) /\ owner.name = v.cmd.name /\ owner' = owner
  BY <1>1 DEF WriteW, Moves, vars, ecuVars
<1>5. ASSUME NEW p \in Held', p[2].sid = UDS_SID_WRITE_DATA_BY_IDENTIFIER
      PROVE  p[2].name = v.cmd.name
  <2>1. p[2] # ReadOwner
    BY <1>5, RequestParts, Sids
  <2>2. p \in Held
    BY <1>1, <1>2, <2>1, HeldMoves
  <2> QED BY <1>4, <1>5, <2>2 DEF WritesAre
<1>6. WritesAre(tool[w].cmd.name)'
  BY <1>2, <1>5 DEF WritesAre
<1>7. Current(tool'[w]) = ReadOwner
  BY <1>2 DEF Current, Steps
<1>8. ~Writing(tool[w])' /\ ~Wrote(tool[w])'
  <2>1. WriteName(v.cmd) # ReadOwner
    <3>1. WriteName(v.cmd).sid = UDS_SID_WRITE_DATA_BY_IDENTIFIER
      BY RequestParts, Zenon
    <3> QED BY <3>1, RequestParts, Sids
  <2>2. ~Writing(tool'[w])
    BY <1>2, <1>7, <2>1 DEF Writing
  <2>3. ~Wrote(tool'[w])
    BY <1>2 DEF Wrote, WAITING, EXIT_OK
  <2> QED BY <2>2, <2>3 DEF Writing, Wrote, Current, Steps, Live
<1>9. ASSUME NEW i \in 1..Len(inbox'[w]) PROVE ~Answers(ReadOwner, inbox'[w][i])
  <2>1. PICK n \in Nat : Dropped(inbox'[w], inbox[w], n)
    BY DEF Moves
  <2>2. Len(inbox[w]) \in Nat
    BY DEF TInv, ToolsTyped
  <2>3. i + n \in 1..Len(inbox[w]) /\ inbox'[w][i] = inbox[w][i + n]
    BY <2>1, <2>2, MailDropped
  <2>4. PICK j \in 1..Len(inbox[w]) : j = i + n
    BY <2>3
  <2>5. j \in DOMAIN Line(w) /\ Line(w)[j] = MailKind(inbox[w][j])
    BY PlaceOfMail
  <2>6. MailKind(inbox[w][j]) \in MonitorKinds
    BY <1>3, <2>5 DEF Strays
  <2>7. ASSUME Answers(ReadOwner, inbox[w][j]) PROVE FALSE
    <3>1. MailKind(inbox[w][j]) = Kind(ReadOwner)
      BY <2>7 DEF Answers, MailKind, Kind
    <3>2. Kind(ReadOwner) \notin MonitorKinds
      BY StrayKinds DEF ReadOwner
    <3> QED BY <2>6, <3>1, <3>2
  <2> QED BY <2>3, <2>4, <2>7
<1> QED BY <1>2, <1>4, <1>6, <1>8, <1>9 DEF WriteW

\* The seed is asked for at the second step.
LEMMA SeedLater ==
    ASSUME NEW t \in Terminals, NEW v, GoodInvocation(t, v), Live(v), v.cmd.verb = "write-name",
           v.step >= 3
    PROVE  Current(v) # RequestSeed
<1>1. v.cmd.verb \in Verbs \ {"monitor"} /\ v.step \in 1..Len(Script(v.cmd, v.seed)) /\ v.step \in Nat
  BY LiveVerb DEF Verbs
<1>2. Script(v.cmd, v.seed)[v.step] = RequestSeed => v.step = 2
  BY <1>1, SeedStep
<1> QED BY <1>1, <1>2 DEF Current, Steps

\* An answer is taken.
LEMMA AnswerTaken ==
    ASSUME TInv, TInv', NEW w \in Terminals, Moves(w), Takes(w), WriteW(w)
    PROVE  WriteW(w)'
<1>1. PICK v : v = tool[w]
  OBVIOUS
<1>2. PICK x : x = tool'[w]
  OBVIOUS
<1>3. PICK m : m = inbox[w][1]
  OBVIOUS
<1>4. /\ GoodInvocation(w, v) /\ GoodInvocation(w, x) /\ v.status = WAITING /\ Live(v) /\ x.cmd = v.cmd
      /\ x.seed = IF Current(v) = RequestSeed THEN m.seed ELSE v.seed
      /\ x.confirmed = IF Current(v) = ReadOwner THEN m.name ELSE v.confirmed
      /\ v.cmd.verb = "monitor" \/ EndsWell(w) \/ GoesOn(w)
      /\ Answers(Current(v), m)
  BY <1>1, <1>2, <1>3 DEF TInv, ToolsTyped, Takes, Live
<1>5. 1 \in 1..Len(inbox[w])
  BY HeadOfLine
<1>6. owner' = owner /\ Held' = Held
  <2>1. toEcu' = toEcu /\ serving' = serving /\ req' = req /\ owner' = owner
    BY DEF Moves, Takes, vars, ecuVars, dispVars
  <2> QED BY <2>1, HeldSame
<1>7. CASE v.cmd.verb # "write-name"
  <2>1. ~Writing(x) /\ ~Confirming(x) /\ ~Wrote(x)
    BY <1>4, <1>7 DEF Writing, Confirming, Wrote
  <2> QED BY <1>2, <2>1, NothingToShow
<1>8. CASE v.cmd.verb = "write-name" /\ EndsWell(w)
  <2>1. v.step >= Len(Steps(x)) /\ x.status = EXIT_OK /\ v.step \in Nat
    BY <1>1, <1>2, <1>4, <1>8, LiveVerb DEF EndsWell
  <2>2. PICK n \in {3, 4} : WriteAt(Steps(x), x.cmd, n)
    BY <1>4, <1>8, WriteSteps DEF Steps
  <2>3. v.step >= n + 1 /\ v.step >= 3
    BY <2>1, <2>2 DEF WriteAt
  <2>4. Current(v) # RequestSeed
    BY <1>4, <1>8, <2>3, SeedLater
  <2>5. Steps(x) = Steps(v)
    BY <1>4, <2>4 DEF Steps
  <2>6. PICK k \in {3, 4} : WriteAt(Steps(v), v.cmd, k) /\ v.step \in 1..(k + 1) /\ (Confirming(v) <=> v.step = k + 1)
    BY <1>4, <1>8, WriteStage
  <2>7. k + 1 = n + 1
    <3>1. Len(Steps(v)) = k + 1 /\ Len(Steps(x)) = n + 1
      BY <2>2, <2>6 DEF WriteAt
    <3> QED BY <2>5, <3>1
  <2>8. Confirming(v)
    BY <2>3, <2>6, <2>7
  <2>9. Current(v) = ReadOwner
    BY <2>8 DEF Confirming
  <2>10. /\ WritesAre(v.cmd.name) /\ owner.name = v.cmd.name
         /\ \A i \in 1..Len(inbox[w]) : Answers(ReadOwner, inbox[w][i]) => inbox[w][i].name = v.cmd.name
    BY <1>1, <1>4, <2>8 DEF WriteW
  <2>11. x.confirmed = x.cmd.name
    <3>1. m.name = v.cmd.name
      BY <1>3, <1>4, <1>5, <2>9, <2>10
    <3> QED BY <1>4, <2>9, <3>1
  <2>12. ~Live(x)
    BY <2>1 DEF Live, EXIT_OK, SENDING, WAITING
  <2>13. ~Writing(tool[w])' /\ ~Confirming(tool[w])'
    BY <1>2, <2>12 DEF Writing, Confirming, Live
  <2>14. WritesAre(tool[w].cmd.name)'
    BY <1>2, <1>4, <1>6, <2>10 DEF WritesAre
  <2>15. owner'.name = tool'[w].cmd.name /\ tool'[w].confirmed = tool'[w].cmd.name
    BY <1>2, <1>4, <1>6, <2>10, <2>11
  <2> QED BY <2>13, <2>14, <2>15 DEF WriteW
<1>9. CASE v.cmd.verb = "write-name" /\ GoesOn(w)
  <2>1. x.step = v.step + 1 /\ x.status = SENDING /\ Live(x) /\ v.step \in Nat
    BY <1>1, <1>2, <1>4, <1>9, LiveVerb DEF GoesOn, Live
  <2>2. ~Wrote(x) /\ x.status # WAITING
    BY <2>1 DEF Wrote, EXIT_OK, SENDING, WAITING
  <2>3. CASE ~Confirming(x)
    BY <1>2, <2>2, <2>3, NothingToShow
  <2>4. CASE Confirming(x)
    <3>1. PICK n \in {3, 4} : WriteAt(Steps(x), x.cmd, n) /\ (Confirming(x) <=> x.step = n + 1)
      BY <1>4, <1>9, <2>1, WriteStage
    <3>2. v.step = n /\ v.step >= 3
      BY <2>1, <2>4, <3>1
    <3>3. Current(v) # RequestSeed
      BY <1>4, <1>9, <3>2, SeedLater
    <3>4. Steps(x) = Steps(v)
      BY <1>4, <3>3 DEF Steps
    <3>5. Current(v) = WriteName(v.cmd)
      BY <1>4, <3>1, <3>2, <3>4 DEF WriteAt, Current
    <3>6. Writing(v)
      BY <1>4, <1>9, <3>5 DEF Writing
    <3>7. WriteTold(w)
      <4>1. /\ WriteName(v.cmd).sid = UDS_SID_WRITE_DATA_BY_IDENTIFIER /\ Sub(WriteName(v.cmd)) = 0
        BY RequestParts, Zenon
      <4>2. m.sid = UDS_SID_WRITE_DATA_BY_IDENTIFIER /\ m.sub = 0 /\ m.nrc = NO_NRC
        BY <1>4, <3>5, <4>1 DEF Answers
      <4> QED BY <1>3, <1>5, <4>2 DEF WriteTold, PositiveMail
    <3>8. WritesAre(v.cmd.name) /\ owner.name = v.cmd.name
      BY <1>1, <1>4, <3>6, <3>7 DEF WriteW
    <3>9. WritesAre(tool[w].cmd.name)' /\ owner'.name = tool'[w].cmd.name
      BY <1>2, <1>4, <1>6, <3>8 DEF WritesAre
    <3>10. ~(tool'[w].status = WAITING) /\ ~Wrote(tool[w])'
      BY <1>2, <2>2 DEF Wrote
    <3> QED BY <3>9, <3>10 DEF WriteW
  <2> QED BY <2>3, <2>4
<1>10. v.cmd.verb = "write-name" => v.cmd.verb # "monitor"
  OBVIOUS
<1> QED BY <1>4, <1>7, <1>8, <1>9, <1>10

\* The tool's own step.
LEMMA OwnWrites ==
    ASSUME TInv, TInv', Lag, NEW w \in Terminals, OnlyWriter(w), spent.overtakes \in {0, 1, 2},
           WriteW(w),
           Moves(w), Starts(w) \/ Sends(w) \/ GivesUp(w) \/ Takes(w)
    PROVE  WriteW(w)'
<1>1. PICK x : x = tool'[w]
  OBVIOUS
<1>2. GoodInvocation(w, x)
  BY <1>1 DEF TInv, ToolsTyped
<1>3. CASE Starts(w)
  <2>1. PICK k \in Commands(w), status \in {EXIT_IO, SENDING} : x = Invocation(k, status)
    BY <1>1, <1>3 DEF Starts
  <2>2. x.step = 1 /\ x.status \in {EXIT_IO, SENDING}
    BY <2>1 DEF Invocation
  <2>3. ~Wrote(x)
    BY <2>2 DEF Wrote, EXIT_IO, SENDING, EXIT_OK
  <2>4. ASSUME Writing(x) \/ Confirming(x) PROVE FALSE
    <3>1. x.cmd.verb = "write-name" /\ Live(x)
      BY <2>4 DEF Writing, Confirming
    <3>2. PICK n \in {3, 4} : (Writing(x) <=> x.step = n) /\ (Confirming(x) <=> x.step = n + 1)
      BY <1>2, <3>1, WriteStage
    <3> QED BY <2>2, <2>4, <3>2
  <2> QED BY <1>1, <2>3, <2>4, NothingToShow
<1>4. CASE Sends(w)
  <2>1. CASE Writing(tool[w])
    BY <1>4, <2>1, NameSent
  <2>2. CASE Confirming(tool[w])
    BY <1>4, <2>2, OwnerAsked
  <2>3. CASE ~Writing(tool[w]) /\ ~Confirming(tool[w])
    <3>1. /\ x.cmd = tool[w].cmd /\ x.step = tool[w].step /\ x.seed = tool[w].seed
          /\ x.status = WAITING /\ Live(tool[w])
      BY <1>1, <1>4 DEF Sends, Live
    <3>2. Current(x) = Current(tool[w])
      BY <3>1 DEF Current, Steps
    <3>3. ~Writing(x) /\ ~Confirming(x) /\ ~Wrote(x)
      BY <2>3, <3>1, <3>2 DEF Writing, Confirming, Wrote, WAITING, EXIT_OK
    <3> QED BY <1>1, <3>3, NothingToShow
  <2> QED BY <2>1, <2>2, <2>3
<1>5. CASE GivesUp(w)
  <2>1. x.cmd = tool[w].cmd /\ (x.cmd.verb = "monitor" \/ (~Live(x) /\ x.status # EXIT_OK))
    BY <1>1, <1>5 DEF GivesUp
  <2>2. ~Writing(x) /\ ~Confirming(x) /\ ~Wrote(x)
    BY <2>1 DEF Writing, Confirming, Wrote
  <2> QED BY <1>1, <2>2, NothingToShow
<1>6. CASE Takes(w)
  BY <1>6, AnswerTaken
<1> QED BY <1>3, <1>4, <1>5, <1>6

\* A step of the ECU that leaves the owner and the messages.
LEMMA EcuLeavesWrites ==
    ASSUME TInv, NEW w \in Terminals, WriteW(w), Held' \subseteq Held,
           tool' = tool, inbox' = inbox,
           \/ owner' = owner
           \/ \E p \in Held : p[2].sid = UDS_SID_WRITE_DATA_BY_IDENTIFIER /\ owner'.name = p[2].name
    PROVE  WriteW(w)'
<1>1. WritesAre(tool[w].cmd.name) => WritesAre(tool[w].cmd.name)'
  BY DEF WritesAre
<1>2. WritesAre(tool[w].cmd.name) /\ owner' # owner => owner'.name = tool[w].cmd.name
  BY DEF WritesAre
<1>3. /\ Writing(tool[w])' <=> Writing(tool[w])
      /\ Confirming(tool[w])' <=> Confirming(tool[w])
      /\ Wrote(tool[w])' <=> Wrote(tool[w])
      /\ WriteTold(w)' <=> WriteTold(w)
  BY DEF Writing, Confirming, Wrote, WriteTold, Current, Steps, Live
<1> QED BY <1>1, <1>2, <1>3 DEF WriteW

\* The dispatcher answers.
LEMMA AnswersWrites ==
    ASSUME TInv, HeldInv, EcuAnswers, Stored, NEW w \in Terminals, WriteW(w)
    PROVE  WriteW(w)'
<1>1. /\ Held' \subseteq Held /\ serving # Nobody /\ dpc = "respond" /\ tool' = tool /\ owner' = owner /\ Answer \in Mail
      /\ inbox'[w] = inbox[w] \/ inbox'[w] = Append(inbox[w], Answer)
  BY HeldAnswered DEF ecuVars
<1>2. <<serving, req>> \in Held /\ Shape(req)
  BY <1>1, InHandShape
<1>3. /\ Writing(tool[w])' <=> Writing(tool[w])
      /\ Confirming(tool[w])' <=> Confirming(tool[w])
      /\ Wrote(tool[w])' <=> Wrote(tool[w])
  BY <1>1 DEF Writing, Confirming, Wrote, Current, Steps, Live
<1>4. PICK v : v = tool[w]
  OBVIOUS
<1>5. WritesAre(v.cmd.name) => WritesAre(v.cmd.name)'
  BY <1>1, <1>4 DEF WritesAre
<1>6. PICK m \in Mail : m = Answer
  BY <1>1
<1>7. inbox[w] \in Seq(Mail)
  BY DEF TInv, ToolsTyped
<1>8. ASSUME inbox'[w] = Append(inbox[w], m)
      PROVE  /\ Len(inbox[w]) \in Nat
             /\ \A i \in 1..Len(inbox'[w]) : \/ i \in 1..Len(inbox[w]) /\ inbox'[w][i] = inbox[w][i]
                                             \/ inbox'[w][i] = m
  <2>1. /\ Len(inbox[w]) \in Nat /\ Len(inbox'[w]) = Len(inbox[w]) + 1
        /\ \A i \in 1..Len(inbox[w]) : inbox'[w][i] = inbox[w][i]
        /\ inbox'[w][Len(inbox[w]) + 1] = m
    BY <1>7, <1>8
  <2> QED BY <2>1
<1>9. \A i \in 1..Len(inbox'[w]) : \/ i \in 1..Len(inbox[w]) /\ inbox'[w][i] = inbox[w][i]
                                   \/ inbox'[w][i] = m
  BY <1>1, <1>6, <1>8
<1>10. ASSUME Writing(v), v.status = WAITING, WriteTold(w)' PROVE owner.name = v.cmd.name
  <2>1. PICK i \in 1..Len(inbox'[w]) :
           inbox'[w][i].sid = UDS_SID_WRITE_DATA_BY_IDENTIFIER /\ inbox'[w][i].sub = 0 /\ inbox'[w][i].nrc = NO_NRC
    BY <1>10 DEF WriteTold, PositiveMail
  <2>2. CASE i \in 1..Len(inbox[w]) /\ inbox'[w][i] = inbox[w][i]
    <3>1. WriteTold(w)
      BY <2>1, <2>2 DEF WriteTold, PositiveMail
    <3> QED BY <1>4, <1>10, <3>1 DEF WriteW
  <2>3. CASE inbox'[w][i] = m
    <3>1. req.sid = UDS_SID_WRITE_DATA_BY_IDENTIFIER /\ resp.nrc = NO_NRC
      BY <1>6, <2>1, <2>3 DEF Answer
    <3>2. owner.name = req.name
      BY <1>1, <3>1 DEF Stored
    <3>3. WritesAre(v.cmd.name)
      BY <1>4, <1>10 DEF WriteW
    <3>4. PICK p \in Held : p[2] = req
      BY <1>2
    <3> QED BY <3>1, <3>2, <3>3, <3>4 DEF WritesAre
  <2> QED BY <1>9, <2>2, <2>3
<1>11. ASSUME Confirming(v), v.status = WAITING, NEW i \in 1..Len(inbox'[w]), Answers(ReadOwner, inbox'[w][i])
       PROVE  inbox'[w][i].name = v.cmd.name
  <2>1. CASE i \in 1..Len(inbox[w]) /\ inbox'[w][i] = inbox[w][i]
    BY <1>4, <1>11, <2>1 DEF WriteW
  <2>2. CASE inbox'[w][i] = m
    <3>1. m.sid = UDS_SID_READ_DATA_BY_IDENTIFIER /\ m.did = "F200 owner"
      BY <1>11, <2>2, RequestParts DEF Answers
    <3>2. req.sid = UDS_SID_READ_DATA_BY_IDENTIFIER /\ req.did = "F200 owner"
      BY <1>6, <3>1 DEF Answer
    <3>3. req = ReadOwner
      BY <1>2, <3>2, ShapeFields DEF ReadOwner
    <3>4. m.name = owner.name
      BY <1>6, <3>3 DEF Answer
    <3>5. owner.name = v.cmd.name
      BY <1>4, <1>11 DEF WriteW
    <3> QED BY <2>2, <3>4, <3>5
  <2> QED BY <1>9, <2>1, <2>2
<1>12. WritesAre(tool[w].cmd.name) => WritesAre(tool[w].cmd.name)'
  BY <1>1 DEF WritesAre
<1> QED BY <1>1, <1>3, <1>4, <1>10, <1>11, <1>12 DEF WriteW

\* What the ECU says it stored, it stored.
LEMMA NextStored == TInv /\ HeldInv /\ Stored /\ [ToolNext]_<<vars, toolVars>> => Stored'
<1> SUFFICES ASSUME TInv, HeldInv, Stored, [ToolNext]_<<vars, toolVars>> PROVE Stored'
  OBVIOUS
<1>1. CASE dpc' = dpc /\ req' = req /\ resp' = resp /\ owner' = owner
  BY <1>1 DEF Stored
<1>2. CASE EcuTakes \/ EcuAnswers
  <2>1. dpc' # "respond"
    BY <1>2, HeldTaken, HeldAnswered
  <2> QED BY <2>1 DEF Stored
<1>3. CASE EcuHandles
  <2>1. req' = req /\ Serves
    BY <1>3, EcuServes
  <2> QED BY <2>1, Sids DEF Stored, Serves, ServesQuietly, ServesClear, ServesSeed, ServesKey, ServesWrite
<1>4. CASE EcuTimer \/ TimePasses
  BY <1>1, <1>4, EcuInside
<1>5. ASSUME NEW t \in Terminals, Tool(t) \/ \E k \in Commands(t) : Start(t, k) PROVE Stored'
  <2>1. Moves(t)
    BY <1>5, ToolMoves
  <2> QED BY <1>1, <2>1 DEF Moves, vars, ecuVars, dispVars
<1>6. CASE UNCHANGED <<vars, toolVars>>
  BY <1>1, <1>6 DEF vars, ecuVars, dispVars
<1> QED BY <1>2, <1>3, <1>4, <1>5, <1>6 DEF ToolNext, Ecu

\* A write is not mistaken as long as two commands at most overtake others.
LEMMA NextWriteInv == TInv /\ HeldInv /\ Lag /\ WriteInv /\ [ToolNext]_<<vars, toolVars>> => WriteInv'
<1> SUFFICES ASSUME TInv, HeldInv, Lag, WriteInv, [ToolNext]_<<vars, toolVars>> PROVE WriteInv'
  OBVIOUS
<1>1. TInv' /\ Stored /\ Stored'
  BY NextTInv, NextStored DEF WriteInv
<1>2. ASSUME NEW w \in Terminals, OnlyWriter(w), spent'.overtakes <= 2 PROVE WriteW(w)'
  <2>1. spent.overtakes \in {0, 1, 2} /\ WriteW(w)
    <3>1. spent.overtakes \in Nat /\ spent'.overtakes \in Nat /\ spent.overtakes <= spent'.overtakes
      BY OvertakesGrow
    <3>2. spent.overtakes <= 2
      BY <1>2, <3>1
    <3> QED BY <1>2, <3>1, <3>2 DEF WriteInv
  <2>2. ASSUME NEW t \in Terminals, Tool(t) \/ \E k \in Commands(t) : Start(t, k) PROVE WriteW(w)'
    <3>1. Moves(t) /\ (Starts(t) \/ Sends(t) \/ GivesUp(t) \/ Takes(t))
      BY <2>2, ToolMoves
    <3>2. CASE t # w
      BY <1>2, <2>1, <3>1, <3>2, OtherWrites
    <3>3. CASE t = w
      BY <1>1, <1>2, <2>1, <3>1, <3>3, OwnWrites
    <3> QED BY <3>2, <3>3
  <2>3. CASE EcuAnswers
    BY <1>1, <2>1, <2>3, AnswersWrites
  <2>4. CASE EcuTakes
    <3>1. Held' \subseteq Held /\ tool' = tool /\ inbox' = inbox /\ owner' = owner
      BY <2>4, HeldTaken DEF ecuVars
    <3> QED BY <2>1, <3>1, EcuLeavesWrites
  <2>5. CASE EcuHandles
    <3>1. /\ toEcu' = toEcu /\ serving' = serving /\ tool' = tool /\ inbox' = inbox /\ req' = req
          /\ Serves /\ dpc # "pop"
      BY <2>5, EcuInside, EcuServes
    <3>2. Held' \subseteq Held
      BY <3>1, HeldSame
    <3>3. PICK p \in Held : p[2] = req
      BY <3>1, InHandShape
    <3>4. \/ owner' = owner
          \/ \E q \in Held : q[2].sid = UDS_SID_WRITE_DATA_BY_IDENTIFIER /\ owner'.name = q[2].name
      BY <3>1, <3>3 DEF Serves, ServesQuietly, ServesClear, ServesSeed, ServesKey, ServesWrite
    <3> QED BY <2>1, <3>1, <3>2, <3>4, EcuLeavesWrites
  <2>6. CASE EcuTimer \/ TimePasses
    <3>1. toEcu' = toEcu /\ serving' = serving /\ tool' = tool /\ inbox' = inbox /\ req' = req /\ owner' = owner
      BY <2>6, EcuInside
    <3>2. Held' \subseteq Held
      BY <3>1, HeldSame
    <3> QED BY <2>1, <3>1, <3>2, EcuLeavesWrites
  <2>7. CASE UNCHANGED <<vars, toolVars>>
    <3>1. toEcu' = toEcu /\ serving' = serving /\ tool' = tool /\ inbox' = inbox /\ req' = req /\ owner' = owner
      BY <2>7 DEF vars, toolVars, ecuVars, dispVars
    <3>2. Held' \subseteq Held
      BY <3>1, HeldSame
    <3> QED BY <2>1, <3>1, <3>2, EcuLeavesWrites
  <2> QED BY <2>2, <2>3, <2>4, <2>5, <2>6, <2>7 DEF ToolNext, Ecu
<1> QED BY <1>1, <1>2 DEF WriteInv

\* All of it.
ToolsInv == TInv /\ HeldInv /\ TruthInv /\ Lag /\ Honest /\ WriteInv

\* At first nothing is under way.
LEMMA InitToolsInv == ToolInit => ToolsInv
<1> SUFFICES ASSUME ToolInit PROVE ToolsInv
  OBVIOUS
<1>1. TInv
  BY InitTInv
<1>2. /\ toEcu = <<>> /\ serving = Nobody /\ dpc = "pop" /\ spc # "relock" /\ sec.fail_count = 0
      /\ spent.overtakes = 0
  BY DEF ToolInit, Init, Nothing, security_init
<1>3. ASSUME NEW t \in Terminals
      PROVE  inbox[t] = <<>> /\ tool[t].cmd.verb = "none" /\ tool[t].status = EXIT_OK
  BY DEF ToolInit, Invocation, NoCommand
<1>4. Held = {}
  BY <1>2 DEF Held
<1>5. HeldInv
  BY <1>2, <1>4 DEF HeldInv, InService
<1>6. \A sid, sub : ~Told(sid, sub)
  BY <1>2, <1>3 DEF Told, PositiveMail
<1>7. TruthInv
  BY <1>2, <1>3, <1>6 DEF TruthInv, Ended
<1>8. ASSUME NEW w \in Terminals PROVE DOMAIN Line(w) = {}
  <2>1. Entries(Line(w), inbox[w], 0, req, toEcu)
    BY <1>1, <1>2, LineOf DEF InHandCount
  <2> QED BY <1>2, <1>3, <2>1 DEF Entries
<1>9. Lag
  <2> SUFFICES ASSUME NEW w \in Terminals PROVE LagOf(tool[w], Line(w), spent.overtakes)
    BY DEF Lag
  <2>1. Strays(Line(w)) = {}
    BY <1>8 DEF Strays
  <2> QED BY <2>1, RankedNone DEF LagOf
<1>10. Honest
  <2> SUFFICES ASSUME NEW w \in Terminals PROVE HonestW(w)
    BY DEF Honest
  <2>1. OneAccess(Line(w))
    BY <1>8 DEF OneAccess
  <2>2. KeysFit /\ SeedsFit(w) /\ AnswerFits
    BY <1>2, <1>3, <1>4 DEF KeysFit, SeedsFit, AnswerFits
  <2>3. SeedInUseFits(tool[w])
    BY <1>3 DEF SeedInUseFits, EXIT_OK, SENDING
  <2> QED BY <1>2, <2>1, <2>2, <2>3 DEF HonestW
<1>11. WriteInv
  BY <1>2, <1>3 DEF WriteInv, Stored, WriteW, Writing, Confirming, Wrote
<1> QED BY <1>1, <1>5, <1>7, <1>9, <1>10, <1>11 DEF ToolsInv

\* The strays of a terminal are ranked, and what follows from it, in every
\* reachable state: for any terminals, commands, budgets, seeds and names.
THEOREM ToolsInvariant == ToolSpec => []ToolsInv
<1>1. ToolInit => ToolsInv
  BY InitToolsInv
<1>2. ToolsInv /\ [ToolNext]_<<vars, toolVars>> => ToolsInv'
  BY NextTInv, NextHeldInv, NextTruthInv, NextLag, NextHonest, NextWriteInv DEF ToolsInv
<1> QED BY <1>1, <1>2, PTL DEF ToolSpec

\* security_send_key never counts a wrong key against the tool, which
\* answers the seed of request_seed with security_algo, while one command at
\* most begins before the ECU is done with the one before: whatever requests
\* and answers are lost or late, and whatever the monitor receives.
THEOREM HonestNotPenalised == ToolSpec => []HonestToolNotPenalised
<1>1. ToolsInv => HonestToolNotPenalised
  <2> SUFFICES ASSUME ToolsInv, spent.overtakes <= 1 PROVE sec.fail_count = 0
    BY DEF HonestToolNotPenalised
  <2>1. PICK w \in Terminals : OnlyWriter(w)
    BY WriterAssumption
  <2> QED BY <2>1 DEF ToolsInv, Honest, HonestW
<1> QED BY <1>1, ToolsInvariant, PTL

\* An exit code of 0 is the truth while two commands at most begin before the
\* ECU is done with the one before: cmd_write_name has stored and read back
\* its own name, cmd_clear_dtc has emptied the memory, cmd_unlock has unlocked
\* the ECU, unless the S3 timer came.
THEOREM SuccessTrue == ToolSpec => []SuccessIsTrue
<1>1. ToolsInv => SuccessIsTrue
  <2> SUFFICES ASSUME ToolsInv, spent.overtakes <= 2, NEW t \in Terminals
               PROVE  /\ Ended(t, "write-name", EXIT_OK) =>
                            owner.name = tool[t].cmd.name /\ tool[t].confirmed = tool[t].cmd.name
                      /\ Ended(t, "clear-dtc", EXIT_OK) => dtcs = {}
                      /\ Ended(t, "unlock", EXIT_OK) => Unlocked \/ defaultBy = "s3"
    BY DEF SuccessIsTrue
  <2>1. PICK w \in Terminals : OnlyWriter(w)
    BY WriterAssumption
  <2>2. ASSUME Ended(t, "write-name", EXIT_OK)
        PROVE  owner.name = tool[t].cmd.name /\ tool[t].confirmed = tool[t].cmd.name
    <3>1. tool[t].cmd.verb = "write-name" /\ Wrote(tool[t])
      BY <2>2 DEF Ended, Wrote
    <3>2. t = w
      <4>1. tool[t].cmd \in Commands(t) \cup {NoCommand}
        BY DEF ToolsInv, TInv, ToolsTyped, GoodInvocation, InvocationType
      <4>2. NoCommand.verb = "none"
        BY DEF NoCommand
      <4> QED BY <2>1, <3>1, <4>1, <4>2 DEF OnlyWriter
    <3>3. WriteW(w)
      BY <2>1 DEF ToolsInv, WriteInv
    <3> QED BY <3>1, <3>2, <3>3 DEF WriteW
  <2>3. /\ Ended(t, "clear-dtc", EXIT_OK) => dtcs = {}
        /\ Ended(t, "unlock", EXIT_OK) => Unlocked \/ defaultBy = "s3"
    BY DEF ToolsInv, TruthInv, Open
  <2> QED BY <2>2, <2>3
<1> QED BY <1>1, ToolsInvariant, PTL
-----------------------------------------------------------------------------
(***************************************************************************)
(* A tool alone with the ECU, while time passes.  S3 may take the session  *)
(* and the access from a command at any point; then the command may be     *)
(* refused, and what is left is that no request is under way but the       *)
(* writer's and that no key was counted as wrong.  It is enough for the    *)
(* next command to begin with nothing in its way.                          *)
(***************************************************************************)

LoneInv ==
    \A w \in Terminals : OnlyWriter(w) /\ Quiet => Bare(w) /\ (~s3Acted[w] => Lone(w))

HInv == s3Acted = [t \in Terminals |-> s3Acted[t]] /\ LoneInv

\* What was quiet stays quiet only by quiet steps.
LEMMA QuietBefore ==
    ASSUME TInv, [ToolNext]_<<vars, toolVars>>, Quiet'
    PROVE  Quiet
<1>1. CASE spent' = spent
  BY <1>1 DEF Quiet
<1>2. ASSUME NEW u \in [DOMAIN Nothing -> Nat], Spend(u) PROVE Quiet
  BY <1>2, QuietSpend DEF TInv
<1>3. CASE Ecu
  <2>1. spent' = spent \/ Spend(Once("losses"))
    BY <1>3 DEF Ecu, EcuTakes, EcuHandles, EcuAnswers, EcuTimer, toolVars
  <2> QED BY <1>1, <1>2, <2>1, EventTypes
<1>4. CASE TimePasses
  BY <1>2, <1>4, EventTypes DEF TimePasses
<1>5. ASSUME NEW t \in Terminals, Send(t) PROVE Quiet
  <2>1. PICK lost \in {0, 1} :
           LET round == IF tool[t].cmd.verb = "monitor" /\ tool[t].step = 1 THEN 1 ELSE 0
           IN  Spend([Nothing EXCEPT !.losses = lost, !.rounds = round,
                                     !.overtakes = IF Behind(t) THEN round ELSE 0])
    BY <1>5 DEF Send
  <2> DEFINE b == IF tool[t].cmd.verb = "monitor" /\ tool[t].step = 1 THEN 1 ELSE 0
             c == IF Behind(t) THEN b ELSE 0
             u == [Nothing EXCEPT !.losses = lost, !.rounds = b, !.overtakes = c]
  <2>2. b \in {0, 1} /\ c \in {0, 1}
    OBVIOUS
  <2>3. Spend(u)
    BY <2>1
  <2> HIDE DEF b, c
  <2>4. u \in [DOMAIN Nothing -> Nat]
    BY <2>2, EventTypes
  <2> QED BY <1>2, <2>3, <2>4
<1>6. ASSUME NEW t \in Terminals, SendFails(t) \/ Receive(t) \/ Timeout(t) PROVE Quiet
  <2>1. spent' = spent \/ Spend(Once("losses"))
    BY <1>6 DEF SendFails, Receive, Timeout
  <2> QED BY <1>1, <1>2, <2>1, EventTypes
<1>7. ASSUME NEW t \in Terminals, NEW k \in Commands(t), Start(t, k) PROVE Quiet
  <2>1. PICK failed \in {0, 1} :
           Spend([Once("commands") EXCEPT !.losses = failed,
                                          !.overtakes = IF Behind(t) THEN 1 ELSE 0])
    BY <1>7 DEF Start
  <2> DEFINE c == IF Behind(t) THEN 1 ELSE 0
             u == [Once("commands") EXCEPT !.losses = failed, !.overtakes = c]
  <2>2. c \in {0, 1}
    OBVIOUS
  <2>3. Spend(u)
    BY <2>1
  <2> HIDE DEF c
  <2>4. u \in [DOMAIN Nothing -> Nat]
    BY <2>2, EventTypes
  <2> QED BY <1>2, <2>3, <2>4
<1>8. CASE UNCHANGED <<vars, toolVars>>
  BY <1>1, <1>8 DEF toolVars
<1> QED BY <1>3, <1>4, <1>5, <1>6, <1>7, <1>8 DEF ToolNext, Tool

\* No lock-out begins without a wrong key.
LEMMA NoLockOut ==
    ASSUME VInv, sec.lock_until_ms = 0, [Next]_vars, sec'.fail_count = 0
    PROVE  sec'.lock_until_ms = 0
<1>0. sec \in SecurityState
  BY DEF VInv, TypeOK
<1>1. CASE sec' = sec
  BY <1>1
<1>2. CASE h_ecu_reset_security \/ S3Relock
  <2>1. sec' = security_reset(sec) \/ sec' = security_relock(sec)
    BY <1>2 DEF h_ecu_reset_security, S3Relock
  <2>2. security_reset(sec).lock_until_ms = 0
    BY <1>0 DEF security_reset, SecurityState
  <2>3. security_relock(sec).lock_until_ms = 0
    BY <1>0 DEF security_relock, SecurityState
  <2> QED BY <2>1, <2>2, <2>3
<1>3. ASSUME NEW raw \in Entropy, h_request_seed(raw) PROVE sec'.lock_until_ms = 0
  <2>1. sec' = security_request_seed(sec, Level(req), now, raw).st
    BY <1>3 DEF h_request_seed
  <2>2. ExpireLockOut(sec) = sec
    BY DEF ExpireLockOut
  <2>3. \/ sec' = sec
        \/ sec' = [sec EXCEPT !.seed_issued = FALSE]
        \/ sec' = [sec EXCEPT !.pending_seed = FreshSeed(raw), !.seed_issued = TRUE]
    BY <2>1, <2>2 DEF security_request_seed, Refused
  <2> QED BY <1>0, <2>3 DEF SecurityState
<1>4. CASE h_send_key
  <2> DEFINE s == [sec EXCEPT !.seed_issued = FALSE]
  <2>1. sec' = security_send_key(sec, Level(req), req.key, now).st
    BY <1>4 DEF h_send_key
  <2>2. \/ sec' = sec
        \/ sec' = [s EXCEPT !.unlocked_level = Level(req), !.fail_count = 0]
        \/ sec' = CountFailure(s, now)
    BY <2>1 DEF security_send_key, Refused
  <2>3. s \in SecurityState /\ s.lock_until_ms = 0
    BY <1>0, Zenon DEF SecurityState
  <2> HIDE DEF s
  <2>4. sec' # CountFailure(s, now)
    <3>1. CountFailure(s, now).fail_count = s.fail_count + 1
      BY <2>3 DEF CountFailure, SecurityState
    <3>2. s.fail_count \in Nat
      BY <2>3 DEF SecurityState
    <3>3. s.fail_count + 1 # 0
      BY <3>2
    <3> QED BY <3>1, <3>3
  <2>5. [s EXCEPT !.unlocked_level = Level(req), !.fail_count = 0].lock_until_ms = 0
    BY <2>3 DEF SecurityState
  <2> QED BY <2>2, <2>4, <2>5
<1> QED BY <1>1, <1>2, <1>3, <1>4
    DEF Next, Pop, Handler, S3, Tick, S3Poll, S3ReadNow, S3ReadTp, S3Revert, Respond, vars, ecuVars,
        h_session_control, h_ecu_reset, h_clear_dtc, h_read_dtc, h_read_did, h_security_access,
        h_write_did, h_write_did_security, h_write_did_owner, h_tester_present,
        service_not_supported

\* A tool's step: a monitor does not get to read, and only the writer sends.
LEMMA ToolBare ==
    ASSUME NEW w \in Terminals, OnlyWriter(w), TInv, Bare(w), Quiet', NEW t \in Terminals,
           Tool(t) \/ \E k \in Commands(t) : Start(t, k)
    PROVE  /\ \A u \in Terminals : Unread(tool[u])'
           /\ serving' = serving /\ \A i \in 1..Len(toEcu') : toEcu'[i][1] = w
<1>1. Moves(t) /\ (Starts(t) \/ Sends(t) \/ GivesUp(t) \/ Takes(t))
  BY ToolMoves
<1>2. Unread(tool[t])'
  <2>0. Unread(tool[t])
    BY DEF Bare
  <2>1. CASE \E k \in Commands(t) : Start(t, k)
    <3>1. Starts(t)
      BY <2>1, StartMoves
    <3> QED BY <3>1 DEF Starts, Unread, Invocation, EXIT_IO, SENDING, WAITING
  <2>2. ASSUME tool'[t].cmd = tool[t].cmd, tool[t].cmd.verb # "monitor" PROVE Unread(tool[t])'
    BY <2>2 DEF Unread
  <2>3. CASE Send(t)
    BY <2>0, <2>2, <2>3, SendMoves, OnlyWriterSends DEF Sends
  <2>4. CASE Receive(t) \/ Timeout(t)
    <3>1. Live(tool[t]) /\ tool[t].status = WAITING
      BY <2>4 DEF Receive, Timeout, Live
    <3>2. tool[t].cmd.verb # "monitor"
      BY <2>0, <3>1, OnlyWriterMoves DEF SENDING, WAITING
    <3>3. tool'[t].cmd = tool[t].cmd
      BY <2>4, ReceiveMoves, TimeoutMoves DEF GivesUp, Takes
    <3> QED BY <2>2, <3>2, <3>3
  <2>5. CASE SendFails(t)
    <3>1. Live(tool[t]) /\ tool[t].status = SENDING
      BY <2>5 DEF SendFails, Live
    <3>2. tool'[t].cmd = tool[t].cmd
      BY <2>5, SendFailsMoves DEF GivesUp
    <3>3. CASE tool[t].cmd.verb = "monitor"
      <4>1. tool[t].step = 1
        BY <2>0, <3>1, <3>3, OnlyWriterMoves
      <4>2. PICK code : Becomes(t, Fails(tool[t], code), inbox[t])
        BY <2>5 DEF SendFails
      <4>3. tool' = tool
        BY <3>1, <3>3, <4>1, <4>2, MonitorFails
      <4> QED BY <2>0, <4>3 DEF Unread
    <3> QED BY <2>2, <3>2, <3>3
  <2> QED BY <2>1, <2>3, <2>4, <2>5 DEF Tool
<1>3. ASSUME NEW u \in Terminals PROVE Unread(tool[u])'
  <2>1. CASE u = t
    BY <1>2, <2>1
  <2>2. CASE u # t
    BY <1>1, <2>2 DEF Moves, Bare, Unread
  <2> QED BY <2>1, <2>2
<1>4. \A i \in 1..Len(toEcu') : toEcu'[i][1] = w
  <2>1. CASE toEcu' = toEcu
    BY <2>1 DEF Bare
  <2>2. CASE toEcu' # toEcu
    <3>1. Sends(t)
      BY <1>1, <2>2 DEF Starts, GivesUp, Takes
    <3>2. toEcu' = Append(toEcu, <<t, Current(tool[t])>>) /\ Current(tool[t]) \in Requests
      BY <2>2, <3>1 DEF Sends
    <3>3. Send(t)
      BY <2>2 DEF Tool, SendFails, Receive, Timeout, Start
    <3>4. t = w
      BY <3>3, OnlyWriterSends DEF Bare
    <3>5. PICK x : x = <<t, Current(tool[t])>>
      OBVIOUS
    <3>6. x \in Terminals \X Requests /\ x[1] = w
      BY <3>2, <3>4, <3>5
    <3>7. toEcu \in Seq(Terminals \X Requests)
      BY DEF TInv, EcuTyped
    <3>8. /\ Len(toEcu') = Len(toEcu) + 1 /\ toEcu'[Len(toEcu) + 1] = x
          /\ \A i \in 1..Len(toEcu) : toEcu'[i] = toEcu[i]
      BY <3>2, <3>5, <3>6, <3>7, AppendProperties
    <3>9. \A i \in 1..(Len(toEcu) + 1) : i \in 1..Len(toEcu) \/ i = Len(toEcu) + 1
      <4>1. Len(toEcu) \in Nat
        BY <3>7
      <4> QED BY ONLY <4>1
    <3> QED BY <3>6, <3>8, <3>9 DEF Bare
  <2> QED BY <2>1, <2>2
<1> QED BY <1>1, <1>3, <1>4 DEF Moves

\* Every step leaves no request under way but the writer's, if no key is wrong.
LEMMA BareKept ==
    ASSUME NEW w \in Terminals, OnlyWriter(w), TInv, Bare(w), [ToolNext]_<<vars, toolVars>>,
           Quiet', sec'.fail_count = 0
    PROVE  Bare(w)'
<1>1. Calm'
  <2>1. [Next]_vars
    BY EcuStep
  <2>2. sec'.lock_until_ms = 0
    BY <2>1, NoLockOut DEF TInv, Bare, Calm
  <2> QED BY <2>2 DEF Calm
<1>2. ASSUME tool' = tool, serving' \in {w, Nobody},
             \A i \in 1..Len(toEcu') : toEcu'[i][1] = w
      PROVE  Bare(w)'
  BY <1>1, <1>2 DEF Bare, Unread
<1>3. CASE EcuTakes
  <2>1. toEcu \in Seq(Terminals \X Requests) /\ toEcu # <<>>
    BY <1>3 DEF TInv, EcuTyped, EcuTakes
  <2>2. /\ Len(Tail(toEcu)) = Len(toEcu) - 1 /\ Len(toEcu) \in Nat \ {0}
        /\ \A i \in 1..Len(Tail(toEcu)) : Tail(toEcu)[i] = toEcu[i + 1]
        /\ Head(toEcu) = toEcu[1]
    BY <2>1, HeadTailProperties
  <2>3. toEcu' = Tail(toEcu) /\ serving' = Head(toEcu)[1] /\ tool' = tool
    BY <1>3 DEF EcuTakes
  <2>4. 1 \in 1..Len(toEcu) /\ \A i \in 1..(Len(toEcu) - 1) : i + 1 \in 1..Len(toEcu)
    BY ONLY <2>2
  <2>5. serving' = w
    BY <2>2, <2>3, <2>4 DEF Bare
  <2>6. \A i \in 1..Len(toEcu') : toEcu'[i][1] = w
    BY <2>2, <2>3, <2>4 DEF Bare
  <2> QED BY <1>2, <2>3, <2>5, <2>6
<1>4. CASE EcuHandles \/ EcuTimer \/ TimePasses \/ UNCHANGED <<vars, toolVars>>
  <2>1. tool' = tool /\ serving' = serving /\ toEcu' = toEcu
    BY <1>4 DEF EcuHandles, EcuTimer, TimePasses, toolVars
  <2> QED BY <1>2, <2>1 DEF Bare
<1>5. CASE EcuAnswers
  <2>1. tool' = tool /\ serving' = Nobody /\ toEcu' = toEcu
    BY <1>5 DEF EcuAnswers
  <2> QED BY <1>2, <2>1 DEF Bare
<1>6. ASSUME NEW t \in Terminals, Tool(t) \/ \E k \in Commands(t) : Start(t, k)
      PROVE  Bare(w)'
  <2>1. /\ \A u \in Terminals : Unread(tool[u])'
        /\ serving' = serving /\ \A i \in 1..Len(toEcu') : toEcu'[i][1] = w
    BY <1>6, ToolBare
  <2> QED BY <1>1, <2>1 DEF Bare
<1> QED BY <1>3, <1>4, <1>5, <1>6 DEF ToolNext, Ecu

\* The clock, and S3 up to its decision, leave a command alone.
LEMMA ClockLone ==
    ASSUME NEW w \in Terminals, Lone(w), S3Poll \/ S3ReadNow \/ S3ReadTp \/ Tick,
           UNCHANGED <<toEcu, serving, tool, inbox>>
    PROVE  Lone(w)'
<1>1. UNCHANGED Seen
  BY DEF S3Poll, S3ReadNow, S3ReadTp, Tick, ecuVars, dispVars, Seen
<1> QED BY <1>1, LoneKept

\* Nobody has typed a command.
LEMMA InitHInv == HInit => HInv
<1> SUFFICES ASSUME HInit, NEW w \in Terminals PROVE Bare(w) /\ Lone(w)
  BY DEF HInit, HInv, LoneInv
<1>1. PICK v : v = Invocation(NoCommand, EXIT_OK)
  OBVIOUS
<1>2. v.cmd.verb = "none" /\ v.status = EXIT_OK
  BY <1>1 DEF Invocation, NoCommand
<1>3. tool = [t \in Terminals |-> v] /\ inbox = [t \in Terminals |-> <<>>]
  BY <1>1 DEF HInit, ToolInit
<1>4. \A t \in Terminals : Unread(tool[t]) /\ Accepted(tool[t])
  BY <1>2, <1>3 DEF Unread, Accepted, LegalWrite
<1>5. Resting(w)
  BY <1>2, <1>3 DEF HInit, ToolInit, Resting, Idle, Live, EXIT_OK, SENDING, WAITING
<1>6. Calm
  BY DEF HInit, ToolInit, Init, Calm, security_init
<1>7. Bare(w)
  BY <1>4, <1>6 DEF HInit, ToolInit, Bare
<1> QED BY <1>4, <1>5, <1>6, <1>7 DEF Lone, Stage

\* The history is only written.
LEMMA HistoryStep ==
    [HNext]_<<vars, toolVars, s3Acted>> => [ToolNext]_<<vars, toolVars>>
BY DEF HNext, HStart, HTimer, ToolNext, Ecu

\* Every step preserves the invariant.
LEMMA NextHInv ==
    ASSUME TInv, HInv, [HNext]_<<vars, toolVars, s3Acted>>, HonestToolNotPenalised'
    PROVE  HInv'
<1>0. [ToolNext]_<<vars, toolVars>>
  BY HistoryStep
<1>1. s3Acted' = [t \in Terminals |-> s3Acted'[t]]
  <2>1. s3Acted = [t \in Terminals |-> s3Acted[t]]
    BY DEF HInv
  <2>2. CASE s3Acted' = s3Acted
    BY <2>1, <2>2
  <2>3. CASE HTimer
    BY <2>3 DEF HTimer
  <2>4. ASSUME NEW t \in Terminals, NEW k \in Commands(t), HStart(t, k)
        PROVE  s3Acted' = [u \in Terminals |-> s3Acted'[u]]
    <3>1. s3Acted' = [s3Acted EXCEPT ![t] = FALSE]
      BY <2>4 DEF HStart
    <3> QED BY ONLY <2>1, <3>1, Zenon
  <2> QED BY <2>2, <2>3, <2>4 DEF HNext
<1>2. ASSUME NEW w \in Terminals, OnlyWriter(w), Quiet'
      PROVE  Bare(w)' /\ (~s3Acted'[w] => Lone(w)')
  <2>1. Quiet /\ Bare(w) /\ (~s3Acted[w] => Lone(w))
    BY <1>0, <1>2, QuietBefore DEF HInv, LoneInv
  <2>2. sec'.fail_count = 0
    BY <1>2 DEF HonestToolNotPenalised, Quiet
  <2>3. Bare(w)'
    BY <1>0, <1>2, <2>1, <2>2, BareKept
  <2>4. ASSUME NEW t \in Terminals, NEW k \in Commands(t), HStart(t, k), ~s3Acted'[w]
        PROVE  Lone(w)'
    <3>1. Start(t, k) /\ s3Acted' = [s3Acted EXCEPT ![t] = FALSE]
      BY <2>4 DEF HStart
    <3>2. t = w \/ Lone(w)
      BY <2>1, <2>4, <3>1 DEF HInv
    <3> QED BY <1>2, <2>1, <3>1, <3>2, StartLone
  <2>5. ASSUME HTimer, ~s3Acted'[w] PROVE Lone(w)'
    <3>1. s3Acted'[w] = (s3Acted[w] \/ spc \in {"revert", "relock"})
      BY <2>5 DEF HTimer
    <3>2. Lone(w) /\ (S3Poll \/ S3ReadNow \/ S3ReadTp)
      BY <2>1, <2>5, <3>1 DEF HTimer, EcuTimer, S3, S3Revert, S3Relock
    <3>3. UNCHANGED <<toEcu, serving, tool, inbox>>
      BY <2>5 DEF HTimer, EcuTimer, toolVars
    <3> QED BY <3>2, <3>3, ClockLone
  <2>6. ASSUME UNCHANGED s3Acted, ~s3Acted'[w] PROVE Lone(w)
    BY <2>1, <2>6
  <2>7. ASSUME EcuTakes \/ EcuHandles \/ EcuAnswers, UNCHANGED s3Acted, ~s3Acted'[w]
        PROVE  Lone(w)'
    BY <2>6, <2>7, TakesLone, HandlesLone, AnswersLone
  <2>8. ASSUME TimePasses, UNCHANGED s3Acted, ~s3Acted'[w] PROVE Lone(w)'
    BY <2>6, <2>8, ClockLone DEF TimePasses
  <2>9. ASSUME NEW t \in Terminals, Tool(t), UNCHANGED s3Acted, ~s3Acted'[w] PROVE Lone(w)'
    BY <1>2, <2>6, <2>9, SendLone, SendFailsLone, ReceiveLone, TimeoutLone DEF Tool
  <2>10. ASSUME UNCHANGED <<vars, toolVars, s3Acted>>, ~s3Acted'[w] PROVE Lone(w)'
    BY <2>6, <2>10, SeenKept, LoneKept DEF toolVars
  <2> QED BY <2>3, <2>4, <2>5, <2>7, <2>8, <2>9, <2>10 DEF HNext
<1> QED BY <1>1, <1>2 DEF HInv, LoneInv

\* The ECU refuses a lone tool the write of a legal name only if the S3
\* thread reverted the session or relocked since the command began: the
\* commands before may have left the ECU in any state, its requests and the
\* answers may be lost, and any time may pass.
THEOREM WritesAccepted == HSpec => []LoneWriteAccepted
<1>1. TInv /\ HInv => LoneWriteAccepted
  <2> SUFFICES ASSUME TInv, HInv, Quiet, NEW t \in Terminals, tool[t].cmd.len \in 1..32,
                      ~s3Acted[t]
               PROVE  ~Ended(t, "write-name", EXIT_NRC) /\ ~Ended(t, "write-name", EXIT_UNCAUGHT)
    BY DEF LoneWriteAccepted, Quiet
  <2>1. PICK w \in Terminals : OnlyWriter(w)
    BY WriterAssumption
  <2>2. Accepted(tool[t])
    <3>1. CASE t = w
      BY <2>1, <3>1 DEF HInv, LoneInv, Lone
    <3>2. CASE t # w
      BY <2>1, <3>2, OthersAccepted
    <3> QED BY <3>1, <3>2
  <2> QED BY <2>2 DEF Accepted, LegalWrite, Ended
<1>2. HSpec => ToolSpec
  <2>1. HInit => ToolInit
    BY DEF HInit
  <2>2. [HNext]_<<vars, toolVars, s3Acted>> => [ToolNext]_<<vars, toolVars>>
    BY HistoryStep
  <2> QED BY <2>1, <2>2, PTL DEF HSpec, ToolSpec
<1>3. HInit => HInv
  BY InitHInv
<1>4. TInv /\ HInv /\ [HNext]_<<vars, toolVars, s3Acted>> /\ HonestToolNotPenalised' => HInv'
  BY NextHInv
<1> QED BY <1>1, <1>2, <1>3, <1>4, ToolInvariant, HonestNotPenalised, PTL DEF HSpec
=============================================================================
