-------------------------------- MODULE IsoTp --------------------------------
(***************************************************************************)
(* src/isotp.c over src/can_io.c: one endpoint calls isotp_send, the other *)
(* calls isotp_recv in a loop.  Each socket is a first-in first-out buffer *)
(* of CAN frames.                                                          *)
(*                                                                         *)
(* A frame is its protocol control nibble, the low nibble next to it, the  *)
(* second byte of a first frame, and its payload, padded to the frame.  A  *)
(* payload byte is the pair of its message and its position, so that bytes *)
(* of different messages are never taken for each other.  A deadline is    *)
(* the fact that it has passed: the code looks at it only when a frame     *)
(* arrives.                                                                *)
(*                                                                         *)
(* Losses are frames dropped by a full socket buffer; faults are calls     *)
(* that fail or are interrupted, deadlines that pass and frames of others. *)
(* How many of each may come together is a pair in Budgets.                *)
(***************************************************************************)
EXTENDS Naturals, Sequences

CONSTANTS
    Messages,            \* what isotp_send is called with, each once
    Length(_),           \* message -> its length in bytes
    ISOTP_MAX_PAYLOAD,   \* 4095
    OutCap,              \* isotp_recv's out_cap
    SN_MOD,              \* 16: sequence numbers have four bits
    Budgets              \* pairs of the most losses and the most faults

NoMsg == "none"

ASSUME IsoTpAssumption ==
    /\ NoMsg \notin Messages
    /\ ISOTP_MAX_PAYLOAD \in Nat /\ 8 <= ISOTP_MAX_PAYLOAD /\ ISOTP_MAX_PAYLOAD <= 4095
    /\ OutCap \in Nat
    /\ SN_MOD \in 2..16
    /\ Budgets \subseteq Nat \X Nat
    /\ \A m \in Messages : Length(m) \in 1..ISOTP_MAX_PAYLOAD

VARIABLES
    toReceiver,   \* the receiver's socket buffer
    toSender,     \* the sender's socket buffer
    spc,          \* "idle", "wait_fc" or "cf": where isotp_send is
    msg,          \* the message it is sending
    offset, sn,   \* its locals in send_multiframe
    fcLate,       \* its deadline has passed
    receiving, total_len, next_sn,   \* isotp_recv's locals
    buf,          \* out[0..got)
    crLate,       \* its deadline has passed
    started,      \* history: the messages isotp_send was called with
    delivered,    \* history: what isotp_recv returned
    losses, faults

sendVars == <<spc, msg, offset, sn, fcLate, started>>
recvVars == <<receiving, total_len, next_sn, buf, crLate, delivered>>
vars == <<toReceiver, toSender, sendVars, recvVars, losses, faults>>

PAD == <<"pad", 0>>    \* ISOTP_PADDING

Payload(m) == [i \in 1..Length(m) |-> <<m, i>>]

\* frame_pad, to n bytes.
Padded(bytes, n) == [i \in 1..n |-> IF i <= Len(bytes) THEN bytes[i] ELSE PAD]

Frame(pci, low, byte1, bytes) == [pci |-> pci, low |-> low, byte1 |-> byte1, data |-> bytes]

Flow(fs) == Frame("FC", fs, 0, <<>>)
CTS == 0
WAIT == 1
OVERFLOW == 2

\* A frame with another identifier.
Foreign == Frame("foreign", 0, 0, <<>>)

\* A single frame of the peer, addressed to the sender.
PeerRequest == Frame("SF", 2, 0, Padded(<<>>, 7))

Init ==
    /\ toReceiver = <<>> /\ toSender = <<>>
    /\ spc = "idle" /\ msg = NoMsg /\ offset = 0 /\ sn = 0 /\ fcLate = FALSE
    /\ receiving = FALSE /\ total_len = 0 /\ next_sn = 1 /\ buf = <<>> /\ crLate = FALSE
    /\ started = {} /\ delivered = {}
    /\ losses = 0 /\ faults = 0

-----------------------------------------------------------------------------
(* isotp_send *)

\* isotp_send returns.
SendReturns ==
    /\ spc' = "idle"
    /\ msg' = NoMsg /\ offset' = 0 /\ sn' = 0 /\ fcLate' = FALSE

SingleFrame(m) == Frame("SF", Length(m) % 16, 0, Padded(Payload(m), 7))

FirstFrame(m) ==
    Frame("FF", (Length(m) \div 256) % 16, Length(m) % 256, SubSeq(Payload(m), 1, 6))

ConsecutiveFrame(m, off, n) ==
    Frame("CF", n % SN_MOD, 0, Padded(SubSeq(Payload(m), off + 1, Length(m)), 7))

(* isotp_send with up to seven bytes: send_sf. *)
SendSingle(m) ==
    /\ spc = "idle" /\ m \notin started
    /\ Length(m) <= 7
    /\ started' = started \cup {m}
    /\ toReceiver' = Append(toReceiver, SingleFrame(m))
    /\ UNCHANGED <<toSender, spc, msg, offset, sn, fcLate, recvVars, losses, faults>>

(* send_multiframe up to its wait for the flow control frame. *)
SendFirst(m) ==
    /\ spc = "idle" /\ m \notin started
    /\ Length(m) > 7
    /\ started' = started \cup {m}
    /\ toReceiver' = Append(toReceiver, FirstFrame(m))
    /\ spc' = "wait_fc" /\ msg' = m /\ fcLate' = FALSE
    /\ UNCHANGED <<toSender, offset, sn, recvVars, losses, faults>>

MutantForgetsDeadline ==
    /\ spc = "wait_fc" /\ toSender # <<>>
    /\ toSender' = Tail(toSender)
    /\ LET f == Head(toSender)
       IN  \/ /\ f.pci = "foreign" \/ (f.pci = "FC" /\ f.low = WAIT)
              /\ UNCHANGED <<spc, msg, offset, sn, fcLate>>
           \/ /\ f.pci \notin {"foreign", "FC"} \/ (f.pci = "FC" /\ f.low \notin {CTS, WAIT})
              /\ SendReturns
           \/ /\ f.pci = "FC" /\ f.low = CTS
              /\ spc' = "cf" /\ offset' = 6 /\ sn' = 1
              /\ UNCHANGED <<msg, fcLate>>
    /\ UNCHANGED <<toReceiver, started, recvVars, losses, faults>>

(* A turn of wait_for_fc.  WAIT and frames of others are skipped; only the *)
(* latter look at the deadline.                                            *)
WaitForFc ==
    /\ spc = "wait_fc" /\ toSender # <<>>
    /\ toSender' = Tail(toSender)
    /\ LET f == Head(toSender)
       IN  \/ /\ \/ f.pci = "foreign" /\ ~fcLate
                 \/ f.pci = "FC" /\ f.low = WAIT
              /\ UNCHANGED <<spc, msg, offset, sn, fcLate>>
           \/ /\ \/ f.pci = "foreign" /\ fcLate
                 \/ f.pci \notin {"foreign", "FC"}
                 \/ f.pci = "FC" /\ f.low \notin {CTS, WAIT}
              /\ SendReturns
           \/ /\ f.pci = "FC" /\ f.low = CTS
              /\ spc' = "cf" /\ offset' = 6 /\ sn' = 1
              /\ UNCHANGED <<msg, fcLate>>
    /\ UNCHANGED <<toReceiver, started, recvVars, losses, faults>>

\* The bytes a consecutive frame carries when `left' are left.
Chunk(left) == IF left > 7 THEN 7 ELSE left

(* A turn of the loop of send_multiframe. *)
SendConsecutive ==
    /\ spc = "cf"
    /\ toReceiver' = Append(toReceiver, ConsecutiveFrame(msg, offset, sn))
    /\ LET next == offset + Chunk(Length(msg) - offset)
       IN  \/ next < Length(msg) /\ offset' = next /\ sn' = (sn + 1) % SN_MOD
              /\ UNCHANGED <<spc, msg, fcLate>>
           \/ next >= Length(msg) /\ SendReturns
    /\ UNCHANGED <<toSender, started, recvVars, losses, faults>>

-----------------------------------------------------------------------------
(* isotp_recv *)

\* isotp_recv returns or drops the transfer; the next call starts afresh.
Fresh ==
    /\ receiving' = FALSE /\ total_len' = 0 /\ next_sn' = 1 /\ buf' = <<>> /\ crLate' = FALSE

Ignored == UNCHANGED recvVars /\ UNCHANGED toSender

Returned(bytes) ==
    /\ Fresh
    /\ delivered' = delivered \cup {bytes}
    /\ UNCHANGED toSender

Abandoned == Fresh /\ UNCHANGED <<toSender, delivered>>

GoodSingle(f) == f.low # 0 /\ f.low <= 7 /\ f.low <= OutCap

\* FF_DL, twelve bits in two bytes.
FirstLength(f) == f.low * 256 + f.byte1

MutantIgnoresOutCap(f) == FirstLength(f) >= 8 /\ FirstLength(f) <= ISOTP_MAX_PAYLOAD

GoodFirst(f) ==
    FirstLength(f) >= 8 /\ FirstLength(f) <= ISOTP_MAX_PAYLOAD /\ FirstLength(f) <= OutCap

\* A good first frame: keep its six bytes and tell the peer to go on.
BeginReassembly(f) ==
    /\ receiving' = TRUE
    /\ total_len' = FirstLength(f)
    /\ next_sn' = 1
    /\ buf' = f.data
    /\ crLate' = FALSE
    /\ toSender' = Append(toSender, Flow(CTS))
    /\ UNCHANGED delivered

MutantNumberDoesNotWrap(f) ==
    LET got == buf \o SubSeq(f.data, 1, Chunk(total_len - Len(buf)))
    IN  \/ Len(got) >= total_len /\ Returned(got)
        \/ /\ Len(got) < total_len
           /\ buf' = got
           /\ next_sn' = next_sn + 1
           /\ crLate' = FALSE
           /\ UNCHANGED <<receiving, total_len, delivered, toSender>>

\* A consecutive frame with the right number.
Extend(f) ==
    LET got == buf \o SubSeq(f.data, 1, Chunk(total_len - Len(buf)))
    IN  \/ Len(got) >= total_len /\ Returned(got)
        \/ /\ Len(got) < total_len
           /\ buf' = got
           /\ next_sn' = (next_sn + 1) % SN_MOD
           /\ crLate' = FALSE
           /\ UNCHANGED <<receiving, total_len, delivered, toSender>>

\* A frame while no transfer is under way.
RecvIdle(f) ==
    \/ f.pci = "SF" /\ GoodSingle(f) /\ Returned(SubSeq(f.data, 1, f.low))
    \/ f.pci = "FF" /\ GoodFirst(f) /\ BeginReassembly(f)
    \/ f.pci = "SF" /\ ~GoodSingle(f) /\ Ignored
    \/ f.pci = "FF" /\ ~GoodFirst(f) /\ Ignored
    \/ f.pci \in {"CF", "FC"} /\ Ignored

MutantSkipsOtherFrames(f) ==
    \/ crLate /\ Abandoned
    \/ ~crLate /\ f.pci # "CF" /\ Ignored
    \/ ~crLate /\ f.pci = "CF" /\ f.low # next_sn /\ Abandoned
    \/ ~crLate /\ f.pci = "CF" /\ f.low = next_sn /\ Extend(f)

\* A frame during a transfer.
RecvReassembling(f) ==
    \/ crLate /\ Abandoned
    \/ ~crLate /\ f.pci # "CF" /\ Abandoned
    \/ ~crLate /\ f.pci = "CF" /\ f.low # next_sn /\ Abandoned
    \/ ~crLate /\ f.pci = "CF" /\ f.low = next_sn /\ Extend(f)

Recv ==
    /\ toReceiver # <<>>
    /\ toReceiver' = Tail(toReceiver)
    /\ LET f == Head(toReceiver)
       IN  \/ f.pci = "foreign" /\ Ignored
           \/ f.pci # "foreign" /\ ~receiving /\ RecvIdle(f)
           \/ f.pci # "foreign" /\ receiving /\ RecvReassembling(f)
    /\ UNCHANGED <<sendVars, losses, faults>>

-----------------------------------------------------------------------------
(* Faults. *)

Affordable(l, f) == \E b \in Budgets : l <= b[1] /\ f <= b[2]

Without(s, i) == SubSeq(s, 1, i - 1) \o SubSeq(s, i + 1, Len(s))

Lose ==
    /\ Affordable(losses + 1, faults)
    /\ losses' = losses + 1
    /\ \/ \E i \in 1..Len(toReceiver) :
             toReceiver' = Without(toReceiver, i) /\ UNCHANGED toSender
       \/ \E i \in 1..Len(toSender) :
             toSender' = Without(toSender, i) /\ UNCHANGED toReceiver
    /\ UNCHANGED <<sendVars, recvVars, faults>>

\* can_io_send or can_io_recv fails under isotp_send, which gives the message up.
SendFails ==
    /\ \/ spc # "idle" /\ SendReturns /\ UNCHANGED started
       \/ /\ spc = "idle"
          /\ \E m \in Messages \ started : started' = started \cup {m}
          /\ UNCHANGED <<spc, msg, offset, sn, fcLate>>
    /\ UNCHANGED <<toReceiver, toSender, recvVars>>

\* can_io_send fails under send_fc_cts, and isotp_recv returns -1.
FcSendFails ==
    /\ toReceiver # <<>> /\ ~receiving
    /\ Head(toReceiver).pci = "FF" /\ GoodFirst(Head(toReceiver))
    /\ toReceiver' = Tail(toReceiver)
    /\ Abandoned
    /\ UNCHANGED sendVars

\* can_io_recv is interrupted or fails under isotp_recv, which returns 1 or -1
\* and forgets the transfer.
RecvInterrupted ==
    /\ receiving
    /\ Abandoned
    /\ UNCHANGED <<toReceiver, sendVars>>

\* A second passes.
FcDeadline ==
    /\ spc = "wait_fc" /\ ~fcLate
    /\ fcLate' = TRUE
    /\ UNCHANGED <<toReceiver, toSender, spc, msg, offset, sn, started, recvVars>>

CrDeadline ==
    /\ receiving /\ ~crLate
    /\ crLate' = TRUE
    /\ UNCHANGED <<toReceiver, toSender, sendVars, receiving, total_len, next_sn, buf, delivered>>

\* Somebody else's frame, or one of the peer that is not a CTS.
Noise ==
    /\ \/ toReceiver' = Append(toReceiver, Foreign) /\ UNCHANGED toSender
       \/ /\ \E f \in {Foreign, PeerRequest, Flow(WAIT), Flow(OVERFLOW)} :
                toSender' = Append(toSender, f)
          /\ UNCHANGED toReceiver
    /\ UNCHANGED <<sendVars, recvVars>>

Fault ==
    /\ Affordable(losses, faults + 1)
    /\ faults' = faults + 1
    /\ UNCHANGED losses
    /\ \/ SendFails \/ FcSendFails \/ RecvInterrupted
       \/ FcDeadline \/ CrDeadline \/ Noise

-----------------------------------------------------------------------------

Send == WaitForFc \/ SendConsecutive

Next == (\E m \in Messages : SendSingle(m) \/ SendFirst(m)) \/ Send \/ Recv \/ Lose \/ Fault

Spec == Init /\ [][Next]_vars

\* Both endpoints run; nobody has to send, and nothing has to go wrong.
FairSpec == Spec /\ WF_vars(Send) /\ WF_vars(Recv)

-----------------------------------------------------------------------------
(* Properties. *)

\* Type invariant; a transfer never outgrows the length it announced nor the
\* caller's buffer.
TypeOK ==
    /\ spc \in {"idle", "wait_fc", "cf"}
    /\ msg \in Messages \cup {NoMsg} /\ (spc = "idle" <=> msg = NoMsg)
    /\ spc = "cf" => offset < Length(msg)
    /\ sn \in 0..15 /\ next_sn \in 0..15
    /\ fcLate \in BOOLEAN /\ crLate \in BOOLEAN /\ receiving \in BOOLEAN
    /\ receiving => Len(buf) < total_len /\ total_len <= OutCap
    /\ started \subseteq Messages
    /\ losses \in Nat /\ faults \in Nat

(***************************************************************************)
(* isotp_recv returns whole messages only: what it returns was passed to   *)
(* isotp_send, byte for byte, without gaps, padding or parts of another.   *)
(* It holds as long as frames are lost or transfers are disturbed, but not *)
(* both: a transfer given up leaves a flow control frame behind that lets  *)
(* the next one start without its first frame.                             *)
(***************************************************************************)
Integrity ==
    losses = 0 \/ faults = 0 => \A bytes \in delivered : \E m \in started : bytes = Payload(m)

\* On a bus without losses and faults every message that fits the receiver's
\* buffer arrives, whatever is sent before and after it.
EveryMessageArrives ==
    [](losses = 0 /\ faults = 0) =>
        \A m \in Messages : (m \in started /\ Length(m) <= OutCap) ~> (Payload(m) \in delivered)

(***************************************************************************)
(* The one-second wait for a flow control frame (N_Cr in wait_for_fc) ends *)
(* once other traffic lets the code look at its deadline.  WAIT frames and *)
(* foreign frames before it do not hold it up.  On a silent bus the wait   *)
(* has no end.                                                             *)
(***************************************************************************)
FcDeadlineSeenOnTraffic ==
    [](losses = 0) =>
        (spc = "wait_fc" /\ fcLate /\ \E i \in 1..Len(toSender) : toSender[i] = Foreign)
            ~> (spc # "wait_fc")
=============================================================================
