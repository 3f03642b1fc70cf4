---------------------------- MODULE IsoTp_proofs ----------------------------
(***************************************************************************)
(* Proofs about IsoTp, for every set of messages, all lengths, every       *)
(* buffer size, every sequence number width and any number of losses or    *)
(* faults.                                                                 *)
(***************************************************************************)
EXTENDS IsoTp, SequenceTheorems, TLAPS

-----------------------------------------------------------------------------
(* The inductive invariant. *)

PayloadBytes == (Messages \cup {"pad"}) \X Nat

Frames == [pci : {"SF", "FF", "CF", "foreign"}, low : Nat, byte1 : Nat, data : Seq(PayloadBytes)]

BackFrames == {Foreign, PeerRequest, Flow(CTS), Flow(WAIT), Flow(OVERFLOW)}

\* The message a frame with payload is of, and the offset its payload has in it.
From(f) == f.data[1][1]
At(f)   == f.data[1][2] - 1

\* Consecutive frames start behind the six bytes of the first frame, seven apart.
OnGrid(off) == off \in Nat /\ off % 7 = 6

\* The i-th payload byte of a frame of message m at offset `off'.
ByteOf(m, off, i) == IF off + i <= Length(m) THEN <<m, off + i>> ELSE PAD

\* f is foreign, or what isotp_send makes of one of the messages ms.
FrameOK(f, ms) ==
    /\ f.pci # "foreign" => From(f) \in ms
    /\ f.pci = "SF" => Length(From(f)) <= 7 /\ f = SingleFrame(From(f))
    /\ f.pci = "FF" => Length(From(f)) > 7 /\ f = FirstFrame(From(f))
    /\ f.pci = "CF" =>
          /\ OnGrid(At(f)) /\ At(f) < Length(From(f))
          /\ Len(f.data) = 7 /\ \A i \in 1..7 : f.data[i] = ByteOf(From(f), At(f), i)

BusOK(s, ms) == s \in Seq(Frames) /\ \A i \in 1..Len(s) : FrameOK(s[i], ms)

\* The i-th frame of s is a consecutive frame, or the first frame, of m.
Carries(s, i, m) == s[i].pci = "CF" /\ From(s[i]) = m
FirstOf(s, i, m) == s[i].pci = "FF" /\ From(s[i]) = m

\* The consecutive frames of a message leave in order.
InOrder(s) ==
    \A i, j \in 1..Len(s) :
        i < j /\ s[i].pci = "CF" /\ Carries(s, j, From(s[i])) => At(s[i]) < At(s[j])

\* All consecutive frames of m have offset n or more.
ComesAfter(s, m, n) == \A i \in 1..Len(s) : Carries(s, i, m) => At(s[i]) >= n

\* A consecutive frame of m behind the first j frames of s finds the receiver
\* idle or in the transfer of m: whatever could put it into another transfer,
\* the ones in `open' included, is followed by m's first frame.
Led(s, open, m, j) ==
    /\ \A k \in 1..j : \/ s[k].pci = "foreign" \/ Carries(s, k, m)
                       \/ \E i \in k..j : FirstOf(s, i, m)
    /\ open \subseteq {m} \/ \E i \in 1..j : FirstOf(s, i, m)

BusLed(s, open) == \A j \in 1..Len(s) : s[j].pci = "CF" => Led(s, open, From(s[j]), j - 1)

\* The transfer that the receiver is in, if any.
Current == buf[1][1]
Open == IF receiving THEN {Current} ELSE {}

\* The socket buffers and the two endpoints' locals, whatever happens.
LocalsOK ==
    /\ BusOK(toReceiver, started)
    /\ toSender \in Seq(BackFrames)
    /\ spc # "idle" => msg \in started /\ Length(msg) > 7
    /\ spc = "cf" => OnGrid(offset) /\ offset < Length(msg)
    /\ buf \in Seq(PayloadBytes) /\ total_len \in Nat

\* What was sent of the message in hand was sent before what is left of it.
SentInOrder ==
    /\ InOrder(toReceiver)
    /\ \A i \in 1..Len(toReceiver) :
          Carries(toReceiver, i, msg) => spc = "cf" /\ At(toReceiver[i]) < offset

AllLed ==
    /\ BusLed(toReceiver, Open)
    /\ spc = "cf" => Led(toReceiver, Open, msg, Len(toReceiver))

\* All that is still to come of the current transfer has offset n or more.
StillToCome(n) ==
    /\ ComesAfter(toReceiver, Current, n)
    /\ spc = "cf" /\ msg = Current => offset >= n

\* The transfer is a prefix of its message, or a frame is missing and what is
\* still to come is too short to make up for it.
TransferOK ==
    receiving =>
        /\ Current \in started
        /\ total_len = Length(Current)
        /\ OnGrid(Len(buf))
        /\ \/ /\ \A i \in 1..Len(buf) : buf[i] = <<Current, i>>
              /\ StillToCome(Len(buf))
              /\ Current = msg /\ spc = "wait_fc" => Len(buf) = 6
           \/ /\ StillToCome(Len(buf) + 1)
              /\ ~(Current = msg /\ spc = "wait_fc")

\* On a bus without losses the first frame goes ahead of the rest.
FirstGoesAhead == spc = "wait_fc" => Led(toReceiver, Open, msg, Len(toReceiver))

\* Without faults there is one token between sender and receiver: the first
\* frame, or the flow control frame that answers it.
OneToken ==
    /\ toSender # <<>> =>
          /\ spc = "wait_fc" /\ toReceiver = <<>> /\ toSender = <<Flow(CTS)>>
          /\ receiving /\ Current = msg
    /\ \A i \in 1..Len(toReceiver) :
          toReceiver[i].pci = "FF" =>
              /\ i = Len(toReceiver) /\ spc = "wait_fc" /\ toSender = <<>>
              /\ From(toReceiver[i]) = msg

IInv ==
    /\ TypeOK /\ LocalsOK /\ SentInOrder
    /\ losses = 0 \/ faults = 0 => AllLed /\ TransferOK
    /\ losses = 0 => FirstGoesAhead
    /\ faults = 0 => OneToken
    /\ Integrity

-----------------------------------------------------------------------------
(* Frames. *)

\* Offsets on the grid are at least seven apart.
LEMMA Grid ==
    /\ OnGrid(6)
    /\ \A a \in Nat : OnGrid(a) => a >= 6 /\ OnGrid(a + 7)
    /\ \A a, b \in Nat : OnGrid(a) /\ OnGrid(b) /\ a < b => a + 7 <= b
BY DEF OnGrid

LEMMA LengthType ==
    ASSUME NEW m \in Messages
    PROVE  Length(m) \in Nat /\ Length(m) >= 1 /\ Length(m) <= 4095
<1>1. /\ ISOTP_MAX_PAYLOAD \in Nat /\ ISOTP_MAX_PAYLOAD <= 4095
      /\ Length(m) \in 1..ISOTP_MAX_PAYLOAD
  BY IsoTpAssumption
<1> QED BY <1>1

\* A message's payload is its bytes in order.
LEMMA PayloadFacts ==
    ASSUME NEW m \in Messages
    PROVE  /\ Payload(m) \in Seq(PayloadBytes)
           /\ Len(Payload(m)) = Length(m)
           /\ \A i \in 1..Length(m) : Payload(m)[i] = <<m, i>>
<1>1. \A i \in 1..Length(m) : <<m, i>> \in PayloadBytes
  BY LengthType DEF PayloadBytes
<1> QED BY <1>1, LengthType DEF Payload

\* A sequence that agrees with the payload of m byte for byte is the payload.
LEMMA IsPayload ==
    ASSUME NEW m \in Messages, NEW b \in Seq(PayloadBytes), Len(b) = Length(m),
           \A i \in 1..Len(b) : b[i] = <<m, i>>
    PROVE  b = Payload(m)
<1>1. \A i \in 1..Len(b) : b[i] = Payload(m)[i]
  BY PayloadFacts
<1> QED BY <1>1, PayloadFacts, SeqEqual

\* frame_pad fills up with padding.
LEMMA PaddedFacts ==
    ASSUME NEW b \in Seq(PayloadBytes), NEW n \in Nat
    PROVE  /\ Padded(b, n) \in Seq(PayloadBytes)
           /\ Len(Padded(b, n)) = n
           /\ \A i \in 1..n : Padded(b, n)[i] = IF i <= Len(b) THEN b[i] ELSE PAD
<1>1. \A i \in 1..n : (IF i <= Len(b) THEN b[i] ELSE PAD) \in PayloadBytes
  BY DEF PayloadBytes, PAD
<1> QED BY <1>1 DEF Padded

\* send_sf: the single frame holds the message and its length.
LEMMA SingleFrameFacts ==
    ASSUME NEW m \in Messages, Length(m) <= 7
    PROVE  LET f == SingleFrame(m)
           IN  /\ f \in Frames /\ f.pci = "SF" /\ From(f) = m
               /\ SubSeq(f.data, 1, f.low) = Payload(m)
<1> DEFINE d == Padded(Payload(m), 7)
<1>0. Length(m) \in 1..7
  BY LengthType
<1>1. d \in Seq(PayloadBytes) /\ Len(d) = 7 /\ \A i \in 1..Length(m) : d[i] = <<m, i>>
  <2> DEFINE p == Payload(m)
  <2>1. p \in Seq(PayloadBytes) /\ Len(p) = Length(m) /\ \A i \in 1..Length(m) : p[i] = <<m, i>>
    BY PayloadFacts
  <2> HIDE DEF p
  <2>3. /\ Padded(p, 7) \in Seq(PayloadBytes) /\ Len(Padded(p, 7)) = 7
        /\ \A i \in 1..7 : Padded(p, 7)[i] = IF i <= Len(p) THEN p[i] ELSE PAD
    BY <2>1, PaddedFacts
  <2>4. ASSUME NEW i \in 1..Length(m) PROVE Padded(p, 7)[i] = <<m, i>>
    <3>1. i \in 1..7 /\ i <= Length(m)
      BY ONLY <1>0, i \in 1..Length(m)
    <3>2. Padded(p, 7)[i] = p[i]
      BY <2>1, <2>3, <3>1
    <3> QED BY <2>1, <3>2
  <2> QED BY <2>3, <2>4 DEF p
<1>2. Length(m) % 16 = Length(m)
  BY <1>0
<1> HIDE DEF d
<1>3. SubSeq(d, 1, Length(m)) = Payload(m)
  <2> DEFINE b == SubSeq(d, 1, Length(m))
  <2>1. b \in Seq(PayloadBytes) /\ Len(b) = Length(m) /\ \A i \in 1..Len(b) : b[i] = <<m, i>>
    <3>1. \A i \in 1..Length(m) : d[i] \in PayloadBytes
      <4> SUFFICES ASSUME NEW i \in 1..Length(m) PROVE d[i] \in PayloadBytes
        OBVIOUS
      <4>1. i \in 1..Len(d)
        BY <1>0, <1>1
      <4> QED BY <1>1, <4>1, ElementOfSeq
    <3>2. /\ b \in Seq(PayloadBytes) /\ Len(b) = Length(m)
          /\ \A i \in 1..Length(m) : b[i] = d[1 + i - 1]
      BY <1>0, <3>1, SubSeqProperties
    <3> QED BY <1>0, <1>1, <3>2
  <2> HIDE DEF b
  <2>2. b = Payload(m)
    BY <2>1, IsPayload
  <2> QED BY <2>2 DEF b
<1>4. SingleFrame(m) = [pci |-> "SF", low |-> Length(m), byte1 |-> 0, data |-> d]
  BY <1>2 DEF SingleFrame, Frame, d
<1>5. d[1] = <<m, 1>>
  BY <1>0, <1>1
<1>6. SingleFrame(m) \in Frames
  BY <1>0, <1>1, <1>4 DEF Frames
<1> QED BY <1>3, <1>4, <1>5, <1>6 DEF From

\* The twelve bits of FF_DL have room for every length.
HighNibble(n) == (n \div 256) % 16
LowByte(n) == n % 256

LEMMA TwelveBits ==
    ASSUME NEW n \in Nat, n <= 4095
    PROVE  HighNibble(n) \in Nat /\ LowByte(n) \in Nat /\ HighNibble(n) * 256 + LowByte(n) = n
<1>1. PICK q \in 0..15, x \in 0..255 : n \div 256 = q /\ n % 256 = x /\ n = 256 * q + x
  OBVIOUS
<1>2. q % 16 = q
  BY ONLY q \in 0..15
<1>3. HighNibble(n) = q /\ LowByte(n) = x
  BY ONLY <1>1, <1>2 DEF HighNibble, LowByte
<1>4. q \in Nat /\ x \in Nat /\ q * 256 + x = n
  BY ONLY <1>1, n \in Nat, q \in 0..15, x \in 0..255
<1> QED BY ONLY <1>3, <1>4

\* send_multiframe's first frame announces the length and holds six bytes.
LEMMA FirstFrameFacts ==
    ASSUME NEW m \in Messages, Length(m) > 7
    PROVE  LET f == FirstFrame(m)
           IN  /\ f \in Frames /\ f.pci = "FF" /\ From(f) = m
               /\ FirstLength(f) = Length(m)
               /\ Len(f.data) = 6 /\ \A i \in 1..6 : f.data[i] = <<m, i>>
<1> DEFINE d == SubSeq(Payload(m), 1, 6)
           hi == HighNibble(Length(m))
           lo == LowByte(Length(m))
<1>1. d \in Seq(PayloadBytes) /\ Len(d) = 6 /\ \A i \in 1..6 : d[i] = <<m, i>>
  BY PayloadFacts, LengthType
<1>2. hi \in Nat /\ lo \in Nat /\ hi * 256 + lo = Length(m)
  BY LengthType, TwelveBits
<1> HIDE DEF d, hi, lo
<1>3. FirstFrame(m) = [pci |-> "FF", low |-> hi, byte1 |-> lo, data |-> d]
  BY DEF FirstFrame, Frame, d, hi, lo, HighNibble, LowByte
<1> QED BY <1>1, <1>2, <1>3 DEF Frames, From, FirstLength

\* A consecutive frame holds the next seven bytes, or the rest and padding.
LEMMA ConsecutiveFrameFacts ==
    ASSUME NEW m \in Messages, NEW off \in Nat, off < Length(m), NEW n \in Nat
    PROVE  LET f == ConsecutiveFrame(m, off, n)
           IN  /\ f \in Frames /\ f.pci = "CF" /\ From(f) = m /\ At(f) = off
               /\ Len(f.data) = 7 /\ \A i \in 1..7 : f.data[i] = ByteOf(m, off, i)
<1> DEFINE rest == SubSeq(Payload(m), off + 1, Length(m))
           d == Padded(rest, 7)
<1>1. /\ rest \in Seq(PayloadBytes) /\ Len(rest) = Length(m) - off
      /\ \A i \in 1..(Length(m) - off) : rest[i] = <<m, off + i>>
  <2> DEFINE p == Payload(m)
  <2>1. p \in Seq(PayloadBytes) /\ Len(p) = Length(m) /\ \A i \in 1..Length(m) : p[i] = <<m, i>>
    BY PayloadFacts
  <2>2. Length(m) \in Nat
    BY LengthType
  <2>3. rest = SubSeq(p, off + 1, Length(m))
    OBVIOUS
  <2> HIDE DEF p, rest
  <2>4. \A i \in (off + 1)..Length(m) : p[i] \in PayloadBytes
    <3> SUFFICES ASSUME NEW i \in (off + 1)..Length(m) PROVE p[i] \in PayloadBytes
      OBVIOUS
    <3>1. i \in 1..Len(p)
      BY <2>1, <2>2
    <3> QED BY <2>1, <3>1, ElementOfSeq
  <2>5. /\ rest \in Seq(PayloadBytes)
        /\ Len(rest) = IF off + 1 <= Length(m) THEN Length(m) - (off + 1) + 1 ELSE 0
        /\ \A i \in 1..(Length(m) - (off + 1) + 1) : rest[i] = p[off + 1 + i - 1]
    BY <2>2, <2>3, <2>4, SubSeqProperties
  <2>6. Len(rest) = Length(m) - off /\ Length(m) - (off + 1) + 1 = Length(m) - off
    BY <2>2, <2>5
  <2>7. ASSUME NEW i \in 1..(Length(m) - off) PROVE rest[i] = <<m, off + i>>
    <3>1. off + 1 + i - 1 = off + i /\ off + i \in 1..Length(m)
      BY <2>2
    <3> QED BY <2>1, <2>5, <2>6, <3>1
  <2> QED BY <2>5, <2>6, <2>7
<1> HIDE DEF rest
<1>2. d \in Seq(PayloadBytes) /\ Len(d) = 7 /\ \A i \in 1..7 : d[i] = ByteOf(m, off, i)
  <2>1. /\ d \in Seq(PayloadBytes) /\ Len(d) = 7
        /\ \A i \in 1..7 : d[i] = IF i <= Len(rest) THEN rest[i] ELSE PAD
    BY <1>1, PaddedFacts
  <2> HIDE DEF d
  <2>2. ASSUME NEW i \in 1..7 PROVE d[i] = ByteOf(m, off, i)
    <3>1. CASE off + i <= Length(m)
      <4>1. i \in 1..(Length(m) - off) /\ i <= Len(rest)
        BY <1>1, <3>1, LengthType
      <4> QED BY <1>1, <2>1, <3>1, <4>1 DEF ByteOf
    <3>2. CASE ~(off + i <= Length(m))
      <4>1. ~(i <= Len(rest))
        BY <1>1, <3>2, LengthType
      <4> QED BY <2>1, <3>2, <4>1 DEF ByteOf
    <3> QED BY <3>1, <3>2
  <2> QED BY <2>1, <2>2
<1> HIDE DEF d
<1>3. d[1] = <<m, off + 1>>
  <2>1. off + 1 <= Length(m)
    BY LengthType
  <2> QED BY <1>2, <2>1 DEF ByteOf
<1>4. n % SN_MOD \in Nat
  BY IsoTpAssumption
<1>5. ConsecutiveFrame(m, off, n) = [pci |-> "CF", low |-> n % SN_MOD, byte1 |-> 0, data |-> d]
  BY DEF ConsecutiveFrame, Frame, d, rest
<1>6. ConsecutiveFrame(m, off, n) \in Frames
  BY <1>2, <1>4, <1>5 DEF Frames
<1>7. From(ConsecutiveFrame(m, off, n)) = m /\ At(ConsecutiveFrame(m, off, n)) = off
  BY <1>3, <1>5 DEF From, At
<1> QED BY <1>2, <1>5, <1>6, <1>7

LEMMA ForeignFacts == Foreign \in Frames /\ Foreign.pci = "foreign"
BY DEF Foreign, Frame, Frames

-----------------------------------------------------------------------------
(* What becomes of the frames on the bus when one is added or taken away. *)

\* t is s with f behind it.
Appended(s, f, t) ==
    /\ s \in Seq(Frames) /\ t \in Seq(Frames) /\ f \in Frames
    /\ Len(t) = Len(s) + 1
    /\ \A i \in 1..Len(s) : t[i] = s[i]
    /\ t[Len(s) + 1] = f

\* Where the frame that is j-th after the p-th is gone was before.
Before(p, j) == IF j < p THEN j ELSE j + 1

\* t is s without its p-th frame.
Thinned(s, p, t) ==
    /\ s \in Seq(Frames) /\ t \in Seq(Frames)
    /\ p \in 1..Len(s) /\ Len(t) = Len(s) - 1
    /\ \A j \in 1..Len(t) : t[j] = s[Before(p, j)]

LEMMA AppendAppends ==
    ASSUME NEW s \in Seq(Frames), NEW f \in Frames
    PROVE  Appended(s, f, Append(s, f))
BY AppendProperties DEF Appended

LEMMA TailThins ==
    ASSUME NEW s \in Seq(Frames), s # <<>>
    PROVE  Thinned(s, 1, Tail(s)) /\ Head(s) = s[1] /\ Head(s) \in Frames /\ Len(s) \in Nat \ {0}
<1>1. Len(s) \in Nat \ {0}
  BY EmptySeq
<1>2. Tail(s) \in Seq(Frames) /\ Len(Tail(s)) = Len(s) - 1 /\ Head(s) \in Frames
  BY HeadTailProperties
<1>3. ASSUME NEW j \in 1..Len(Tail(s)) PROVE Tail(s)[j] = s[Before(1, j)]
  BY <1>1, <1>2, HeadTailProperties DEF Before
<1> QED BY <1>1, <1>2, <1>3 DEF Thinned

LEMMA WithoutFacts ==
    ASSUME NEW S, NEW s \in Seq(S), NEW p \in 1..Len(s)
    PROVE  /\ Without(s, p) \in Seq(S) /\ Len(Without(s, p)) = Len(s) - 1
           /\ \A j \in 1..(Len(s) - 1) : Without(s, p)[j] = s[Before(p, j)]
<1> DEFINE a == SubSeq(s, 1, p - 1)
           b == SubSeq(s, p + 1, Len(s))
<1>0. Len(s) \in Nat /\ p \in Nat /\ p >= 1 /\ p <= Len(s)
  BY LenProperties
<1>1. \A i \in 1..Len(s) : s[i] \in S
  BY ElementOfSeq
<1>2. /\ a \in Seq(S) /\ Len(a) = p - 1
      /\ \A i \in 1..(p - 1) : a[i] = s[i]
  <2>1. \A i \in 1..(p - 1) : s[i] \in S
    BY <1>0, <1>1
  <2>2. /\ a \in Seq(S) /\ Len(a) = IF 1 <= p - 1 THEN p - 1 - 1 + 1 ELSE 0
        /\ \A i \in 1..(p - 1 - 1 + 1) : a[i] = s[1 + i - 1]
    BY <1>0, <2>1, SubSeqProperties
  <2> HIDE DEF a
  <2> QED BY <1>0, <2>2
<1>3. /\ b \in Seq(S) /\ Len(b) = Len(s) - p
      /\ \A i \in 1..(Len(s) - p) : b[i] = s[p + i]
  <2>1. \A i \in (p + 1)..Len(s) : s[i] \in S
    BY <1>0, <1>1
  <2>2. /\ b \in Seq(S)
        /\ Len(b) = IF p + 1 <= Len(s) THEN Len(s) - (p + 1) + 1 ELSE 0
        /\ \A i \in 1..(Len(s) - (p + 1) + 1) : b[i] = s[p + 1 + i - 1]
    BY <1>0, <2>1, SubSeqProperties
  <2> HIDE DEF b
  <2> QED BY <1>0, <2>2
<1> DEFINE c == a \o b
<1>4. Without(s, p) = c
  BY DEF Without
<1> HIDE DEF a, b
<1>5. /\ c \in Seq(S) /\ Len(c) = Len(a) + Len(b)
      /\ \A i \in 1..(Len(a) + Len(b)) : c[i] = IF i <= Len(a) THEN a[i] ELSE b[i - Len(a)]
  BY <1>2, <1>3, ConcatProperties
<1> HIDE DEF c
<1>6. Len(c) = Len(s) - 1
  BY <1>0, <1>2, <1>3, <1>5
<1>7. ASSUME NEW j \in 1..(Len(s) - 1) PROVE c[j] = s[Before(p, j)]
  <2>1. j \in 1..(Len(a) + Len(b))
    BY <1>0, <1>2, <1>3
  <2>2. CASE j < p
    <3>1. j <= Len(a) /\ j \in 1..(p - 1)
      BY <1>0, <1>2, <2>2
    <3> QED BY <1>2, <1>5, <2>1, <2>2, <3>1 DEF Before
  <2>3. CASE ~(j < p)
    <3>1. /\ ~(j <= Len(a)) /\ j - Len(a) \in 1..(Len(s) - p)
          /\ p + (j - Len(a)) = j + 1
      BY <1>0, <1>2, <2>3
    <3>2. c[j] = b[j - Len(a)]
      BY <1>5, <2>1, <3>1
    <3>3. b[j - Len(a)] = s[p + (j - Len(a))]
      BY <1>3, <3>1
    <3> QED BY <2>3, <3>1, <3>2, <3>3 DEF Before
  <2> QED BY <2>2, <2>3
<1> QED BY <1>0, <1>4, <1>5, <1>6, <1>7

LEMMA WithoutThins ==
    ASSUME NEW s \in Seq(Frames), NEW p \in 1..Len(s)
    PROVE  Thinned(s, p, Without(s, p))
BY WithoutFacts DEF Thinned

\* What is left of a thinned bus was there before, in the same order.
LEMMA ThinnedPlaces ==
    ASSUME NEW s, NEW p, NEW t, Thinned(s, p, t)
    PROVE  /\ Len(s) \in Nat /\ Len(t) \in Nat /\ Len(t) = Len(s) - 1 /\ p \in Nat
           /\ \A j \in 1..Len(t) : Before(p, j) \in 1..Len(s) /\ t[j] = s[Before(p, j)]
           /\ \A i, j \in 1..Len(t) : i < j => Before(p, i) < Before(p, j)
<1>1. Len(s) \in Nat /\ Len(t) \in Nat /\ Len(t) = Len(s) - 1 /\ p \in Nat
  BY LenProperties DEF Thinned
<1> QED BY <1>1 DEF Thinned, Before

\* The frames on the bus stay what isotp_send made of its messages.
LEMMA BusMore ==
    ASSUME NEW s, NEW ms, NEW more, BusOK(s, ms), ms \subseteq more
    PROVE  BusOK(s, more)
BY DEF BusOK, FrameOK

LEMMA BusAppended ==
    ASSUME NEW s, NEW f, NEW t, NEW ms, NEW more, BusOK(s, ms), ms \subseteq more,
           Appended(s, f, t), FrameOK(f, more)
    PROVE  BusOK(t, more)
<1>1. BusOK(s, more) /\ Len(s) \in Nat
  BY BusMore, LenProperties DEF Appended
<1>2. ASSUME NEW i \in 1..Len(t) PROVE FrameOK(t[i], more)
  <2>1. CASE i = Len(s) + 1
    BY <2>1 DEF Appended
  <2>2. CASE i # Len(s) + 1
    <3>1. i \in 1..Len(s) /\ t[i] = s[i]
      BY <1>1, <2>2 DEF Appended
    <3> QED BY <1>1, <3>1 DEF BusOK
  <2> QED BY <2>1, <2>2
<1> QED BY <1>2 DEF BusOK, Appended

LEMMA BusThinned ==
    ASSUME NEW s, NEW p, NEW t, NEW ms, BusOK(s, ms), Thinned(s, p, t)
    PROVE  BusOK(t, ms)
<1>1. ASSUME NEW i \in 1..Len(t) PROVE FrameOK(t[i], ms)
  BY ThinnedPlaces DEF BusOK
<1> QED BY <1>1 DEF BusOK, Thinned

\* Order is kept.
LEMMA OrderAppended ==
    ASSUME NEW s, NEW f, NEW t, InOrder(s), Appended(s, f, t),
           f.pci = "CF" => \A i \in 1..Len(s) : Carries(s, i, From(f)) => At(s[i]) < At(f)
    PROVE  InOrder(t)
<1>0. Len(s) \in Nat
  BY LenProperties DEF Appended
<1> SUFFICES ASSUME NEW i \in 1..Len(t), NEW j \in 1..Len(t), i < j, t[i].pci = "CF",
                    Carries(t, j, From(t[i]))
             PROVE  At(t[i]) < At(t[j])
  BY DEF InOrder
<1>1. i \in 1..Len(s) /\ t[i] = s[i]
  BY <1>0 DEF Appended
<1>2. CASE j \in 1..Len(s)
  BY <1>1, <1>2 DEF InOrder, Carries, Appended
<1>3. CASE j = Len(s) + 1
  BY <1>1, <1>3 DEF Carries, Appended
<1> QED BY <1>0, <1>2, <1>3 DEF Appended

LEMMA OrderThinned ==
    ASSUME NEW s, NEW p, NEW t, InOrder(s), Thinned(s, p, t)
    PROVE  InOrder(t)
<1> SUFFICES ASSUME NEW i \in 1..Len(t), NEW j \in 1..Len(t), i < j, t[i].pci = "CF",
                    Carries(t, j, From(t[i]))
             PROVE  At(t[i]) < At(t[j])
  BY DEF InOrder
<1>1. /\ Before(p, i) \in 1..Len(s) /\ t[i] = s[Before(p, i)]
      /\ Before(p, j) \in 1..Len(s) /\ t[j] = s[Before(p, j)]
      /\ Before(p, i) < Before(p, j)
  BY ThinnedPlaces
<1> QED BY <1>1 DEF InOrder, Carries

\* What is still to come is still to come.
LEMMA ComesAfterAppended ==
    ASSUME NEW s, NEW f, NEW t, NEW m, NEW n, ComesAfter(s, m, n), Appended(s, f, t),
           f.pci = "CF" /\ From(f) = m => At(f) >= n
    PROVE  ComesAfter(t, m, n)
<1>0. Len(s) \in Nat
  BY LenProperties DEF Appended
<1> SUFFICES ASSUME NEW i \in 1..Len(t), Carries(t, i, m) PROVE At(t[i]) >= n
  BY DEF ComesAfter
<1>1. CASE i \in 1..Len(s)
  BY <1>1 DEF ComesAfter, Carries, Appended
<1>2. CASE i = Len(s) + 1
  BY <1>2 DEF Carries, Appended
<1> QED BY <1>0, <1>1, <1>2 DEF Appended

LEMMA ComesAfterThinned ==
    ASSUME NEW s, NEW p, NEW t, NEW m, NEW n, ComesAfter(s, m, n), Thinned(s, p, t)
    PROVE  ComesAfter(t, m, n)
BY ThinnedPlaces DEF ComesAfter, Carries

\* A frame that was led stays led when others follow.
LEMMA LedAppended ==
    ASSUME NEW s, NEW f, NEW t, NEW open, NEW m, NEW j \in 0..Len(s), Led(s, open, m, j),
           Appended(s, f, t)
    PROVE  Led(t, open, m, j)
<1>1. Len(s) \in Nat /\ \A i \in 1..j : i \in 1..Len(s) /\ t[i] = s[i]
  BY LenProperties DEF Appended
<1>2. \A i \in 1..j : (FirstOf(t, i, m) <=> FirstOf(s, i, m)) /\ (Carries(t, i, m) <=> Carries(s, i, m))
  BY <1>1 DEF FirstOf, Carries
<1>3. ASSUME NEW k \in 1..j
      PROVE  t[k].pci = "foreign" \/ Carries(t, k, m) \/ \E i \in k..j : FirstOf(t, i, m)
  <2>1. s[k].pci = "foreign" \/ Carries(s, k, m) \/ \E i \in k..j : FirstOf(s, i, m)
    BY DEF Led
  <2>2. \A i \in k..j : i \in 1..j
    BY <1>1
  <2> QED BY <1>1, <1>2, <2>1, <2>2
<1>4. open \subseteq {m} \/ \E i \in 1..j : FirstOf(t, i, m)
  BY <1>2 DEF Led
<1> QED BY <1>3, <1>4 DEF Led

\* One more foreign frame, or one more of m itself, still leads to m.
LEMMA LedFurther ==
    ASSUME NEW s, NEW f, NEW t, NEW open, NEW m, Led(s, open, m, Len(s)), Appended(s, f, t),
           f.pci = "foreign" \/ (f.pci = "CF" /\ From(f) = m)
    PROVE  Led(t, open, m, Len(t))
<1>1. Len(s) \in Nat /\ Len(t) = Len(s) + 1 /\ t[Len(t)] = f
  BY LenProperties DEF Appended
<1>2. Led(t, open, m, Len(s))
  BY <1>1, LedAppended
<1>3. ASSUME NEW k \in 1..Len(t)
      PROVE  t[k].pci = "foreign" \/ Carries(t, k, m) \/ \E i \in k..Len(t) : FirstOf(t, i, m)
  <2>1. CASE k = Len(t)
    BY <1>1, <2>1 DEF Carries
  <2>2. CASE k # Len(t)
    <3>1. k \in 1..Len(s) /\ \A i \in k..Len(s) : i \in k..Len(t)
      BY <1>1, <2>2
    <3>2. t[k].pci = "foreign" \/ Carries(t, k, m) \/ \E i \in k..Len(s) : FirstOf(t, i, m)
      BY <1>2, <3>1 DEF Led
    <3> QED BY <3>1, <3>2
  <2> QED BY <2>1, <2>2
<1>4. open \subseteq {m} \/ \E i \in 1..Len(t) : FirstOf(t, i, m)
  <2>1. \A i \in 1..Len(s) : i \in 1..Len(t)
    BY <1>1
  <2> QED BY <1>2, <2>1 DEF Led
<1> QED BY <1>3, <1>4 DEF Led

\* The first frame of m leads to m, whatever comes before it.
LEMMA LedByFirst ==
    ASSUME NEW s, NEW f, NEW t, NEW open, NEW m, Appended(s, f, t), f.pci = "FF", From(f) = m
    PROVE  Led(t, open, m, Len(t))
<1>1. Len(t) \in Nat /\ Len(t) >= 1 /\ FirstOf(t, Len(t), m)
  BY LenProperties DEF Appended, FirstOf
<1>2. \A k \in 1..Len(t) : Len(t) \in k..Len(t)
  BY <1>1
<1>3. Len(t) \in 1..Len(t)
  BY <1>1
<1> QED BY <1>1, <1>2, <1>3 DEF Led

\* What the receiver makes of the head of the bus keeps the rest led: it ends
\* up idle, stays in its transfer at a consecutive or a foreign frame, or
\* begins the transfer of the first frame it takes.
LEMMA LedTail ==
    ASSUME NEW s, NEW t, NEW open, NEW next, NEW m, NEW j \in Nat, j < Len(s),
           Led(s, open, m, j + 1), Thinned(s, 1, t),
           \/ next = {}
           \/ next = open /\ s[1].pci \in {"CF", "foreign"}
           \/ next = {From(s[1])} /\ s[1].pci = "FF"
    PROVE  Led(t, next, m, j)
<1>1. Len(s) \in Nat /\ \A i \in 1..j : t[i] = s[i + 1] /\ i + 1 \in 1..(j + 1)
  BY LenProperties DEF Thinned, Before
<1>2. \A i \in 1..j : /\ FirstOf(t, i, m) <=> FirstOf(s, i + 1, m)
                      /\ Carries(t, i, m) <=> Carries(s, i + 1, m)
  BY <1>1 DEF FirstOf, Carries
<1>3. ASSUME NEW k \in 1..j
      PROVE  t[k].pci = "foreign" \/ Carries(t, k, m) \/ \E i \in k..j : FirstOf(t, i, m)
  <2>1. \/ s[k + 1].pci = "foreign" \/ Carries(s, k + 1, m)
        \/ \E i \in (k + 1)..(j + 1) : FirstOf(s, i, m)
    BY <1>1 DEF Led
  <2>2. ASSUME NEW i \in (k + 1)..(j + 1), FirstOf(s, i, m)
        PROVE  \E l \in k..j : FirstOf(t, l, m)
    <3>1. i - 1 \in k..j /\ i - 1 \in 1..j /\ (i - 1) + 1 = i
      BY <1>1
    <3> QED BY <1>2, <2>2, <3>1
  <2> QED BY <1>1, <1>2, <2>1, <2>2
<1>4. ASSUME NEW i \in 1..(j + 1), FirstOf(s, i, m), i # 1
      PROVE  \E l \in 1..j : FirstOf(t, l, m)
  <2>1. i - 1 \in 1..j /\ (i - 1) + 1 = i
    BY <1>1, <1>4
  <2> QED BY <1>2, <1>4, <2>1
<1>5. next \subseteq {m} \/ \E i \in 1..j : FirstOf(t, i, m)
  <2>1. CASE next = open /\ s[1].pci \in {"CF", "foreign"}
    BY <1>4, <2>1 DEF Led, FirstOf
  <2>2. CASE next = {From(s[1])} /\ s[1].pci = "FF" /\ From(s[1]) # m
    <3>1. 1 \in 1..(j + 1)
      BY <1>1
    <3>2. \E i \in 1..(j + 1) : FirstOf(s, i, m)
      BY <2>2, <3>1 DEF Led, Carries
    <3> QED BY <1>4, <2>2, <3>2 DEF FirstOf
  <2> QED BY <2>1, <2>2
<1> QED BY <1>3, <1>5 DEF Led

\* Where no first frame is about, losing a frame does no harm.
LEMMA LedThinned ==
    ASSUME NEW s, NEW p, NEW t, NEW open, NEW m, NEW j \in 0..Len(t), NEW n \in Nat,
           Thinned(s, p, t), Led(s, open, m, n), n <= Len(s),
           \A i \in 1..j : Before(p, i) <= n,
           \A i \in 1..n : s[i].pci # "FF"
    PROVE  Led(t, open, m, j)
<1>1. open \subseteq {m} /\ \A k \in 1..n : s[k].pci = "foreign" \/ Carries(s, k, m)
  <2>1. \A k \in 1..n : \A i \in k..n : i \in 1..n
    OBVIOUS
  <2> QED BY <2>1 DEF Led, FirstOf
<1>2. ASSUME NEW k \in 1..j PROVE t[k].pci = "foreign" \/ Carries(t, k, m)
  <2>1. k \in 1..Len(t)
    BY ThinnedPlaces
  <2>2. Before(p, k) \in 1..n /\ t[k] = s[Before(p, k)]
    BY <2>1, ThinnedPlaces
  <2> QED BY <1>1, <2>2 DEF Carries
<1> QED BY <1>1, <1>2 DEF Led

\* The same for all consecutive frames on the bus.
LEMMA BusLedAppended ==
    ASSUME NEW s, NEW f, NEW t, NEW open, BusLed(s, open), Appended(s, f, t),
           f.pci = "CF" => Led(s, open, From(f), Len(s))
    PROVE  BusLed(t, open)
<1>0. Len(s) \in Nat /\ Len(t) = Len(s) + 1
  BY LenProperties DEF Appended
<1> SUFFICES ASSUME NEW j \in 1..Len(t), t[j].pci = "CF" PROVE Led(t, open, From(t[j]), j - 1)
  BY DEF BusLed
<1>1. CASE j \in 1..Len(s)
  <2>1. t[j] = s[j] /\ j - 1 \in 0..Len(s)
    BY <1>0, <1>1 DEF Appended
  <2>2. Led(s, open, From(s[j]), j - 1)
    BY <1>1, <2>1 DEF BusLed
  <2> QED BY <2>1, <2>2, LedAppended
<1>2. CASE j = Len(s) + 1
  <2>1. t[j] = f /\ j - 1 = Len(s) /\ Len(s) \in 0..Len(s)
    BY <1>0, <1>2 DEF Appended
  <2> QED BY <2>1, LedAppended
<1> QED BY <1>0, <1>1, <1>2

LEMMA BusLedTail ==
    ASSUME NEW s, NEW t, NEW open, NEW next, BusLed(s, open), Thinned(s, 1, t),
           \/ next = {}
           \/ next = open /\ s[1].pci \in {"CF", "foreign"}
           \/ next = {From(s[1])} /\ s[1].pci = "FF"
    PROVE  BusLed(t, next)
<1> SUFFICES ASSUME NEW j \in 1..Len(t), t[j].pci = "CF" PROVE Led(t, next, From(t[j]), j - 1)
  BY DEF BusLed
<1>1. Len(s) \in Nat /\ Len(t) = Len(s) - 1 /\ j \in Nat
  BY ThinnedPlaces
<1>2. t[j] = s[j + 1] /\ j + 1 \in 1..Len(s) /\ j - 1 \in Nat /\ j - 1 < Len(s)
  BY <1>1 DEF Thinned, Before
<1>3. (j + 1) - 1 = (j - 1) + 1
  BY <1>1
<1>4. Led(s, open, From(t[j]), (j - 1) + 1)
  BY <1>2, <1>3 DEF BusLed
<1> QED BY <1>2, <1>4, LedTail

LEMMA BusLedThinned ==
    ASSUME NEW s, NEW p, NEW t, NEW open, BusLed(s, open), Thinned(s, p, t),
           \A i \in 1..Len(s) : s[i].pci = "FF" => i = Len(s)
    PROVE  BusLed(t, open)
<1> SUFFICES ASSUME NEW j \in 1..Len(t), t[j].pci = "CF" PROVE Led(t, open, From(t[j]), j - 1)
  BY DEF BusLed
<1> DEFINE n == Before(p, j) - 1
<1>1. /\ Len(s) \in Nat /\ Len(t) \in Nat
      /\ Before(p, j) \in 1..Len(s) /\ t[j] = s[Before(p, j)]
      /\ \A i \in 1..(j - 1) : Before(p, i) \in 1..Len(s) /\ Before(p, i) < Before(p, j)
  BY ThinnedPlaces
<1>2. Led(s, open, From(t[j]), n)
  BY <1>1 DEF BusLed
<1>3. /\ n \in Nat /\ n <= Len(s) /\ j - 1 \in 0..Len(t)
      /\ \A i \in 1..(j - 1) : Before(p, i) <= n
      /\ \A i \in 1..n : s[i].pci # "FF"
  BY <1>1
<1> HIDE DEF n
<1> QED BY <1>2, <1>3, LedThinned

-----------------------------------------------------------------------------
(* isotp_send preserves the invariant. *)

\* The type invariant in three parts.
SenderTypes ==
    /\ spc \in {"idle", "wait_fc", "cf"}
    /\ msg \in Messages \cup {NoMsg} /\ (spc = "idle" <=> msg = NoMsg)
    /\ spc = "cf" => offset < Length(msg)
    /\ sn \in 0..15 /\ fcLate \in BOOLEAN
    /\ started \subseteq Messages

ReceiverTypes ==
    /\ next_sn \in 0..15 /\ crLate \in BOOLEAN /\ receiving \in BOOLEAN
    /\ receiving => Len(buf) < total_len /\ total_len <= OutCap

CountTypes == losses \in Nat /\ faults \in Nat

LEMMA TypeParts ==
    /\ TypeOK <=> SenderTypes /\ ReceiverTypes /\ CountTypes
    /\ TypeOK' <=> SenderTypes' /\ ReceiverTypes' /\ CountTypes'
BY DEF TypeOK, SenderTypes, ReceiverTypes, CountTypes

\* Nothing has been sent.
LEMMA InitIInv == Init => IInv
<1> SUFFICES ASSUME Init PROVE IInv
  OBVIOUS
<1>1. TypeOK
  <2>1. /\ spc = "idle" /\ msg = NoMsg /\ sn = 0 /\ next_sn = 1 /\ losses = 0 /\ faults = 0
        /\ started = {} /\ ~receiving
    BY DEF Init
  <2>2. fcLate \in BOOLEAN /\ crLate \in BOOLEAN /\ receiving \in BOOLEAN
    BY DEF Init
  <2> QED BY <2>1, <2>2 DEF TypeOK
<1>2. toReceiver = <<>> /\ Len(toReceiver) = 0 /\ toReceiver \in Seq(Frames)
  BY EmptySeq DEF Init
<1>3. LocalsOK
  BY <1>2 DEF Init, LocalsOK, BusOK
<1>4. SentInOrder /\ AllLed
  BY <1>2 DEF Init, SentInOrder, InOrder, AllLed, BusLed
<1>5. TransferOK /\ FirstGoesAhead /\ OneToken /\ Integrity
  BY <1>2 DEF Init, TransferOK, FirstGoesAhead, OneToken, Integrity
<1> QED BY <1>1, <1>3, <1>4, <1>5 DEF IInv

\* Sequence numbers have four bits.
LEMMA SequenceNumbers == \A n \in Nat : n % SN_MOD \in 0..15
<1>1. SN_MOD \in 2..16
  BY IsoTpAssumption
<1> QED BY <1>1

\* As long as the receiver rests, its transfer is as good as what is still to
\* come lets it be.
LEMMA TransferKept ==
    ASSUME TransferOK, UNCHANGED <<receiving, total_len, buf>>, started \subseteq started',
           \A n \in Nat :
              /\ receiving /\ ComesAfter(toReceiver, Current, n)
              /\ spc = "cf" /\ msg = Current => offset >= n
              => /\ ComesAfter(toReceiver', Current, n)
                 /\ spc' = "cf" /\ msg' = Current => offset' >= n,
           receiving /\ Current = msg' /\ spc' = "wait_fc" => Current = msg /\ spc = "wait_fc"
    PROVE  TransferOK'
<1> SUFFICES ASSUME receiving PROVE TransferOK'
  BY DEF TransferOK
<1>1. Current' = Current /\ Len(buf') = Len(buf) /\ buf' = buf /\ total_len' = total_len
  BY DEF Current
<1>2. Len(buf) \in Nat /\ Len(buf) + 1 \in Nat
  BY DEF TransferOK, OnGrid
<1>3. ASSUME NEW n \in Nat, StillToCome(n)
      PROVE  /\ ComesAfter(toReceiver', Current', n)
             /\ spc' = "cf" /\ msg' = Current' => offset' >= n
  BY <1>1, <1>3 DEF StillToCome
<1>4. CASE /\ \A i \in 1..Len(buf) : buf[i] = <<Current, i>>
           /\ StillToCome(Len(buf))
           /\ Current = msg /\ spc = "wait_fc" => Len(buf) = 6
  BY <1>1, <1>2, <1>3, <1>4 DEF TransferOK, StillToCome
<1>5. CASE StillToCome(Len(buf) + 1) /\ ~(Current = msg /\ spc = "wait_fc")
  BY <1>1, <1>2, <1>3, <1>5 DEF TransferOK, StillToCome
<1> QED BY <1>4, <1>5 DEF TransferOK

\* A transfer that began was sent.
LEMMA CurrentStarted ==
    ASSUME TransferOK, receiving
    PROVE  Current \in started
BY DEF TransferOK

\* send_sf.
LEMMA SendSingleIInv ==
    ASSUME IInv, NEW m \in Messages, SendSingle(m)
    PROVE  IInv'
<1> DEFINE f == SingleFrame(m)
<1>1. f \in Frames /\ f.pci = "SF" /\ From(f) = m /\ FrameOK(f, started')
  BY SingleFrameFacts DEF SendSingle, FrameOK
<1> HIDE DEF f
<1>2. /\ spc = "idle" /\ started' = started \cup {m} /\ toReceiver' = Append(toReceiver, f)
      /\ UNCHANGED <<toSender, spc, msg, offset, sn, fcLate, receiving, total_len, next_sn,
                     buf, crLate, delivered, losses, faults>>
  BY DEF SendSingle, recvVars, f
<1>3. BusOK(toReceiver, started) /\ Appended(toReceiver, f, toReceiver')
  BY <1>1, <1>2, AppendAppends DEF IInv, LocalsOK, BusOK
<1>4. TypeOK'
  BY <1>2 DEF IInv, TypeOK
<1>5. LocalsOK'
  <2>1. BusOK(toReceiver', started')
    BY <1>1, <1>2, <1>3, BusAppended
  <2> QED BY <1>2, <2>1 DEF IInv, LocalsOK
<1>6. Len(toReceiver) \in Nat /\ Len(toReceiver') = Len(toReceiver) + 1
  BY <1>3, LenProperties DEF BusOK, Appended
<1>7. SentInOrder'
  <2>1. InOrder(toReceiver')
    BY <1>1, <1>3, OrderAppended DEF IInv, SentInOrder
  <2>2. ASSUME NEW i \in 1..Len(toReceiver'), Carries(toReceiver', i, msg) PROVE FALSE
    <3>1. i \in 1..Len(toReceiver) /\ toReceiver'[i] = toReceiver[i]
      BY <1>1, <1>3, <1>6, <2>2 DEF Appended, Carries
    <3> QED BY <1>2, <2>2, <3>1 DEF IInv, SentInOrder, Carries
  <2> QED BY <1>2, <2>1, <2>2 DEF SentInOrder
<1>8. ASSUME losses = 0 \/ faults = 0 PROVE AllLed' /\ TransferOK'
  <2>1. AllLed'
    <3>1. BusLed(toReceiver, Open)
      BY <1>8 DEF IInv, AllLed
    <3>2. BusLed(toReceiver', Open) /\ Open' = Open
      BY <1>1, <1>2, <1>3, <3>1, BusLedAppended DEF Open, Current
    <3> QED BY <1>2, <3>2 DEF AllLed
  <2>2. \A n : ComesAfter(toReceiver, Current, n) => ComesAfter(toReceiver', Current, n)
    BY <1>1, <1>3, ComesAfterAppended
  <2>3. TransferOK
    BY <1>8 DEF IInv
  <2>4. TransferOK'
    BY <1>2, <2>2, <2>3, TransferKept
  <2> QED BY <2>1, <2>4
<1>9. ASSUME faults = 0 PROVE OneToken'
  <2>1. OneToken
    BY <1>9 DEF IInv
  <2>2. ASSUME NEW i \in 1..Len(toReceiver'), toReceiver'[i].pci = "FF" PROVE FALSE
    <3>1. i \in 1..Len(toReceiver) /\ toReceiver'[i] = toReceiver[i]
      BY <1>1, <1>3, <1>6, <2>2 DEF Appended
    <3> QED BY <1>2, <2>1, <2>2, <3>1 DEF OneToken
  <2> QED BY <1>2, <2>1, <2>2 DEF OneToken
<1>10. Integrity'
  BY <1>2 DEF IInv, Integrity
<1> QED BY <1>2, <1>4, <1>5, <1>7, <1>8, <1>9, <1>10 DEF IInv, FirstGoesAhead

\* send_multiframe's first frame leads whatever it sends later.
LEMMA SendFirstIInv ==
    ASSUME IInv, NEW m \in Messages, SendFirst(m)
    PROVE  IInv'
<1> DEFINE f == FirstFrame(m)
<1>1. f \in Frames /\ f.pci = "FF" /\ From(f) = m /\ FrameOK(f, started')
  BY FirstFrameFacts DEF SendFirst, FrameOK
<1> HIDE DEF f
<1>2. /\ spc = "idle" /\ m \notin started /\ Length(m) > 7
      /\ started' = started \cup {m} /\ toReceiver' = Append(toReceiver, f)
      /\ spc' = "wait_fc" /\ msg' = m /\ fcLate' = FALSE
      /\ UNCHANGED <<toSender, offset, sn, receiving, total_len, next_sn,
                     buf, crLate, delivered, losses, faults>>
  BY DEF SendFirst, recvVars, f
<1>3. BusOK(toReceiver, started) /\ Appended(toReceiver, f, toReceiver')
  BY <1>1, <1>2, AppendAppends DEF IInv, LocalsOK, BusOK
<1>4. TypeOK'
  <2>1. m # NoMsg
    BY IsoTpAssumption
  <2>2. SenderTypes'
    BY <1>2, <2>1 DEF IInv, TypeOK, SenderTypes
  <2>3. ReceiverTypes' /\ CountTypes'
    BY <1>2 DEF IInv, TypeOK, ReceiverTypes, CountTypes
  <2> QED BY <2>2, <2>3, TypeParts
<1>5. LocalsOK'
  <2>1. BusOK(toReceiver', started')
    BY <1>1, <1>2, <1>3, BusAppended
  <2> QED BY <1>2, <2>1 DEF IInv, LocalsOK
<1>6. Len(toReceiver) \in Nat /\ Len(toReceiver') = Len(toReceiver) + 1
  BY <1>3, LenProperties DEF BusOK, Appended
<1>7. SentInOrder'
  <2>1. InOrder(toReceiver')
    BY <1>1, <1>3, OrderAppended DEF IInv, SentInOrder
  <2>2. ASSUME NEW i \in 1..Len(toReceiver'), Carries(toReceiver', i, m) PROVE FALSE
    <3>1. i \in 1..Len(toReceiver) /\ toReceiver'[i] = toReceiver[i]
      BY <1>1, <1>3, <1>6, <2>2 DEF Appended, Carries
    <3>2. From(toReceiver[i]) \in started
      BY <1>3, <2>2, <3>1 DEF BusOK, FrameOK, Carries
    <3> QED BY <1>2, <2>2, <3>1, <3>2 DEF Carries
  <2> QED BY <1>2, <2>1, <2>2 DEF SentInOrder
<1>8. ASSUME losses = 0 \/ faults = 0 PROVE AllLed' /\ TransferOK'
  <2>1. AllLed'
    <3>1. BusLed(toReceiver, Open)
      BY <1>8 DEF IInv, AllLed
    <3>2. BusLed(toReceiver', Open) /\ Open' = Open
      BY <1>1, <1>2, <1>3, <3>1, BusLedAppended DEF Open, Current
    <3> QED BY <1>2, <3>2 DEF AllLed
  <2>2. \A n : ComesAfter(toReceiver, Current, n) => ComesAfter(toReceiver', Current, n)
    BY <1>1, <1>3, ComesAfterAppended
  <2>3. TransferOK /\ (receiving => Current # m)
    BY <1>2, <1>8, CurrentStarted DEF IInv
  <2>4. TransferOK'
    BY <1>2, <2>2, <2>3, TransferKept
  <2> QED BY <2>1, <2>4
<1>9. FirstGoesAhead'
  BY <1>1, <1>2, <1>3, LedByFirst DEF FirstGoesAhead
<1>10. ASSUME faults = 0 PROVE OneToken'
  <2>1. OneToken
    BY <1>10 DEF IInv
  <2>2. ASSUME NEW i \in 1..Len(toReceiver'), toReceiver'[i].pci = "FF"
        PROVE  i = Len(toReceiver') /\ From(toReceiver'[i]) = m
    <3>1. CASE i = Len(toReceiver')
      BY <1>1, <1>3, <1>6, <3>1 DEF Appended
    <3>2. CASE i # Len(toReceiver')
      <4>1. i \in 1..Len(toReceiver) /\ toReceiver'[i] = toReceiver[i]
        BY <1>3, <1>6, <3>2 DEF Appended
      <4> QED BY <1>2, <2>1, <2>2, <4>1 DEF OneToken
    <3> QED BY <3>1, <3>2
  <2> QED BY <1>2, <2>1, <2>2 DEF OneToken
<1>11. Integrity'
  BY <1>2 DEF IInv, Integrity
<1> QED BY <1>2, <1>4, <1>5, <1>7, <1>8, <1>9, <1>10, <1>11 DEF IInv

\* Steps that only move frames to the sender, deadlines and counters.
LEMMA RestIInv ==
    ASSUME IInv, toSender' \in Seq(BackFrames), fcLate' \in BOOLEAN, crLate' \in BOOLEAN,
           losses' \in Nat, faults' \in Nat, losses' = 0 => losses = 0,
           faults' = 0 => faults = 0 /\ (toSender' = toSender \/ toSender' = <<>>),
           UNCHANGED <<toReceiver, spc, msg, offset, sn, receiving, total_len, next_sn, buf,
                       started, delivered>>
    PROVE  IInv'
<1>1. TypeOK'
  BY DEF IInv, TypeOK
<1>2. LocalsOK' /\ SentInOrder'
  BY DEF IInv, LocalsOK, SentInOrder
<1>3. Current' = Current /\ Open' = Open
  BY DEF Current, Open
<1>4. ASSUME losses' = 0 \/ faults' = 0 PROVE AllLed' /\ TransferOK'
  <2>1. AllLed /\ TransferOK
    BY <1>4 DEF IInv
  <2> QED BY <1>3, <2>1 DEF AllLed, TransferOK, StillToCome
<1>5. ASSUME losses' = 0 PROVE FirstGoesAhead'
  BY <1>3, <1>5 DEF IInv, FirstGoesAhead
<1>6. ASSUME faults' = 0 PROVE OneToken'
  <2>1. OneToken
    BY <1>6 DEF IInv
  <2> QED BY <1>3, <1>6, <2>1 DEF OneToken
<1>7. Integrity'
  BY DEF IInv, Integrity
<1> QED BY <1>1, <1>2, <1>4, <1>5, <1>6, <1>7 DEF IInv

\* isotp_send gives up; that is a fault, or follows one.
LEMMA GiveUpIInv ==
    ASSUME IInv, SendReturns, toSender' \in Seq(BackFrames), faults' \in Nat, faults' # 0,
           UNCHANGED <<toReceiver, receiving, total_len, next_sn, buf, crLate, started,
                       delivered, losses>>
    PROVE  IInv'
<1>1. spc' = "idle" /\ msg' = NoMsg /\ offset' = 0 /\ sn' = 0 /\ fcLate' = FALSE
  BY DEF SendReturns
<1>2. TypeOK'
  <2>1. SenderTypes' /\ CountTypes'
    <3>1. started' \subseteq Messages /\ losses' \in Nat
      BY DEF IInv, TypeOK
    <3>2. fcLate' \in BOOLEAN
      BY <1>1
    <3> QED BY <1>1, <3>1, <3>2 DEF SenderTypes, CountTypes
  <2>2. ReceiverTypes'
    BY DEF IInv, TypeOK, ReceiverTypes
  <2> QED BY <2>1, <2>2, TypeParts
<1>3. LocalsOK'
  BY <1>1 DEF IInv, LocalsOK
<1>4. SentInOrder'
  <2>1. ASSUME NEW i \in 1..Len(toReceiver), Carries(toReceiver, i, NoMsg) PROVE FALSE
    <3>1. From(toReceiver[i]) \in started /\ started \subseteq Messages
      BY <2>1 DEF IInv, LocalsOK, BusOK, FrameOK, Carries, TypeOK
    <3> QED BY <2>1, <3>1, IsoTpAssumption DEF Carries
  <2> QED BY <1>1, <2>1 DEF IInv, SentInOrder
<1>5. ASSUME losses = 0 PROVE AllLed' /\ TransferOK'
  <2>1. AllLed /\ TransferOK
    BY <1>5 DEF IInv
  <2>2. Open' = Open
    BY DEF Open, Current
  <2>3. AllLed'
    BY <1>1, <2>1, <2>2 DEF AllLed
  <2>4. TransferOK'
    BY <1>1, <2>1, TransferKept
  <2> QED BY <2>3, <2>4
<1>6. Integrity'
  BY DEF IInv, Integrity
<1> QED BY <1>1, <1>2, <1>3, <1>4, <1>5, <1>6 DEF IInv, FirstGoesAhead

\* The tail of what is on its way to the sender.
LEMMA BackTail ==
    ASSUME LocalsOK, toSender # <<>>
    PROVE  Head(toSender) \in BackFrames /\ Tail(toSender) \in Seq(BackFrames)
BY HeadTailProperties DEF LocalsOK

\* The flow control frame arrives, and the first frame has gone ahead: it is
\* on the bus or in the receiver.
LEMMA GoOnIInv ==
    ASSUME IInv, spc = "wait_fc", toSender # <<>>, toSender' = Tail(toSender),
           spc' = "cf", offset' = 6, sn' = 1,
           UNCHANGED <<msg, fcLate, toReceiver, started, receiving, total_len, next_sn, buf,
                       crLate, delivered, losses, faults>>
    PROVE  IInv'
<1>1. TypeOK'
  <2>1. SenderTypes'
    <3>1. /\ started' \subseteq Messages /\ msg' \in Messages \cup {NoMsg} /\ msg' # NoMsg
          /\ fcLate' \in BOOLEAN
      BY DEF IInv, TypeOK
    <3>2. msg \in Messages /\ Length(msg) > 7
      BY DEF IInv, TypeOK, LocalsOK
    <3>3. 6 < Length(msg)
      BY <3>2, LengthType
    <3> QED BY <3>1, <3>3 DEF SenderTypes
  <2>2. ReceiverTypes' /\ CountTypes'
    BY DEF IInv, TypeOK, ReceiverTypes, CountTypes
  <2> QED BY <2>1, <2>2, TypeParts
<1>2. LocalsOK'
  <2>1. OnGrid(6) /\ msg \in started /\ Length(msg) \in Nat /\ 6 < Length(msg)
    BY Grid, LengthType DEF IInv, LocalsOK, TypeOK
  <2>2. BusOK(toReceiver', started') /\ toSender' \in Seq(BackFrames)
    BY BackTail DEF IInv, LocalsOK
  <2> QED BY <2>1, <2>2 DEF IInv, LocalsOK
<1>3. \A i \in 1..Len(toReceiver) : ~Carries(toReceiver, i, msg)
  BY DEF IInv, SentInOrder
<1>4. SentInOrder'
  BY <1>3 DEF IInv, SentInOrder
<1>5. Open' = Open /\ Current' = Current
  BY DEF Open, Current
<1>6. ASSUME losses = 0 \/ faults = 0 PROVE AllLed' /\ TransferOK'
  <2>1. AllLed /\ TransferOK
    BY <1>6 DEF IInv
  <2>2. Led(toReceiver, Open, msg, Len(toReceiver))
    <3>1. CASE losses = 0
      BY <3>1 DEF IInv, FirstGoesAhead
    <3>2. CASE faults = 0
      <4>1. toReceiver = <<>> /\ receiving /\ Current = msg
        BY <3>2 DEF IInv, OneToken
      <4>2. Len(toReceiver) = 0 /\ Open = {msg}
        BY <4>1 DEF Open
      <4> QED BY <4>2 DEF Led
    <3> QED BY <1>6, <3>1, <3>2
  <2>3. AllLed'
    BY <1>5, <2>1, <2>2 DEF AllLed
  <2>4. CASE receiving /\ Current = msg
    <3>1. /\ \A i \in 1..Len(buf) : buf[i] = <<Current, i>>
          /\ Len(buf) = 6 /\ OnGrid(Len(buf)) /\ Current \in started /\ total_len = Length(Current)
      BY <2>1, <2>4 DEF TransferOK
    <3>2. ComesAfter(toReceiver, Current, 6)
      BY <1>3, <2>4 DEF ComesAfter
    <3>3. StillToCome(6)'
      BY <1>5, <3>2 DEF StillToCome
    <3> QED BY <1>5, <2>3, <3>1, <3>3 DEF TransferOK
  <2>5. CASE ~(receiving /\ Current = msg)
    <3>1. TransferOK'
      BY <2>1, <2>5, TransferKept
    <3> QED BY <2>3, <3>1
  <2> QED BY <2>4, <2>5
<1>7. ASSUME faults = 0 PROVE OneToken'
  <2>1. toReceiver = <<>> /\ toSender = <<Flow(CTS)>>
    BY <1>7 DEF IInv, OneToken
  <2>2. Len(toReceiver) = 0 /\ toSender' = <<>>
    BY <2>1
  <2> QED BY <2>2 DEF OneToken
<1>8. Integrity'
  BY DEF IInv, Integrity
<1> QED BY <1>1, <1>2, <1>4, <1>6, <1>7, <1>8 DEF IInv, FirstGoesAhead

\* wait_for_fc.  Without faults it sees nothing but the flow control frame
\* that lets it go on.
LEMMA WaitForFcIInv == IInv /\ WaitForFc => IInv'
<1> SUFFICES ASSUME IInv, WaitForFc PROVE IInv'
  OBVIOUS
<1> DEFINE f == Head(toSender)
<1>1. /\ spc = "wait_fc" /\ toSender # <<>> /\ toSender' = Tail(toSender)
      /\ UNCHANGED <<toReceiver, started, receiving, total_len, next_sn, buf, crLate,
                     delivered, losses, faults>>
  BY DEF WaitForFc, recvVars
<1>2. Tail(toSender) \in Seq(BackFrames)
  BY <1>1, BackTail DEF IInv
<1>3. losses \in Nat /\ faults \in Nat /\ fcLate \in BOOLEAN /\ crLate \in BOOLEAN
  BY DEF IInv, TypeOK
<1>4. faults = 0 => f.pci = "FC" /\ f.low = CTS
  BY <1>1 DEF IInv, OneToken, Flow, Frame
<1>5. \/ /\ f.pci = "foreign" \/ (f.pci = "FC" /\ f.low = WAIT)
         /\ UNCHANGED <<spc, msg, offset, sn, fcLate>>
      \/ /\ \/ f.pci # "FC"
            \/ f.pci = "FC" /\ f.low \notin {CTS, WAIT}
         /\ SendReturns
      \/ /\ spc' = "cf" /\ offset' = 6 /\ sn' = 1
         /\ UNCHANGED <<msg, fcLate>>
  BY DEF WaitForFc
<1>6. CTS # WAIT
  BY DEF CTS, WAIT
<1> HIDE DEF f
<1>7. CASE /\ f.pci = "foreign" \/ (f.pci = "FC" /\ f.low = WAIT)
           /\ UNCHANGED <<spc, msg, offset, sn, fcLate>>
  <2>1. faults # 0
    BY <1>4, <1>6, <1>7
  <2> QED BY <1>1, <1>2, <1>3, <1>7, <2>1, RestIInv
<1>8. CASE /\ \/ f.pci # "FC"
              \/ f.pci = "FC" /\ f.low \notin {CTS, WAIT}
           /\ SendReturns
  <2>1. faults # 0
    BY <1>4, <1>6, <1>8
  <2> QED BY <1>1, <1>2, <1>3, <1>8, <2>1, GiveUpIInv
<1>9. CASE spc' = "cf" /\ offset' = 6 /\ sn' = 1 /\ UNCHANGED <<msg, fcLate>>
  BY <1>1, <1>9, GoOnIInv
<1> QED BY <1>5, <1>7, <1>8, <1>9

\* The loop of send_multiframe.
LEMMA SendConsecutiveIInv == IInv /\ SendConsecutive => IInv'
<1> SUFFICES ASSUME IInv, SendConsecutive PROVE IInv'
  OBVIOUS
<1> DEFINE f == ConsecutiveFrame(msg, offset, sn)
<1>0. /\ spc = "cf" /\ msg \in started /\ msg \in Messages /\ Length(msg) \in Nat
      /\ OnGrid(offset) /\ offset \in Nat /\ offset < Length(msg)
      /\ sn \in Nat /\ started \subseteq Messages
  <2>1. spc = "cf" /\ sn \in 0..15 /\ started \subseteq Messages
    BY DEF SendConsecutive, IInv, TypeOK
  <2>2. msg \in started /\ OnGrid(offset) /\ offset < Length(msg)
    BY <2>1 DEF IInv, LocalsOK
  <2> QED BY <2>1, <2>2, LengthType DEF OnGrid
<1>1. f \in Frames /\ f.pci = "CF" /\ From(f) = msg /\ At(f) = offset /\ FrameOK(f, started)
  BY <1>0, ConsecutiveFrameFacts DEF FrameOK
<1>2. /\ toReceiver' = Append(toReceiver, f)
      /\ UNCHANGED <<toSender, started, receiving, total_len, next_sn, buf, crLate,
                     delivered, losses, faults>>
  BY DEF SendConsecutive, recvVars
<1> HIDE DEF f
<1>3. \/ /\ spc' = "cf" /\ msg' = msg /\ fcLate' = fcLate
         /\ offset' = offset + 7 /\ offset' < Length(msg) /\ sn' = (sn + 1) % SN_MOD
      \/ SendReturns
  <2>1. offset + 7 < Length(msg) \/ offset + Chunk(Length(msg) - offset) = Length(msg)
    BY <1>0 DEF Chunk
  <2>2. offset + 7 < Length(msg) => Chunk(Length(msg) - offset) = 7
    BY <1>0 DEF Chunk
  <2> QED BY <1>0, <2>1, <2>2 DEF SendConsecutive
<1>4. BusOK(toReceiver, started) /\ Appended(toReceiver, f, toReceiver')
  BY <1>1, <1>2, AppendAppends DEF IInv, LocalsOK, BusOK
<1>5. Len(toReceiver) \in Nat /\ Len(toReceiver') = Len(toReceiver) + 1
  BY <1>4, LenProperties DEF BusOK, Appended
<1>6. BusOK(toReceiver', started')
  BY <1>1, <1>2, <1>4, BusAppended
<1>7. InOrder(toReceiver')
  BY <1>1, <1>4, OrderAppended DEF IInv, SentInOrder
<1>8. ReceiverTypes' /\ CountTypes'
  BY <1>2 DEF IInv, TypeOK, ReceiverTypes, CountTypes
<1>9. ASSUME losses = 0 \/ faults = 0
      PROVE  /\ AllLed /\ TransferOK /\ Open' = Open
             /\ BusLed(toReceiver', Open) /\ Led(toReceiver', Open, msg, Len(toReceiver'))
             /\ \A n \in Nat : ComesAfter(toReceiver, Current, n) /\ (msg = Current => offset >= n)
                                  => ComesAfter(toReceiver', Current, n)
  <2>1. AllLed /\ TransferOK
    BY <1>9 DEF IInv
  <2>2. Led(toReceiver, Open, msg, Len(toReceiver))
    BY <1>0, <2>1 DEF AllLed
  <2>3. BusLed(toReceiver', Open)
    BY <1>1, <1>4, <2>1, <2>2, BusLedAppended DEF AllLed
  <2>4. Led(toReceiver', Open, msg, Len(toReceiver'))
    BY <1>1, <1>4, <2>2, LedFurther
  <2>5. Open' = Open
    BY <1>2 DEF Open, Current
  <2>6. ASSUME NEW n \in Nat, ComesAfter(toReceiver, Current, n), msg = Current => offset >= n
        PROVE  ComesAfter(toReceiver', Current, n)
    BY <1>1, <1>4, <2>6, ComesAfterAppended
  <2> QED BY <2>1, <2>3, <2>4, <2>5, <2>6
<1>10. ASSUME faults = 0 PROVE OneToken'
  <2>1. OneToken /\ toSender = <<>>
    BY <1>0, <1>10 DEF IInv, OneToken
  <2>2. ASSUME NEW i \in 1..Len(toReceiver'), toReceiver'[i].pci = "FF" PROVE FALSE
    <3>1. i \in 1..Len(toReceiver) /\ toReceiver'[i] = toReceiver[i]
      BY <1>1, <1>4, <1>5, <2>2 DEF Appended
    <3> QED BY <1>0, <2>1, <2>2, <3>1 DEF OneToken
  <2> QED BY <1>2, <2>1, <2>2 DEF OneToken
<1>11. Integrity'
  BY <1>2 DEF IInv, Integrity
<1>12. CASE /\ spc' = "cf" /\ msg' = msg /\ fcLate' = fcLate
            /\ offset' = offset + 7 /\ offset' < Length(msg) /\ sn' = (sn + 1) % SN_MOD
  <2>1. TypeOK'
    <3>1. sn' \in 0..15
      BY <1>0, <1>12, SequenceNumbers
    <3>2. started' \subseteq Messages /\ msg' \in Messages \cup {NoMsg} /\ msg' # NoMsg
      BY <1>0, <1>2, <1>12 DEF IInv, TypeOK
    <3>3. fcLate' \in BOOLEAN
      BY <1>12 DEF IInv, TypeOK
    <3>4. SenderTypes'
      BY <1>12, <3>1, <3>2, <3>3 DEF SenderTypes
    <3> QED BY <1>8, <3>4, TypeParts
  <2>2. LocalsOK'
    <3>1. OnGrid(offset')
      BY <1>0, <1>12, Grid
    <3> QED BY <1>0, <1>2, <1>6, <1>12, <3>1 DEF IInv, LocalsOK
  <2>3. SentInOrder'
    <3>1. ASSUME NEW i \in 1..Len(toReceiver'), Carries(toReceiver', i, msg)
          PROVE  At(toReceiver'[i]) < offset'
      <4>1. CASE i = Len(toReceiver')
        BY <1>0, <1>1, <1>4, <1>5, <1>12, <4>1 DEF Appended
      <4>2. CASE i # Len(toReceiver')
        <5>1. i \in 1..Len(toReceiver) /\ toReceiver'[i] = toReceiver[i]
          BY <1>4, <1>5, <4>2 DEF Appended
        <5>2. At(toReceiver[i]) < offset
          BY <3>1, <5>1 DEF IInv, SentInOrder, Carries
        <5>3. At(toReceiver[i]) \in Nat
          BY <1>4, <3>1, <5>1 DEF BusOK, FrameOK, Carries, OnGrid
        <5> QED BY <1>0, <1>12, <5>1, <5>2, <5>3
      <4> QED BY <4>1, <4>2
    <3> QED BY <1>7, <1>12, <3>1 DEF SentInOrder
  <2>4. ASSUME losses = 0 \/ faults = 0 PROVE AllLed' /\ TransferOK'
    <3>1. AllLed'
      BY <1>9, <1>12, <2>4 DEF AllLed
    <3>2. TransferOK'
      <4>1. \A n \in Nat : offset >= n => offset' >= n
        BY <1>0, <1>12
      <4> QED BY <1>0, <1>2, <1>9, <1>12, <2>4, <4>1, TransferKept
    <3> QED BY <3>1, <3>2
  <2> QED BY <1>2, <1>10, <1>11, <1>12, <2>1, <2>2, <2>3, <2>4 DEF IInv, FirstGoesAhead
<1>13. CASE SendReturns
  <2>0. spc' = "idle" /\ msg' = NoMsg /\ offset' = 0 /\ sn' = 0 /\ fcLate' = FALSE
    BY <1>13 DEF SendReturns
  <2>1. TypeOK'
    <3>1. SenderTypes'
      <4>1. fcLate' \in BOOLEAN /\ started' \subseteq Messages
        BY <1>0, <1>2, <2>0
      <4> QED BY <2>0, <4>1 DEF SenderTypes
    <3> QED BY <1>8, <3>1, TypeParts
  <2>2. LocalsOK'
    BY <1>2, <1>6, <2>0 DEF IInv, LocalsOK
  <2>3. SentInOrder'
    <3>1. ASSUME NEW i \in 1..Len(toReceiver'), Carries(toReceiver', i, NoMsg) PROVE FALSE
      <4>1. From(toReceiver'[i]) \in Messages
        BY <1>0, <1>2, <1>6, <3>1 DEF BusOK, FrameOK, Carries
      <4> QED BY <3>1, <4>1, IsoTpAssumption DEF Carries
    <3> QED BY <1>7, <2>0, <3>1 DEF SentInOrder
  <2>4. ASSUME losses = 0 \/ faults = 0 PROVE AllLed' /\ TransferOK'
    <3>1. AllLed'
      BY <1>9, <2>0, <2>4 DEF AllLed
    <3>2. TransferOK'
      BY <1>0, <1>2, <1>9, <2>0, <2>4, TransferKept
    <3> QED BY <3>1, <3>2
  <2> QED BY <1>2, <1>10, <1>11, <2>0, <2>1, <2>2, <2>3, <2>4 DEF IInv, FirstGoesAhead
<1> QED BY <1>3, <1>12, <1>13

-----------------------------------------------------------------------------
(* isotp_recv preserves the invariant. *)

\* A frame leaves the bus; the sender rests.
LEMMA BusLosesHead ==
    ASSUME IInv, toReceiver # <<>>, toReceiver' = Tail(toReceiver), UNCHANGED sendVars
    PROVE  /\ Thinned(toReceiver, 1, toReceiver')
           /\ Head(toReceiver) = toReceiver[1] /\ 1 \in 1..Len(toReceiver)
           /\ Head(toReceiver) \in Frames /\ FrameOK(Head(toReceiver), started)
           /\ Len(toReceiver) \in Nat /\ Len(toReceiver') \in Nat
           /\ Len(toReceiver) = Len(toReceiver') + 1
           /\ BusOK(toReceiver', started') /\ SentInOrder' /\ SenderTypes'
<1>1. BusOK(toReceiver, started) /\ toReceiver \in Seq(Frames)
  BY DEF IInv, LocalsOK, BusOK
<1>2. /\ Thinned(toReceiver, 1, toReceiver') /\ Head(toReceiver) = toReceiver[1]
      /\ Head(toReceiver) \in Frames /\ Len(toReceiver) \in Nat \ {0}
  BY <1>1, TailThins
<1>3. 1 \in 1..Len(toReceiver)
  BY <1>2
<1>4. UNCHANGED <<spc, msg, offset, sn, fcLate, started>>
  BY DEF sendVars
<1>5. BusOK(toReceiver', started') /\ FrameOK(Head(toReceiver), started)
  <2>1. BusOK(toReceiver', started)
    BY <1>1, <1>2, BusThinned
  <2>2. FrameOK(toReceiver[1], started)
    BY <1>1, <1>3 DEF BusOK
  <2> QED BY <1>2, <1>4, <2>1, <2>2
<1>6. SentInOrder'
  <2>1. InOrder(toReceiver')
    BY <1>2, OrderThinned DEF IInv, SentInOrder
  <2>2. ASSUME NEW i \in 1..Len(toReceiver'), Carries(toReceiver', i, msg)
        PROVE  spc = "cf" /\ At(toReceiver'[i]) < offset
    <3>1. /\ Len(toReceiver) \in Nat /\ Len(toReceiver') = Len(toReceiver) - 1
          /\ toReceiver'[i] = toReceiver[i + 1]
      BY <1>2 DEF Thinned, Before
    <3>2. i + 1 \in 1..Len(toReceiver)
      BY <3>1
    <3> QED BY <2>2, <3>1, <3>2 DEF IInv, SentInOrder, Carries
  <2> QED BY <1>4, <2>1, <2>2 DEF SentInOrder
<1>7. SenderTypes'
  BY <1>4 DEF IInv, TypeOK, SenderTypes
<1>8. Len(toReceiver') \in Nat /\ Len(toReceiver) = Len(toReceiver') + 1
  BY <1>2, ThinnedPlaces
<1> QED BY <1>2, <1>3, <1>5, <1>6, <1>7, <1>8

\* What is behind the head stays led, in the cases of LedTail.
LEMMA RestLed ==
    ASSUME IInv, toReceiver # <<>>, toReceiver' = Tail(toReceiver), UNCHANGED sendVars, NEW next,
           \/ next = {}
           \/ next = Open /\ Head(toReceiver).pci \in {"CF", "foreign"}
           \/ next = {From(Head(toReceiver))} /\ Head(toReceiver).pci = "FF"
    PROVE  /\ losses = 0 \/ faults = 0 =>
                 /\ BusLed(toReceiver', next)
                 /\ spc = "cf" => Led(toReceiver', next, msg, Len(toReceiver'))
           /\ losses = 0 /\ spc = "wait_fc" => Led(toReceiver', next, msg, Len(toReceiver'))
<1>1. /\ Thinned(toReceiver, 1, toReceiver') /\ Head(toReceiver) = toReceiver[1]
      /\ Len(toReceiver') \in Nat /\ Len(toReceiver') < Len(toReceiver)
      /\ Len(toReceiver) = Len(toReceiver') + 1
  BY BusLosesHead
<1>2. ASSUME Led(toReceiver, Open, msg, Len(toReceiver))
      PROVE  Led(toReceiver', next, msg, Len(toReceiver'))
  <2>1. Led(toReceiver, Open, msg, Len(toReceiver') + 1)
    BY <1>1, <1>2
  <2> QED BY <1>1, <2>1, LedTail
<1>3. ASSUME losses = 0 \/ faults = 0
      PROVE  /\ BusLed(toReceiver', next)
             /\ spc = "cf" => Led(toReceiver', next, msg, Len(toReceiver'))
  <2>1. AllLed
    BY <1>3 DEF IInv
  <2>2. BusLed(toReceiver', next)
    BY <1>1, <2>1, BusLedTail DEF AllLed
  <2> QED BY <1>2, <2>1, <2>2 DEF AllLed
<1>4. ASSUME losses = 0, spc = "wait_fc" PROVE Led(toReceiver', next, msg, Len(toReceiver'))
  BY <1>2, <1>4 DEF IInv, FirstGoesAhead
<1> QED BY <1>3, <1>4

\* Without faults, nothing is on its way back while the receiver has frames,
\* and a first frame is the last of them.
LEMMA TokenWithReceiver ==
    ASSUME IInv, faults = 0, toReceiver # <<>>, toReceiver' = Tail(toReceiver), UNCHANGED sendVars
    PROVE  /\ toSender = <<>>
           /\ \A i \in 1..Len(toReceiver') :
                 toReceiver'[i].pci = "FF" =>
                     /\ i = Len(toReceiver') /\ spc = "wait_fc" /\ From(toReceiver'[i]) = msg
           /\ Head(toReceiver).pci = "FF" =>
                 toReceiver' = <<>> /\ spc = "wait_fc" /\ From(Head(toReceiver)) = msg
<1>1. OneToken
  BY DEF IInv
<1>2. /\ Thinned(toReceiver, 1, toReceiver') /\ Head(toReceiver) = toReceiver[1]
      /\ 1 \in 1..Len(toReceiver) /\ Len(toReceiver') \in Nat
      /\ Len(toReceiver) = Len(toReceiver') + 1
  BY BusLosesHead
<1>3. toSender = <<>>
  BY <1>1 DEF OneToken
<1>4. ASSUME NEW i \in 1..Len(toReceiver'), toReceiver'[i].pci = "FF"
      PROVE  i = Len(toReceiver') /\ spc = "wait_fc" /\ From(toReceiver'[i]) = msg
  <2>1. i + 1 \in 1..Len(toReceiver) /\ toReceiver'[i] = toReceiver[i + 1]
    BY <1>2 DEF Thinned, Before
  <2>2. i + 1 = Len(toReceiver) /\ spc = "wait_fc" /\ From(toReceiver[i + 1]) = msg
    BY <1>1, <1>4, <2>1 DEF OneToken
  <2>3. i = Len(toReceiver')
    BY ONLY <1>2, <2>2, i \in 1..Len(toReceiver')
  <2>4. From(toReceiver'[i]) = msg
    BY <2>1, <2>2
  <2> QED BY <2>2, <2>3, <2>4
<1>5. ASSUME Head(toReceiver).pci = "FF"
      PROVE  toReceiver' = <<>> /\ spc = "wait_fc" /\ From(Head(toReceiver)) = msg
  <2>1. 1 = Len(toReceiver) /\ spc = "wait_fc" /\ From(toReceiver[1]) = msg
    BY <1>1, <1>2, <1>5 DEF OneToken
  <2>2. Len(toReceiver') = 0 /\ toReceiver' \in Seq(Frames)
    BY <1>2, <2>1 DEF Thinned
  <2>3. toReceiver' = <<>>
    BY <2>2, EmptySeq
  <2> QED BY <1>2, <2>1, <2>3
<1> QED BY <1>3, <1>4, <1>5

\* A frame leaves the receiver idle, and what it returns is a message.
LEMMA EndsIdleIInv ==
    ASSUME IInv, toReceiver # <<>>, toReceiver' = Tail(toReceiver), UNCHANGED sendVars,
           receiving' = FALSE, next_sn' \in 0..15, crLate' \in BOOLEAN,
           buf' \in Seq(PayloadBytes), total_len' \in Nat, toSender' = toSender,
           losses' = losses, faults' \in Nat, faults' = 0 => faults = 0,
           losses = 0 \/ faults = 0 =>
               \A b \in delivered' : b \in delivered \/ \E m \in started : b = Payload(m)
    PROVE  IInv'
<1>1. BusOK(toReceiver', started') /\ SentInOrder' /\ SenderTypes'
  BY BusLosesHead
<1>2. UNCHANGED <<spc, msg, offset, sn, fcLate, started>>
  BY DEF sendVars
<1>3. TypeOK'
  <2>1. ReceiverTypes' /\ CountTypes'
    BY DEF IInv, TypeOK, ReceiverTypes, CountTypes
  <2> QED BY <1>1, <2>1, TypeParts
<1>4. LocalsOK'
  BY <1>1, <1>2 DEF IInv, LocalsOK
<1>5. Open' = {}
  BY DEF Open
<1>6. ASSUME losses' = 0 \/ faults' = 0 PROVE AllLed' /\ TransferOK'
  <2>1. /\ BusLed(toReceiver', {})
        /\ spc = "cf" => Led(toReceiver', {}, msg, Len(toReceiver'))
    BY <1>6, RestLed
  <2> QED BY <1>2, <1>5, <2>1 DEF AllLed, TransferOK
<1>7. ASSUME losses' = 0 PROVE FirstGoesAhead'
  <2>1. spc = "wait_fc" => Led(toReceiver', {}, msg, Len(toReceiver'))
    BY <1>7, RestLed
  <2> QED BY <1>2, <1>5, <2>1 DEF FirstGoesAhead
<1>8. ASSUME faults' = 0 PROVE OneToken'
  BY <1>2, <1>8, TokenWithReceiver DEF OneToken
<1>9. Integrity'
  BY <1>2 DEF IInv, Integrity
<1> QED BY <1>1, <1>3, <1>4, <1>6, <1>7, <1>8, <1>9 DEF IInv

\* A foreign frame changes nothing.
LEMMA SkipsForeignIInv ==
    ASSUME IInv, toReceiver # <<>>, toReceiver' = Tail(toReceiver), UNCHANGED sendVars,
           Head(toReceiver).pci = "foreign",
           UNCHANGED <<receiving, total_len, next_sn, buf, crLate, delivered, toSender,
                       losses, faults>>
    PROVE  IInv'
<1>1. /\ BusOK(toReceiver', started') /\ SentInOrder' /\ SenderTypes'
      /\ Thinned(toReceiver, 1, toReceiver')
  BY BusLosesHead
<1>2. UNCHANGED <<spc, msg, offset, sn, fcLate, started>>
  BY DEF sendVars
<1>3. TypeOK'
  <2>1. ReceiverTypes' /\ CountTypes'
    BY DEF IInv, TypeOK, ReceiverTypes, CountTypes
  <2> QED BY <1>1, <2>1, TypeParts
<1>4. LocalsOK'
  BY <1>1, <1>2 DEF IInv, LocalsOK
<1>5. Open' = Open
  BY DEF Open, Current
<1>6. ASSUME losses = 0 \/ faults = 0 PROVE AllLed' /\ TransferOK'
  <2>1. /\ BusLed(toReceiver', Open)
        /\ spc = "cf" => Led(toReceiver', Open, msg, Len(toReceiver'))
    BY <1>6, RestLed
  <2>2. \A n \in Nat : ComesAfter(toReceiver, Current, n) => ComesAfter(toReceiver', Current, n)
    BY <1>1, ComesAfterThinned
  <2>3. TransferOK
    BY <1>6 DEF IInv
  <2>4. TransferOK'
    BY <1>2, <2>2, <2>3, TransferKept
  <2> QED BY <1>2, <1>5, <2>1, <2>4 DEF AllLed
<1>7. ASSUME losses = 0 PROVE FirstGoesAhead'
  <2>1. spc = "wait_fc" => Led(toReceiver', Open, msg, Len(toReceiver'))
    BY <1>7, RestLed
  <2> QED BY <1>2, <1>5, <2>1 DEF FirstGoesAhead
<1>8. ASSUME faults = 0 PROVE OneToken'
  BY <1>2, <1>8, TokenWithReceiver DEF OneToken
<1>9. Integrity'
  BY <1>2 DEF IInv, Integrity
<1> QED BY <1>1, <1>3, <1>4, <1>6, <1>7, <1>8, <1>9 DEF IInv

\* A first frame the receiver takes starts a clean transfer.
LEMMA BeginsIInv ==
    ASSUME IInv, toReceiver # <<>>, toReceiver' = Tail(toReceiver), UNCHANGED sendVars,
           Head(toReceiver).pci = "FF", GoodFirst(Head(toReceiver)),
           BeginReassembly(Head(toReceiver)), UNCHANGED <<losses, faults>>
    PROVE  IInv'
<1> DEFINE f == Head(toReceiver)
           m == From(f)
<1>1. /\ BusOK(toReceiver', started') /\ SentInOrder' /\ SenderTypes'
      /\ FrameOK(f, started)
  BY BusLosesHead
<1>2. UNCHANGED <<spc, msg, offset, sn, fcLate, started>>
  BY DEF sendVars
<1>3. m \in started /\ m \in Messages /\ Length(m) > 7 /\ f = FirstFrame(m)
  BY <1>1 DEF FrameOK, IInv, TypeOK
<1>4. /\ FirstLength(f) = Length(m) /\ Length(m) \in Nat /\ f.data \in Seq(PayloadBytes)
      /\ Len(f.data) = 6 /\ \A i \in 1..6 : f.data[i] = <<m, i>>
  <2>1. /\ f \in Frames /\ FirstLength(f) = Length(m)
        /\ Len(f.data) = 6 /\ \A i \in 1..6 : f.data[i] = <<m, i>>
    BY <1>3, FirstFrameFacts
  <2>2. Length(m) \in Nat
    BY <1>3, LengthType
  <2> HIDE DEF f, m
  <2>3. f.data \in Seq(PayloadBytes)
    BY <2>1 DEF Frames
  <2> QED BY <2>1, <2>2, <2>3
<1>5. /\ receiving' = TRUE /\ total_len' = Length(m) /\ next_sn' = 1 /\ buf' = f.data
      /\ crLate' = FALSE /\ toSender' = Append(toSender, Flow(CTS)) /\ delivered' = delivered
  BY <1>4 DEF BeginReassembly
<1>6. Length(m) <= OutCap
  BY <1>4 DEF GoodFirst
<1>7. Open' = {m} /\ Current' = m
  <2>1. buf'[1] = <<m, 1>>
    BY <1>4, <1>5
  <2> QED BY <1>5, <2>1 DEF Open, Current
<1>8. f.pci = "FF"
  OBVIOUS
<1>9. /\ losses = 0 \/ faults = 0 =>
            /\ BusLed(toReceiver', {m})
            /\ spc = "cf" => Led(toReceiver', {m}, msg, Len(toReceiver'))
      /\ losses = 0 /\ spc = "wait_fc" => Led(toReceiver', {m}, msg, Len(toReceiver'))
  BY <1>8, RestLed
<1> HIDE DEF m, f
<1>10. TypeOK'
  <2>1. ReceiverTypes'
    <3>1. crLate' \in BOOLEAN /\ receiving' \in BOOLEAN
      BY <1>5
    <3>2. Len(buf') = 6 /\ total_len' = Length(m) /\ total_len' <= OutCap
      BY <1>4, <1>5, <1>6
    <3>3. Len(buf') < total_len'
      BY ONLY <1>3, <1>4, <3>2
    <3> QED BY <1>5, <3>1, <3>2, <3>3 DEF ReceiverTypes
  <2>2. CountTypes'
    BY DEF IInv, TypeOK, CountTypes
  <2> QED BY <1>1, <2>1, <2>2, TypeParts
<1>11. LocalsOK'
  <2>1. toSender' \in Seq(BackFrames)
    <3>1. Flow(CTS) \in BackFrames /\ toSender \in Seq(BackFrames)
      BY DEF BackFrames, IInv, LocalsOK
    <3> QED BY <1>5, <3>1, AppendProperties
  <2> QED BY <1>1, <1>2, <1>4, <1>5, <2>1 DEF IInv, LocalsOK
<1>12. AllLed' \/ ~(losses = 0 \/ faults = 0)
  BY <1>2, <1>7, <1>9 DEF AllLed
<1>13. TransferOK'
  <2>1. ComesAfter(toReceiver', m, 6)
    <3> SUFFICES ASSUME NEW i \in 1..Len(toReceiver'), Carries(toReceiver', i, m)
                 PROVE  At(toReceiver'[i]) >= 6
      BY DEF ComesAfter
    <3>1. OnGrid(At(toReceiver'[i]))
      BY <1>1 DEF BusOK, FrameOK, Carries
    <3> QED BY <3>1, Grid DEF OnGrid
  <2>2. spc' = "cf" => offset' >= 6
    <3>1. spc = "cf" => OnGrid(offset)
      BY DEF IInv, LocalsOK
    <3> QED BY <1>2, <3>1, Grid DEF OnGrid
  <2>3. StillToCome(6)'
    BY <1>7, <2>1, <2>2 DEF StillToCome
  <2> QED BY <1>2, <1>3, <1>4, <1>5, <1>7, <2>3, Grid DEF TransferOK
<1>14. ASSUME losses' = 0 PROVE FirstGoesAhead'
  BY <1>2, <1>7, <1>9, <1>14 DEF FirstGoesAhead
<1>15. ASSUME faults' = 0 PROVE OneToken'
  <2>1. toSender = <<>> /\ toReceiver' = <<>> /\ spc = "wait_fc" /\ m = msg
    BY <1>15, TokenWithReceiver DEF m, f
  <2>2. toSender' = <<Flow(CTS)>>
    BY ONLY <1>5, <2>1
  <2>3. Len(toReceiver') = 0
    BY ONLY <2>1, EmptySeq
  <2> QED BY <1>2, <1>5, <1>7, <2>1, <2>2, <2>3 DEF OneToken
<1>16. Integrity'
  BY <1>2, <1>5 DEF IInv, Integrity
<1> QED BY <1>1, <1>10, <1>11, <1>12, <1>13, <1>14, <1>15, <1>16 DEF IInv

\* What memcpy does in reassemble.
Copied(b, d, c, got) == got = b \o SubSeq(d, 1, c)

CopiedBytes(b, d, c, got) ==
    /\ got \in Seq(PayloadBytes) /\ Len(got) = Len(b) + c /\ Len(b) \in Nat
    /\ \A i \in 1..Len(b) : got[i] = b[i]
    /\ \A i \in 1..(Len(b) + c) : i > Len(b) => got[i] = d[i - Len(b)]

LEMMA ExtendedBytes ==
    ASSUME NEW b \in Seq(PayloadBytes), NEW d \in Seq(PayloadBytes), Len(d) = 7, NEW c \in 0..7,
           NEW got, Copied(b, d, c, got)
    PROVE  CopiedBytes(b, d, c, got)
<1> DEFINE e == SubSeq(d, 1, c)
<1>0. Len(b) \in Nat /\ c \in Nat /\ c <= 7
  BY LenProperties
<1>1. \A i \in 1..c : d[i] \in PayloadBytes
  <2> SUFFICES ASSUME NEW i \in 1..c PROVE d[i] \in PayloadBytes
    OBVIOUS
  <2>1. i \in 1..Len(d)
    BY <1>0
  <2> QED BY <2>1, ElementOfSeq
<1>2. e \in Seq(PayloadBytes) /\ Len(e) = c /\ \A i \in 1..c : e[i] = d[i]
  <2>1. /\ e \in Seq(PayloadBytes) /\ Len(e) = IF 1 <= c THEN c - 1 + 1 ELSE 0
        /\ \A i \in 1..(c - 1 + 1) : e[i] = d[1 + i - 1]
    BY <1>0, <1>1, SubSeqProperties
  <2> HIDE DEF e
  <2> QED BY <1>0, <2>1
<1> HIDE DEF e
<1>3. /\ got \in Seq(PayloadBytes) /\ Len(got) = Len(b) + Len(e)
      /\ \A i \in 1..(Len(b) + Len(e)) : got[i] = IF i <= Len(b) THEN b[i] ELSE e[i - Len(b)]
  <2>1. got = b \o e
    BY DEF e, Copied
  <2> QED BY <1>2, <2>1, ConcatProperties
<1>4. ASSUME NEW i \in 1..Len(b) PROVE got[i] = b[i]
  <2>1. i \in 1..(Len(b) + Len(e)) /\ i <= Len(b)
    BY <1>0, <1>2
  <2> QED BY <1>3, <2>1
<1>5. ASSUME NEW i \in 1..(Len(b) + c), i > Len(b) PROVE got[i] = d[i - Len(b)]
  <2>1. ~(i <= Len(b)) /\ i - Len(b) \in 1..c
    BY <1>0, <1>5
  <2> QED BY <1>2, <1>3, <2>1
<1> QED BY <1>0, <1>2, <1>3, <1>4, <1>5 DEF CopiedBytes

\* A consecutive frame the receiver meets in a transfer belongs to it.  It is
\* the next one, or one is missing; what comes behind it is later still.
LEMMA FrameInTransfer ==
    ASSUME IInv, losses = 0 \/ faults = 0, toReceiver # <<>>, toReceiver' = Tail(toReceiver),
           UNCHANGED sendVars, receiving, Head(toReceiver).pci = "CF",
           NEW a, a = At(Head(toReceiver))
    PROVE  /\ From(Head(toReceiver)) = Current /\ Current \in started
           /\ total_len = Length(Current) /\ a < Length(Current)
           /\ ~(Current = msg /\ spc = "wait_fc")
           /\ OnGrid(a) /\ OnGrid(Len(buf))
           /\ \/ a = Len(buf) /\ \A i \in 1..Len(buf) : buf[i] = <<Current, i>>
              \/ a >= Len(buf) + 7
           /\ ComesAfter(toReceiver', Current, a + 7)
           /\ spc = "cf" /\ msg = Current => offset >= a + 7
<1> DEFINE f == Head(toReceiver)
<1>1. /\ Thinned(toReceiver, 1, toReceiver') /\ f = toReceiver[1] /\ 1 \in 1..Len(toReceiver)
      /\ FrameOK(f, started) /\ Len(toReceiver) \in Nat /\ Len(toReceiver') \in Nat
      /\ Len(toReceiver) = Len(toReceiver') + 1 /\ BusOK(toReceiver', started')
  BY BusLosesHead
<1>2. AllLed /\ TransferOK /\ SentInOrder
  BY DEF IInv
<1>3. From(f) = Current
  <2>1. Led(toReceiver, Open, From(f), 1 - 1)
    BY <1>1, <1>2 DEF AllLed, BusLed
  <2>2. ~ \E i \in 1..(1 - 1) : FirstOf(toReceiver, i, From(f))
    OBVIOUS
  <2>3. Open \subseteq {From(f)}
    BY <2>1, <2>2 DEF Led
  <2> QED BY <2>3 DEF Open
<1>4. Carries(toReceiver, 1, Current)
  BY <1>1, <1>3 DEF Carries
<1>5. /\ Current \in started /\ total_len = Length(Current) /\ OnGrid(Len(buf))
      /\ OnGrid(a) /\ a < Length(Current)
  BY <1>1, <1>2, <1>3 DEF TransferOK, FrameOK
<1>6. Current = msg => spc = "cf" /\ a < offset
  BY <1>1, <1>2, <1>4 DEF SentInOrder
<1>7. a \in Nat /\ Len(buf) \in Nat
  BY <1>5 DEF OnGrid
<1>8. \/ a = Len(buf) /\ \A i \in 1..Len(buf) : buf[i] = <<Current, i>>
      \/ a >= Len(buf) + 7
  <2>1. ASSUME NEW n \in Nat, StillToCome(n) PROVE a >= n
    BY <1>1, <1>4, <2>1 DEF StillToCome, ComesAfter
  <2>2. \/ StillToCome(Len(buf)) /\ \A i \in 1..Len(buf) : buf[i] = <<Current, i>>
        \/ StillToCome(Len(buf) + 1)
    BY <1>2 DEF TransferOK
  <2>3. a > Len(buf) => a >= Len(buf) + 7
    BY <1>5, <1>7, Grid
  <2>4. \/ a >= Len(buf) /\ \A i \in 1..Len(buf) : buf[i] = <<Current, i>>
        \/ a >= Len(buf) + 1
    BY <1>7, <2>1, <2>2
  <2> QED BY <1>7, <2>3, <2>4
<1>9. ComesAfter(toReceiver', Current, a + 7)
  <2> SUFFICES ASSUME NEW i \in 1..Len(toReceiver'), Carries(toReceiver', i, Current)
               PROVE  At(toReceiver'[i]) >= a + 7
    BY DEF ComesAfter
  <2>1. toReceiver'[i] = toReceiver[i + 1]
    BY <1>1 DEF Thinned, Before
  <2>2. i + 1 \in 1..Len(toReceiver) /\ 1 < i + 1
    BY ONLY <1>1, i \in 1..Len(toReceiver')
  <2>3. a < At(toReceiver[i + 1])
    BY <1>1, <1>2, <1>3, <2>1, <2>2 DEF SentInOrder, InOrder, Carries
  <2>4. OnGrid(At(toReceiver[i + 1])) /\ At(toReceiver[i + 1]) \in Nat
    BY <1>1, <2>1 DEF BusOK, FrameOK, Carries, OnGrid
  <2> QED BY <1>5, <1>7, <2>1, <2>3, <2>4, Grid
<1>10. ASSUME spc = "cf", msg = Current PROVE offset >= a + 7
  <2>1. OnGrid(offset) /\ offset \in Nat
    BY <1>10 DEF IInv, LocalsOK, OnGrid
  <2> QED BY <1>5, <1>6, <1>7, <1>10, <2>1, Grid
<1> QED BY <1>3, <1>5, <1>6, <1>8, <1>9, <1>10

\* What reassemble has after a consecutive frame.
Got == buf \o SubSeq(Head(toReceiver).data, 1, Chunk(total_len - Len(buf)))

LEMMA GotFacts ==
    ASSUME IInv, toReceiver # <<>>, toReceiver' = Tail(toReceiver), UNCHANGED sendVars,
           receiving, Head(toReceiver).pci = "CF",
           NEW c, c = Chunk(total_len - Len(buf)), NEW f, f = Head(toReceiver)
    PROVE  /\ c \in 1..7 /\ Len(buf) \in Nat /\ total_len \in Nat /\ Len(buf) < total_len
           /\ total_len <= OutCap
           /\ Len(buf) + c = total_len \/ (c = 7 /\ Len(buf) + 7 < total_len)
           /\ Got \in Seq(PayloadBytes) /\ Len(Got) = Len(buf) + c
           /\ \A i \in 1..Len(buf) : Got[i] = buf[i]
           /\ \A i \in 1..(Len(buf) + c) :
                 i > Len(buf) => Got[i] = ByteOf(From(f), At(f), i - Len(buf))
<1>1. /\ buf \in Seq(PayloadBytes) /\ Len(buf) \in Nat /\ total_len \in Nat
      /\ Len(buf) < total_len /\ total_len <= OutCap
  BY LenProperties DEF IInv, LocalsOK, TypeOK
<1>2. /\ f.data \in Seq(PayloadBytes) /\ Len(f.data) = 7
      /\ \A i \in 1..7 : f.data[i] = ByteOf(From(f), At(f), i)
  BY BusLosesHead DEF FrameOK, Frames
<1>3. /\ c \in 1..7 /\ c \in 0..7
      /\ Len(buf) + c = total_len \/ (c = 7 /\ Len(buf) + 7 < total_len)
  BY <1>1 DEF Chunk
<1>4. Got = buf \o SubSeq(f.data, 1, c)
  BY DEF Got
<1>5. /\ Got \in Seq(PayloadBytes) /\ Len(Got) = Len(buf) + c
      /\ \A i \in 1..Len(buf) : Got[i] = buf[i]
      /\ \A i \in 1..(Len(buf) + c) : i > Len(buf) => Got[i] = f.data[i - Len(buf)]
  <2>1. PICK d, g : d = f.data /\ g = Got
    OBVIOUS
  <2>2. /\ buf \in Seq(PayloadBytes) /\ c \in 0..7 /\ d \in Seq(PayloadBytes) /\ Len(d) = 7
        /\ Copied(buf, d, c, g)
    BY <1>1, <1>2, <1>3, <1>4, <2>1 DEF Copied
  <2>3. CopiedBytes(buf, d, c, g)
    BY ONLY <2>2, ExtendedBytes
  <2> QED BY <2>1, <2>3 DEF CopiedBytes
<1>6. ASSUME NEW i \in 1..(Len(buf) + c), i > Len(buf)
      PROVE  Got[i] = ByteOf(From(f), At(f), i - Len(buf))
  <2>1. i - Len(buf) \in 1..7
    BY ONLY <1>1, <1>3, <1>6, i \in 1..(Len(buf) + c)
  <2> QED BY <1>2, <1>5, <1>6, <2>1
<1> QED BY <1>1, <1>3, <1>5, <1>6

\* A consecutive frame in place continues the prefix.
LEMMA GotClean ==
    ASSUME IInv, losses = 0 \/ faults = 0, toReceiver # <<>>, toReceiver' = Tail(toReceiver),
           UNCHANGED sendVars, receiving, Head(toReceiver).pci = "CF",
           At(Head(toReceiver)) = Len(buf), \A i \in 1..Len(buf) : buf[i] = <<Current, i>>
    PROVE  \A i \in 1..Len(Got) : Got[i] = <<Current, i>>
<1> DEFINE c == Chunk(total_len - Len(buf))
           f == Head(toReceiver)
<1>1. /\ c \in 1..7 /\ Len(buf) \in Nat /\ total_len \in Nat
      /\ Len(buf) + c = total_len \/ (c = 7 /\ Len(buf) + 7 < total_len)
      /\ Len(Got) = Len(buf) + c
      /\ \A i \in 1..Len(buf) : Got[i] = buf[i]
      /\ \A i \in 1..(Len(buf) + c) :
            i > Len(buf) => Got[i] = ByteOf(From(f), At(f), i - Len(buf))
  BY GotFacts
<1>2. From(f) = Current /\ total_len = Length(Current) /\ At(f) = Len(buf)
  BY FrameInTransfer
<1> HIDE DEF c, f
<1> SUFFICES ASSUME NEW i \in 1..Len(Got) PROVE Got[i] = <<Current, i>>
  OBVIOUS
<1>3. i \in 1..(Len(buf) + c)
  BY <1>1
<1>4. CASE i <= Len(buf)
  <2>1. i \in 1..Len(buf)
    BY ONLY <1>1, <1>3, <1>4
  <2> QED BY <1>1, <2>1
<1>5. CASE i > Len(buf)
  <2>1. Len(buf) + (i - Len(buf)) = i /\ i <= total_len
    BY ONLY <1>1, <1>3, <1>5
  <2>2. Got[i] = ByteOf(Current, Len(buf), i - Len(buf))
    BY <1>1, <1>2, <1>3, <1>5
  <2> QED BY <1>2, <2>1, <2>2 DEF ByteOf
<1> QED BY ONLY <1>1, <1>3, <1>4, <1>5

\* A transfer that is complete is a message: where a frame is missing, the
\* last one comes too early.
LEMMA CompleteIsMessage ==
    ASSUME IInv, losses = 0 \/ faults = 0, toReceiver # <<>>, toReceiver' = Tail(toReceiver),
           UNCHANGED sendVars, receiving, Head(toReceiver).pci = "CF", Len(Got) >= total_len
    PROVE  \E m \in started : Got = Payload(m)
<1> DEFINE c == Chunk(total_len - Len(buf))
           a == At(Head(toReceiver))
<1>1. /\ c \in 1..7 /\ Len(buf) \in Nat /\ total_len \in Nat
      /\ Len(buf) + c = total_len \/ (c = 7 /\ Len(buf) + 7 < total_len)
      /\ Got \in Seq(PayloadBytes) /\ Len(Got) = Len(buf) + c
  BY GotFacts
<1>2. /\ Current \in started /\ total_len = Length(Current) /\ a < Length(Current) /\ OnGrid(a)
      /\ \/ a = Len(buf) /\ \A i \in 1..Len(buf) : buf[i] = <<Current, i>>
         \/ a >= Len(buf) + 7
  BY FrameInTransfer
<1>3. a \in Nat
  BY <1>2 DEF OnGrid
<1>4. Current \in Messages
  BY <1>2 DEF IInv, TypeOK
<1> HIDE DEF c, a
<1>5. Len(Got) = total_len
  BY ONLY <1>1, Len(Got) >= total_len
<1>6. ~(a >= Len(buf) + 7)
  BY ONLY <1>1, <1>2, <1>3, <1>5
<1>7. \A i \in 1..Len(Got) : Got[i] = <<Current, i>>
  BY <1>2, <1>6, GotClean DEF a
<1>8. Got = Payload(Current)
  BY <1>1, <1>2, <1>4, <1>5, <1>7, IsPayload
<1> QED BY <1>2, <1>8

\* A transfer goes on.
LEMMA ExtendsIInv ==
    ASSUME IInv, toReceiver # <<>>, toReceiver' = Tail(toReceiver), UNCHANGED sendVars,
           receiving, Head(toReceiver).pci = "CF", Len(Got) < total_len, buf' = Got,
           next_sn' = (next_sn + 1) % SN_MOD, crLate' = FALSE,
           UNCHANGED <<receiving, total_len, delivered, toSender, losses, faults>>
    PROVE  IInv'
<1> DEFINE c == Chunk(total_len - Len(buf))
           a == At(Head(toReceiver))
<1>1. /\ BusOK(toReceiver', started') /\ SentInOrder' /\ SenderTypes'
  BY BusLosesHead
<1>2. UNCHANGED <<spc, msg, offset, sn, fcLate, started>>
  BY DEF sendVars
<1>3. /\ c \in 1..7 /\ Len(buf) \in Nat /\ total_len \in Nat /\ total_len <= OutCap
      /\ Len(buf) + c = total_len \/ (c = 7 /\ Len(buf) + 7 < total_len)
      /\ Got \in Seq(PayloadBytes) /\ Len(Got) = Len(buf) + c
      /\ \A i \in 1..Len(buf) : Got[i] = buf[i]
  BY GotFacts
<1> HIDE DEF c
<1>4. Len(Got) = Len(buf) + 7
  BY ONLY <1>3, Len(Got) < total_len
<1>5. TypeOK'
  <2>1. next_sn' \in 0..15
    <3>1. next_sn + 1 \in Nat
      BY DEF IInv, TypeOK
    <3> QED BY <3>1, SequenceNumbers
  <2>2. crLate' \in BOOLEAN /\ receiving' \in BOOLEAN
    BY DEF IInv, TypeOK
  <2>3. ReceiverTypes'
    BY <1>3, <2>1, <2>2 DEF ReceiverTypes
  <2>4. CountTypes'
    BY DEF IInv, TypeOK, CountTypes
  <2> QED BY <1>1, <2>3, <2>4, TypeParts
<1>6. LocalsOK'
  BY <1>1, <1>2, <1>3 DEF IInv, LocalsOK
<1>7. ASSUME losses = 0 \/ faults = 0
      PROVE  /\ Current' = Current /\ Open' = Open
  <2>1. OnGrid(Len(buf))
    BY <1>7, FrameInTransfer
  <2>2. 1 \in 1..Len(buf)
    BY <1>3, <2>1, Grid
  <2>3. Got[1] = buf[1]
    BY <1>3, <2>2
  <2> QED BY <2>3 DEF Current, Open
<1>8. ASSUME losses = 0 \/ faults = 0 PROVE AllLed'
  <2>1. /\ BusLed(toReceiver', Open)
        /\ spc = "cf" => Led(toReceiver', Open, msg, Len(toReceiver'))
    BY <1>8, RestLed
  <2> QED BY <1>2, <1>7, <1>8, <2>1 DEF AllLed
<1>9. ASSUME losses = 0 \/ faults = 0 PROVE TransferOK'
  <2>1. /\ Current \in started /\ total_len = Length(Current) /\ OnGrid(a) /\ OnGrid(Len(buf))
        /\ ~(Current = msg /\ spc = "wait_fc")
        /\ \/ a = Len(buf) /\ \A i \in 1..Len(buf) : buf[i] = <<Current, i>>
           \/ a >= Len(buf) + 7
        /\ ComesAfter(toReceiver', Current, a + 7)
        /\ spc = "cf" /\ msg = Current => offset >= a + 7
    BY <1>9, FrameInTransfer
  <2>2. a \in Nat /\ OnGrid(Len(Got))
    BY <1>3, <1>4, <2>1, Grid DEF OnGrid
  <2>3. CASE a = Len(buf) /\ \A i \in 1..Len(buf) : buf[i] = <<Current, i>>
    <3>1. \A i \in 1..Len(Got) : Got[i] = <<Current, i>>
      BY <1>9, <2>3, GotClean DEF a
    <3>2. a + 7 = Len(buf')
      BY <1>4, <2>3
    <3> HIDE DEF a
    <3>3. StillToCome(Len(buf))'
      BY <1>2, <1>7, <1>9, <2>1, <3>2 DEF StillToCome
    <3> QED BY <1>2, <1>7, <1>9, <2>1, <2>2, <3>1, <3>3 DEF TransferOK
  <2>4. CASE a >= Len(buf) + 7
    <3> HIDE DEF a
    <3>1. a + 7 >= Len(buf') + 1 /\ Len(buf') + 1 \in Nat /\ a + 7 \in Nat
      BY <1>3, <1>4, <2>2, <2>4
    <3>2. ComesAfter(toReceiver', Current, Len(buf') + 1)
      <4> SUFFICES ASSUME NEW i \in 1..Len(toReceiver'), Carries(toReceiver', i, Current)
                   PROVE  At(toReceiver'[i]) >= Len(buf') + 1
        BY DEF ComesAfter
      <4>1. At(toReceiver'[i]) >= a + 7
        BY <2>1 DEF ComesAfter
      <4>2. At(toReceiver'[i]) \in Nat
        BY <1>1 DEF BusOK, FrameOK, Carries, OnGrid
      <4> QED BY ONLY <3>1, <4>1, <4>2
    <3>3. spc = "cf" /\ msg = Current => offset >= Len(buf') + 1
      <4>1. spc = "cf" => offset \in Nat
        BY DEF IInv, LocalsOK, OnGrid
      <4> QED BY ONLY <2>1, <3>1, <4>1
    <3>4. StillToCome(Len(buf) + 1)'
      BY <1>2, <1>7, <1>9, <3>2, <3>3 DEF StillToCome
    <3> QED BY <1>2, <1>7, <1>9, <2>1, <2>2, <3>4 DEF TransferOK
  <2> QED BY <2>1, <2>3, <2>4
<1>10. ASSUME losses = 0 PROVE FirstGoesAhead'
  <2>1. spc = "wait_fc" => Led(toReceiver', Open, msg, Len(toReceiver'))
    BY <1>10, RestLed
  <2> QED BY <1>2, <1>7, <1>10, <2>1 DEF FirstGoesAhead
<1>11. ASSUME faults = 0 PROVE OneToken'
  BY <1>2, <1>11, TokenWithReceiver DEF OneToken
<1>12. Integrity'
  BY <1>2 DEF IInv, Integrity
<1> QED BY <1>1, <1>5, <1>6, <1>8, <1>9, <1>10, <1>11, <1>12 DEF IInv

\* isotp_recv takes a frame.
LEMMA RecvIInv == IInv /\ Recv => IInv'
<1> SUFFICES ASSUME IInv, Recv PROVE IInv'
  OBVIOUS
<1> DEFINE f == Head(toReceiver)
<1>1. /\ toReceiver # <<>> /\ toReceiver' = Tail(toReceiver) /\ UNCHANGED sendVars
      /\ UNCHANGED <<losses, faults>>
  BY DEF Recv
<1>2. \/ f.pci = "foreign" /\ Ignored
      \/ f.pci # "foreign" /\ ~receiving /\ RecvIdle(f)
      \/ f.pci # "foreign" /\ receiving /\ RecvReassembling(f)
  BY DEF Recv
<1>3. f \in Frames /\ FrameOK(f, started)
  BY <1>1, BusLosesHead
<1>4. losses \in Nat /\ faults \in Nat
  BY DEF IInv, TypeOK
<1>5. CASE f.pci = "foreign" /\ Ignored
  BY <1>1, <1>5, SkipsForeignIInv DEF Ignored, recvVars
<1>6. ASSUME ~receiving, Ignored PROVE IInv'
  <2>1. UNCHANGED <<receiving, total_len, next_sn, buf, crLate, delivered, toSender>>
    BY <1>6 DEF Ignored, recvVars
  <2>2. receiving \in BOOLEAN /\ next_sn \in 0..15 /\ crLate \in BOOLEAN
    BY DEF IInv, TypeOK
  <2>3. receiving' = FALSE
    BY <1>6, <2>1, <2>2
  <2>4. buf \in Seq(PayloadBytes) /\ total_len \in Nat
    BY DEF IInv, LocalsOK
  <2> QED BY <1>1, <1>4, <2>1, <2>2, <2>3, <2>4, EndsIdleIInv
<1>7. ASSUME Fresh, UNCHANGED toSender,
             losses = 0 \/ faults = 0 =>
                 \A b \in delivered' : b \in delivered \/ \E m \in started : b = Payload(m)
      PROVE  IInv'
  <2>1. receiving' = FALSE /\ total_len' = 0 /\ next_sn' = 1 /\ buf' = <<>> /\ crLate' = FALSE
    BY <1>7 DEF Fresh
  <2>2. next_sn' \in 0..15 /\ buf' \in Seq(PayloadBytes) /\ total_len' \in Nat
    BY <2>1, EmptySeq
  <2>3. crLate' \in BOOLEAN
    BY <2>1
  <2> QED BY <1>1, <1>4, <1>7, <2>1, <2>2, <2>3, EndsIdleIInv
<1>8. ASSUME Abandoned PROVE IInv'
  BY <1>7, <1>8 DEF Abandoned
<1>9. CASE ~receiving /\ RecvIdle(f)
  <2>1. CASE f.pci = "SF" /\ GoodSingle(f) /\ Returned(SubSeq(f.data, 1, f.low))
    <3>1. From(f) \in started /\ From(f) \in Messages /\ Length(From(f)) <= 7
      BY <1>3, <2>1 DEF FrameOK, IInv, TypeOK
    <3>2. SubSeq(f.data, 1, f.low) = Payload(From(f))
      BY <1>3, <2>1, <3>1, SingleFrameFacts DEF FrameOK
    <3>3. /\ Fresh /\ UNCHANGED toSender
          /\ delivered' = delivered \cup {Payload(From(f))}
      BY <2>1, <3>2 DEF Returned
    <3> HIDE DEF f
    <3> QED BY <1>7, <3>1, <3>3
  <2>2. CASE f.pci = "FF" /\ GoodFirst(f) /\ BeginReassembly(f)
    BY <1>1, <2>2, BeginsIInv
  <2>3. CASE Ignored
    BY <1>6, <1>9, <2>3
  <2> QED BY <1>9, <2>1, <2>2, <2>3 DEF RecvIdle
<1>10. CASE receiving /\ RecvReassembling(f)
  <2>1. CASE Abandoned
    BY <1>8, <2>1
  <2>2. CASE f.pci = "CF" /\ Extend(f)
    <3>1. \/ Len(Got) >= total_len /\ Returned(Got)
          \/ /\ Len(Got) < total_len
             /\ buf' = Got
             /\ next_sn' = (next_sn + 1) % SN_MOD
             /\ crLate' = FALSE
             /\ UNCHANGED <<receiving, total_len, delivered, toSender>>
      BY <2>2 DEF Extend, Got
    <3>2. CASE Len(Got) >= total_len /\ Returned(Got)
      <4>1. losses = 0 \/ faults = 0 => \E m \in started : Got = Payload(m)
        BY <1>1, <1>10, <2>2, <3>2, CompleteIsMessage
      <4>2. Fresh /\ UNCHANGED toSender /\ delivered' = delivered \cup {Got}
        BY <3>2 DEF Returned
      <4> QED BY <1>7, <4>1, <4>2
    <3>3. CASE /\ Len(Got) < total_len
               /\ buf' = Got
               /\ next_sn' = (next_sn + 1) % SN_MOD
               /\ crLate' = FALSE
               /\ UNCHANGED <<receiving, total_len, delivered, toSender>>
      BY <1>1, <1>10, <2>2, <3>3, ExtendsIInv
    <3> QED BY <3>1, <3>2, <3>3
  <2> QED BY <1>10, <2>1, <2>2 DEF RecvReassembling
<1> QED BY <1>2, <1>5, <1>9, <1>10

-----------------------------------------------------------------------------
(* Losses and faults preserve the invariant. *)

\* A frame to the receiver is lost.  Without faults no consecutive frame that
\* is on its way relies on a first frame that is.
LEMMA LoseForwardIInv ==
    ASSUME IInv, NEW p \in 1..Len(toReceiver), toReceiver' = Without(toReceiver, p),
           losses' = losses + 1,
           UNCHANGED <<toSender, spc, msg, offset, sn, fcLate, started, receiving, total_len,
                       next_sn, buf, crLate, delivered, faults>>
    PROVE  IInv'
<1>1. BusOK(toReceiver, started) /\ toReceiver \in Seq(Frames)
  BY DEF IInv, LocalsOK, BusOK
<1>2. Thinned(toReceiver, p, toReceiver')
  BY <1>1, WithoutThins
<1>3. /\ Len(toReceiver) \in Nat /\ Len(toReceiver') \in Nat /\ p \in Nat
      /\ Len(toReceiver') = Len(toReceiver) - 1
      /\ \A j \in 1..Len(toReceiver') :
            Before(p, j) \in 1..Len(toReceiver) /\ toReceiver'[j] = toReceiver[Before(p, j)]
  BY <1>2, ThinnedPlaces
<1>4. losses \in Nat /\ losses' \in Nat /\ losses' # 0
  <2>1. losses \in Nat
    BY DEF IInv, TypeOK
  <2> QED BY ONLY <2>1, losses' = losses + 1
<1>5. TypeOK'
  BY <1>4 DEF IInv, TypeOK
<1>6. LocalsOK'
  <2>1. BusOK(toReceiver', started)
    BY <1>1, <1>2, BusThinned
  <2> QED BY <2>1 DEF IInv, LocalsOK
<1>7. SentInOrder'
  <2>1. InOrder(toReceiver')
    BY <1>2, OrderThinned DEF IInv, SentInOrder
  <2>2. ASSUME NEW i \in 1..Len(toReceiver'), Carries(toReceiver', i, msg)
        PROVE  spc = "cf" /\ At(toReceiver'[i]) < offset
    <3>1. Before(p, i) \in 1..Len(toReceiver) /\ toReceiver'[i] = toReceiver[Before(p, i)]
      BY <1>3
    <3> QED BY <2>2, <3>1 DEF IInv, SentInOrder, Carries
  <2> QED BY <2>1, <2>2 DEF SentInOrder
<1>8. ASSUME faults = 0 PROVE AllLed' /\ TransferOK' /\ OneToken'
  <2>1. AllLed /\ TransferOK /\ OneToken
    BY <1>8 DEF IInv
  <2>2. Open' = Open
    BY DEF Open, Current
  <2>3. BusLed(toReceiver', Open)
    BY <1>2, <2>1, BusLedThinned DEF AllLed, OneToken
  <2>4. ASSUME spc = "cf" PROVE Led(toReceiver', Open, msg, Len(toReceiver'))
    <3>1. \A i \in 1..Len(toReceiver) : toReceiver[i].pci # "FF"
      BY <2>1, <2>4 DEF OneToken
    <3>2. \A i \in 1..Len(toReceiver') : Before(p, i) <= Len(toReceiver)
      BY <1>3
    <3>3. Led(toReceiver, Open, msg, Len(toReceiver))
      BY <2>1, <2>4 DEF AllLed
    <3>4. Len(toReceiver') \in 0..Len(toReceiver') /\ Len(toReceiver) <= Len(toReceiver)
      BY ONLY <1>3
    <3> QED BY <1>2, <1>3, <3>1, <3>2, <3>3, <3>4, LedThinned
  <2>5. AllLed'
    BY <2>2, <2>3, <2>4 DEF AllLed
  <2>6. \A n \in Nat : ComesAfter(toReceiver, Current, n) => ComesAfter(toReceiver', Current, n)
    BY <1>2, ComesAfterThinned
  <2>7. TransferOK'
    BY <2>1, <2>6, TransferKept
  <2>8. toSender = <<>>
    <3>1. toReceiver # <<>>
      BY <1>3, EmptySeq
    <3> QED BY <2>1, <3>1 DEF OneToken
  <2>9. ASSUME NEW i \in 1..Len(toReceiver'), toReceiver'[i].pci = "FF"
        PROVE  i = Len(toReceiver') /\ spc = "wait_fc" /\ From(toReceiver'[i]) = msg
    <3>1. Before(p, i) \in 1..Len(toReceiver) /\ toReceiver'[i] = toReceiver[Before(p, i)]
      BY <1>3
    <3>2. /\ Before(p, i) = Len(toReceiver) /\ spc = "wait_fc"
          /\ From(toReceiver[Before(p, i)]) = msg
      BY <2>1, <2>9, <3>1 DEF OneToken
    <3>3. i = Len(toReceiver')
      BY ONLY <1>3, <3>2, i \in 1..Len(toReceiver') DEF Before
    <3>4. From(toReceiver'[i]) = msg
      BY <3>1, <3>2
    <3> QED BY <3>2, <3>3, <3>4
  <2>10. OneToken'
    BY <2>8, <2>9 DEF OneToken
  <2> QED BY <2>5, <2>7, <2>10
<1>9. Integrity'
  BY <1>4 DEF IInv, Integrity
<1> QED BY <1>4, <1>5, <1>6, <1>7, <1>8, <1>9 DEF IInv

\* Any frame is lost.
LEMMA LoseIInv == IInv /\ Lose => IInv'
<1> SUFFICES ASSUME IInv, Lose PROVE IInv'
  OBVIOUS
<1>1. /\ losses' = losses + 1
      /\ UNCHANGED <<spc, msg, offset, sn, fcLate, started, receiving, total_len, next_sn, buf,
                     crLate, delivered, faults>>
  BY DEF Lose, sendVars, recvVars
<1>2. CASE \E p \in 1..Len(toReceiver) :
              toReceiver' = Without(toReceiver, p) /\ UNCHANGED toSender
  BY <1>1, <1>2, LoseForwardIInv
<1>3. CASE \E p \in 1..Len(toSender) :
              toSender' = Without(toSender, p) /\ UNCHANGED toReceiver
  <2>1. PICK p \in 1..Len(toSender) :
              toSender' = Without(toSender, p) /\ UNCHANGED toReceiver
    BY <1>3
  <2>2. toSender \in Seq(BackFrames)
    BY DEF IInv, LocalsOK
  <2>3. toSender' \in Seq(BackFrames) /\ Len(toSender') = Len(toSender) - 1
    BY <2>1, <2>2, WithoutFacts
  <2>4. losses \in Nat /\ faults \in Nat /\ losses' \in Nat /\ losses' # 0
    <3>1. losses \in Nat /\ faults \in Nat
      BY DEF IInv, TypeOK
    <3> QED BY ONLY <1>1, <3>1
  <2>5. fcLate' \in BOOLEAN /\ crLate' \in BOOLEAN
    BY <1>1 DEF IInv, TypeOK
  <2>6. ASSUME faults = 0 PROVE toSender' = <<>>
    <3>1. toSender # <<>>
      BY <2>2, EmptySeq
    <3>2. Len(toSender) = 1
      BY <2>6, <3>1 DEF IInv, OneToken
    <3>3. Len(toSender') = 0
      BY ONLY <2>3, <3>2
    <3> QED BY <2>3, <3>3, EmptySeq
  <2> QED BY <1>1, <2>1, <2>3, <2>4, <2>5, <2>6, RestIInv
<1> QED BY <1>2, <1>3 DEF Lose

\* isotp_send fails before it has sent anything.
LEMMA NothingSentIInv ==
    ASSUME IInv, spc = "idle", NEW m \in Messages, started' = started \cup {m},
           faults' \in Nat, faults' # 0,
           UNCHANGED <<toReceiver, toSender, spc, msg, offset, sn, fcLate, receiving, total_len,
                       next_sn, buf, crLate, delivered, losses>>
    PROVE  IInv'
<1>1. TypeOK'
  BY DEF IInv, TypeOK
<1>2. LocalsOK'
  <2>1. BusOK(toReceiver', started')
    BY BusMore DEF IInv, LocalsOK
  <2> QED BY <2>1 DEF IInv, LocalsOK
<1>3. SentInOrder'
  BY DEF IInv, SentInOrder
<1>4. ASSUME losses = 0 PROVE AllLed' /\ TransferOK'
  <2>1. AllLed /\ TransferOK
    BY <1>4 DEF IInv
  <2>2. Open' = Open
    BY DEF Open, Current
  <2>3. AllLed'
    BY <2>1, <2>2 DEF AllLed
  <2>4. TransferOK'
    BY <2>1, TransferKept
  <2> QED BY <2>3, <2>4
<1>5. Integrity'
  BY DEF IInv, Integrity
<1> QED BY <1>1, <1>2, <1>3, <1>4, <1>5 DEF IInv, FirstGoesAhead

\* isotp_recv returns early; whatever follows finds it idle.
LEMMA RecvInterruptedIInv ==
    ASSUME IInv, Abandoned, UNCHANGED <<toReceiver, sendVars, losses>>,
           faults' \in Nat, faults' # 0
    PROVE  IInv'
<1>1. UNCHANGED <<toReceiver, toSender, spc, msg, offset, sn, fcLate, started, delivered, losses>>
  BY DEF sendVars, Abandoned
<1>2. receiving' = FALSE /\ total_len' = 0 /\ next_sn' = 1 /\ buf' = <<>> /\ crLate' = FALSE
  BY DEF Abandoned, Fresh
<1>3. TypeOK'
  <2>1. SenderTypes' /\ CountTypes'
    BY <1>1 DEF IInv, TypeOK, SenderTypes, CountTypes
  <2>2. crLate' \in BOOLEAN /\ receiving' \in BOOLEAN
    BY <1>2
  <2>3. ReceiverTypes'
    BY <1>2, <2>2 DEF ReceiverTypes
  <2> QED BY <2>1, <2>3, TypeParts
<1>4. LocalsOK' /\ SentInOrder'
  BY <1>1, <1>2 DEF IInv, LocalsOK, SentInOrder
<1>5. Open' = {}
  BY <1>2 DEF Open
<1>6. \A m, j : Led(toReceiver, Open, m, j) => Led(toReceiver, {}, m, j)
  BY DEF Led
<1>7. ASSUME losses = 0 PROVE AllLed' /\ TransferOK' /\ FirstGoesAhead'
  <2>1. AllLed /\ FirstGoesAhead
    BY <1>7 DEF IInv
  <2>2. AllLed'
    BY <1>1, <1>5, <1>6, <2>1 DEF AllLed, BusLed
  <2>3. FirstGoesAhead'
    BY <1>1, <1>5, <1>6, <2>1 DEF FirstGoesAhead
  <2> QED BY <1>2, <2>2, <2>3 DEF TransferOK
<1>8. Integrity'
  BY <1>1 DEF IInv, Integrity
<1> QED BY <1>1, <1>3, <1>4, <1>7, <1>8 DEF IInv

\* A frame of somebody else reaches the receiver.
LEMMA ForeignArrivesIInv ==
    ASSUME IInv, toReceiver' = Append(toReceiver, Foreign), faults' \in Nat, faults' # 0,
           UNCHANGED <<toSender, spc, msg, offset, sn, fcLate, started, receiving, total_len,
                       next_sn, buf, crLate, delivered, losses>>
    PROVE  IInv'
<1> DEFINE f == Foreign
<1>1. f \in Frames /\ f.pci = "foreign" /\ FrameOK(f, started)
  BY ForeignFacts DEF FrameOK
<1>2. toReceiver' = Append(toReceiver, f)
  OBVIOUS
<1> HIDE DEF f
<1>3. BusOK(toReceiver, started) /\ Appended(toReceiver, f, toReceiver')
  BY <1>1, <1>2, AppendAppends DEF IInv, LocalsOK, BusOK
<1>4. Len(toReceiver) \in Nat /\ Len(toReceiver') = Len(toReceiver) + 1
  BY <1>3, LenProperties DEF BusOK, Appended
<1>5. TypeOK'
  BY DEF IInv, TypeOK
<1>6. LocalsOK'
  <2>1. BusOK(toReceiver', started)
    BY <1>1, <1>3, BusAppended
  <2> QED BY <2>1 DEF IInv, LocalsOK
<1>7. SentInOrder'
  <2>1. InOrder(toReceiver')
    BY <1>1, <1>3, OrderAppended DEF IInv, SentInOrder
  <2>2. ASSUME NEW i \in 1..Len(toReceiver'), Carries(toReceiver', i, msg)
        PROVE  spc = "cf" /\ At(toReceiver'[i]) < offset
    <3>1. i # Len(toReceiver) + 1
      BY <1>1, <1>3, <2>2 DEF Appended, Carries
    <3>2. i \in 1..Len(toReceiver)
      BY ONLY <1>4, <3>1, i \in 1..Len(toReceiver')
    <3>3. toReceiver'[i] = toReceiver[i]
      BY <1>3, <3>2 DEF Appended
    <3> QED BY <2>2, <3>2, <3>3 DEF IInv, SentInOrder, Carries
  <2> QED BY <2>1, <2>2 DEF SentInOrder
<1>8. ASSUME losses = 0 PROVE AllLed' /\ TransferOK' /\ FirstGoesAhead'
  <2>1. AllLed /\ TransferOK /\ FirstGoesAhead
    BY <1>8 DEF IInv
  <2>2. Open' = Open
    BY DEF Open, Current
  <2>3. BusLed(toReceiver', Open)
    BY <1>1, <1>3, <2>1, BusLedAppended DEF AllLed
  <2>4. ASSUME Led(toReceiver, Open, msg, Len(toReceiver))
        PROVE  Led(toReceiver', Open, msg, Len(toReceiver'))
    BY <1>1, <1>3, <2>4, LedFurther
  <2>5. AllLed' /\ FirstGoesAhead'
    BY <2>1, <2>2, <2>3, <2>4 DEF AllLed, FirstGoesAhead
  <2>6. \A n \in Nat : ComesAfter(toReceiver, Current, n) => ComesAfter(toReceiver', Current, n)
    BY <1>1, <1>3, ComesAfterAppended
  <2>7. TransferOK'
    BY <2>1, <2>6, TransferKept
  <2> QED BY <2>5, <2>7
<1>9. Integrity'
  BY DEF IInv, Integrity
<1> QED BY <1>5, <1>6, <1>7, <1>8, <1>9 DEF IInv

\* Every fault.
LEMMA FaultIInv == IInv /\ Fault => IInv'
<1> SUFFICES ASSUME IInv, Fault PROVE IInv'
  OBVIOUS
<1>1. losses' = losses /\ losses \in Nat /\ faults' \in Nat /\ faults' # 0
  <2>1. losses' = losses /\ faults' = faults + 1
    BY DEF Fault
  <2>2. losses \in Nat /\ faults \in Nat
    BY DEF IInv, TypeOK
  <2> QED BY ONLY <2>1, <2>2
<1>2. fcLate \in BOOLEAN /\ crLate \in BOOLEAN /\ toSender \in Seq(BackFrames)
  BY DEF IInv, TypeOK, LocalsOK
<1>3. CASE SendFails
  <2>1. /\ UNCHANGED <<toReceiver, toSender, receiving, total_len, next_sn, buf, crLate,
                       delivered>>
        /\ \/ SendReturns /\ UNCHANGED started
           \/ /\ spc = "idle"
              /\ \E m \in Messages : started' = started \cup {m}
              /\ UNCHANGED <<spc, msg, offset, sn, fcLate>>
    BY <1>3 DEF SendFails, recvVars
  <2>2. CASE SendReturns /\ UNCHANGED started
    BY <1>1, <1>2, <2>1, <2>2, GiveUpIInv
  <2>3. CASE /\ spc = "idle"
             /\ \E m \in Messages : started' = started \cup {m}
             /\ UNCHANGED <<spc, msg, offset, sn, fcLate>>
    BY <1>1, <2>1, <2>3, NothingSentIInv
  <2> QED BY <2>1, <2>2, <2>3
<1>4. CASE FcSendFails
  <2>1. /\ toReceiver # <<>> /\ toReceiver' = Tail(toReceiver) /\ UNCHANGED sendVars
        /\ toSender' = toSender /\ delivered' = delivered
    BY <1>4 DEF FcSendFails, Abandoned
  <2>2. receiving' = FALSE /\ total_len' = 0 /\ next_sn' = 1 /\ buf' = <<>> /\ crLate' = FALSE
    BY <1>4 DEF FcSendFails, Abandoned, Fresh
  <2>3. next_sn' \in 0..15 /\ buf' \in Seq(PayloadBytes) /\ total_len' \in Nat
    BY <2>2, EmptySeq
  <2>4. crLate' \in BOOLEAN
    BY <2>2
  <2> QED BY <1>1, <2>1, <2>2, <2>3, <2>4, EndsIdleIInv
<1>5. CASE RecvInterrupted
  BY <1>1, <1>5, RecvInterruptedIInv DEF RecvInterrupted
<1>6. CASE FcDeadline
  <2>1. /\ UNCHANGED <<toReceiver, toSender, spc, msg, offset, sn, started, receiving, total_len,
                       next_sn, buf, crLate, delivered>>
        /\ fcLate' \in BOOLEAN
    BY <1>6 DEF FcDeadline, recvVars
  <2> QED BY <1>1, <1>2, <2>1, RestIInv
<1>7. CASE CrDeadline
  <2>1. /\ UNCHANGED <<toReceiver, toSender, spc, msg, offset, sn, fcLate, started, receiving,
                       total_len, next_sn, buf, delivered>>
        /\ crLate' \in BOOLEAN
    BY <1>7 DEF CrDeadline, sendVars
  <2> QED BY <1>1, <1>2, <2>1, RestIInv
<1>8. CASE Noise
  <2>1. UNCHANGED <<spc, msg, offset, sn, fcLate, started, receiving, total_len, next_sn, buf,
                    crLate, delivered>>
    BY <1>8 DEF Noise, sendVars, recvVars
  <2>2. CASE toReceiver' = Append(toReceiver, Foreign) /\ UNCHANGED toSender
    BY <1>1, <2>1, <2>2, ForeignArrivesIInv
  <2>3. CASE /\ \E f \in {Foreign, PeerRequest, Flow(WAIT), Flow(OVERFLOW)} :
                   toSender' = Append(toSender, f)
             /\ UNCHANGED toReceiver
    <3>1. PICK f \in BackFrames : toSender' = Append(toSender, f)
      BY <2>3 DEF BackFrames
    <3>2. toSender' \in Seq(BackFrames)
      BY <1>2, <3>1, AppendProperties
    <3> QED BY <1>1, <1>2, <2>1, <2>3, <3>2, RestIInv
  <2> QED BY <1>8, <2>2, <2>3 DEF Noise
<1> QED BY <1>3, <1>4, <1>5, <1>6, <1>7, <1>8 DEF Fault

-----------------------------------------------------------------------------
(* The theorems. *)

LEMMA NextIInv == IInv /\ [Next]_vars => IInv'
<1> SUFFICES ASSUME IInv, [Next]_vars PROVE IInv'
  OBVIOUS
<1>1. ASSUME NEW m \in Messages, SendSingle(m) PROVE IInv'
  BY <1>1, SendSingleIInv
<1>2. ASSUME NEW m \in Messages, SendFirst(m) PROVE IInv'
  BY <1>2, SendFirstIInv
<1>3. CASE Send
  BY <1>3, WaitForFcIInv, SendConsecutiveIInv DEF Send
<1>4. CASE Recv
  BY <1>4, RecvIInv
<1>5. CASE Lose
  BY <1>5, LoseIInv
<1>6. CASE Fault
  BY <1>6, FaultIInv
<1>7. CASE UNCHANGED vars
  <2>1. UNCHANGED <<toReceiver, toSender, spc, msg, offset, sn, fcLate, started, receiving,
                    total_len, next_sn, buf, crLate, delivered, losses, faults>>
    BY <1>7 DEF vars, sendVars, recvVars
  <2>2. /\ fcLate \in BOOLEAN /\ crLate \in BOOLEAN /\ losses \in Nat /\ faults \in Nat
        /\ toSender \in Seq(BackFrames)
    BY DEF IInv, TypeOK, LocalsOK
  <2> QED BY <2>1, <2>2, RestIInv
<1> QED BY <1>1, <1>2, <1>3, <1>4, <1>5, <1>6, <1>7 DEF Next

\* The inductive invariant holds of isotp_send and isotp_recv over can_io.
THEOREM IsoTpInvariant == Spec => []IInv
<1>1. Init => IInv
  BY InitIInv
<1>2. IInv /\ [Next]_vars => IInv'
  BY NextIInv
<1> QED BY <1>1, <1>2, PTL DEF Spec

\* isotp_send stays within its message and isotp_recv within the length it was
\* told and within the caller's buffer.
THEOREM TypeCorrect == Spec => []TypeOK
<1>1. IInv => TypeOK
  BY DEF IInv
<1> QED BY <1>1, IsoTpInvariant, PTL

\* isotp_recv returns whole messages only, however many frames are lost, or
\* however many calls fail, are interrupted or run late.
THEOREM WholeMessagesOnly == Spec => []Integrity
<1>1. IInv => Integrity
  BY DEF IInv
<1> QED BY <1>1, IsoTpInvariant, PTL
=============================================================================
