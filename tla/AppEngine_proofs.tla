-------------------------- MODULE AppEngine_proofs --------------------------
(***************************************************************************)
(* Proofs about AppEngine: its invariants for every tick rate, tick width, *)
(* pair of temperatures and set of sinusoid values.                        *)
(***************************************************************************)
EXTENDS AppEngine, TLAPS

\* The screen is never ahead of the engine, nor of the round under way.
ScreenBehind ==
    /\ shown.coolant <= coolant_c
    /\ mpc # "rpm" => shown.coolant <= coldest

\* What has been read in the round under way was the engine's.
RoundRead ==
    /\ mpc # "rpm" => DecodeRpm(raw.rpm) \in {r \div 4 : r \in Rpms \cup {IDLE}}
    /\ mpc \in {"coolant", "draw"} => raw.speed \in Speeds \cup {0}
    /\ mpc = "draw" => DecodeCoolant(raw.coolant) \in coldest..coolant_c

Inv == TypeOK /\ CoolantFollowsTicks /\ RoundRead /\ ScreenBehind

-----------------------------------------------------------------------------
(* Arithmetic. *)

\* The next number's quotient: one more exactly at a multiple.
LEMMA QuotientStep ==
    ASSUME NEW t \in Nat, NEW n \in Nat, n > 0
    PROVE  (t + 1) \div n = IF (t + 1) % n = 0 THEN (t \div n) + 1 ELSE t \div n
<1> DEFINE q == t \div n
           r == t % n
           p == (t + 1) \div n
           s == (t + 1) % n
<1>1. q \in Nat /\ r \in Nat /\ r < n /\ t = n * q + r
  OBVIOUS
<1>2. p \in Nat /\ s \in Nat /\ s < n /\ t + 1 = n * p + s
  OBVIOUS
<1> HIDE DEF q, r, p, s
<1>3. n * p + s = n * q + r + 1
  BY <1>1, <1>2
<1>4. p >= q
  <2> SUFFICES ASSUME p + 1 <= q PROVE FALSE
    BY <1>1, <1>2
  <2>1. n * (p + 1) <= n * q
    BY <1>1, <1>2
  <2>2. n * (p + 1) = n * p + n
    BY <1>2
  <2> QED
    BY <2>1, <2>2, <1>1, <1>2, <1>3
<1>5. p <= q + 1
  <2> SUFFICES ASSUME p >= q + 2 PROVE FALSE
    BY <1>1, <1>2
  <2>1. n * p >= n * (q + 2)
    BY <1>1, <1>2
  <2>2. n * (q + 2) = n * q + n + n
    BY <1>1
  <2> QED
    BY <2>1, <2>2, <1>1, <1>2, <1>3
<1>6. n * (q + 1) = n * q + n
  BY <1>1
<1>7. CASE s = 0
  <2>1. p # q
    BY <1>1, <1>2, <1>3, <1>7
  <2> QED
    BY <2>1, <1>1, <1>2, <1>4, <1>5, <1>7 DEF p, q, s
<1>8. CASE s # 0
  <2>1. p # q + 1
    BY <1>1, <1>2, <1>3, <1>6, <1>8
  <2> QED
    BY <2>1, <1>1, <1>2, <1>4, <1>5, <1>8 DEF p, q, s
<1> QED
  BY <1>7, <1>8

\* A number past k whole periods has a quotient of at least k.
LEMMA QuotientBound ==
    ASSUME NEW t \in Nat, NEW n \in Nat, n > 0, NEW k \in Nat, t >= k * n
    PROVE  t \div n >= k
<1> DEFINE q == t \div n
           r == t % n
<1>1. q \in Nat /\ r \in Nat /\ r < n /\ t = n * q + r
  OBVIOUS
<1> HIDE DEF q, r
<1> SUFFICES ASSUME q + 1 <= k PROVE FALSE
  BY <1>1 DEF q
<1>2. n * (q + 1) <= n * k
  BY <1>1
<1>3. n * (q + 1) = n * q + n /\ n * k = k * n
  BY <1>1
<1> QED
  BY <1>1, <1>2, <1>3

LEMMA RemainderRange ==
    ASSUME NEW x \in Nat, NEW n \in Nat, n > 0
    PROVE  x % n \in 0..(n - 1)
  OBVIOUS

LEMMA SmallRemainder ==
    ASSUME NEW x \in Nat, NEW n \in Nat, x < n
    PROVE  x % n = x
  OBVIOUS

\* AppEngineAssumption without its product.
LEMMA Constants ==
    /\ Rpms \subseteq 3200..8800 /\ Speeds \subseteq 10..110
    /\ COLD \in Nat /\ WARM \in Nat /\ COLD <= WARM /\ WARM <= 215
    /\ TICKS_PER_DEGREE \in Nat /\ TICKS_PER_DEGREE > 0
    /\ TICK_MOD \in Nat /\ TICK_MOD > 0
<1>1. (WARM - COLD) \in Nat /\ TICKS_PER_DEGREE \in Nat
  BY AppEngineAssumption
<1>2. (WARM - COLD) * TICKS_PER_DEGREE \in Nat
  BY <1>1
<1> QED
  BY <1>2, AppEngineAssumption

LEMMA DecodesPair ==
    ASSUME NEW h \in Bytes, NEW l \in Bytes
    PROVE  <<h, l>> \in Bytes \X Bytes /\ DecodeRpm(<<h, l>>) = (h * 256 + l) \div 4
  BY DEF DecodeRpm

\* The monitor decodes what app_read_rpm encoded.
LEMMA RpmRoundTrip ==
    ASSUME NEW r \in Rpms \cup {IDLE}
    PROVE  /\ <<r \div 256, r % 256>> \in Bytes \X Bytes
           /\ DecodeRpm(<<r \div 256, r % 256>>) = r \div 4
<1>1. r \in Nat /\ r <= 8800
  BY Constants DEF IDLE
<1>2. /\ r \div 256 \in Bytes /\ r % 256 \in Bytes
      /\ (r \div 256) * 256 + (r % 256) = r
  BY <1>1 DEF Bytes
<1> DEFINE h == r \div 256
           l == r % 256
<1>3. h \in Bytes /\ l \in Bytes /\ h * 256 + l = r
  BY <1>2
<1> HIDE DEF h, l
<1>4. <<h, l>> \in Bytes \X Bytes /\ DecodeRpm(<<h, l>>) = r \div 4
  BY <1>3, DecodesPair
<1> QED
  BY <1>4, Zenon DEF h, l

-----------------------------------------------------------------------------

LEMMA InvInit == Init => Inv
<1> SUFFICES ASSUME Init PROVE Inv
  OBVIOUS
<1> USE AppEngineAssumption DEF Init, Nothing, Blank, IDLE
<1>1. TypeOK
  BY DEF TypeOK, Bytes
<1>2. CoolantFollowsTicks
  <2>1. 0 \div TICKS_PER_DEGREE = 0
    OBVIOUS
  <2> QED
    BY <2>1 DEF CoolantFollowsTicks
<1>3. RoundRead /\ ScreenBehind
  BY DEF RoundRead, ScreenBehind
<1> QED
  BY <1>1, <1>2, <1>3 DEF Inv

\* The coolant rises by nothing or by a degree, and stays within its limits.
LEMMA TickWarms ==
    ASSUME Inv, app_engine_tick
    PROVE  coolant_c' \in COLD..WARM /\ coolant_c' >= coolant_c /\ tick' \in 0..(TICK_MOD - 1)
<1>1. coolant_c \in COLD..WARM /\ tick \in Nat /\ coolant_c \in Nat
  BY Constants DEF Inv, TypeOK
<1>2. tick' \in 0..(TICK_MOD - 1)
  <2>1. tick + 1 \in Nat /\ TICK_MOD \in Nat /\ TICK_MOD > 0
    BY <1>1, Constants
  <2>2. (tick + 1) % TICK_MOD \in 0..(TICK_MOD - 1)
    BY <2>1, RemainderRange, Zenon
  <2> QED
    BY <2>2, Zenon DEF app_engine_tick
<1>3. coolant_c < WARM => (coolant_c + 1) % 256 = coolant_c + 1
  <2>1. coolant_c < WARM => coolant_c + 1 \in Nat /\ 256 \in Nat /\ coolant_c + 1 < 256
    BY <1>1, Constants
  <2> QED
    BY <2>1, SmallRemainder, SMT
<1>4. coolant_c' = coolant_c \/ (coolant_c < WARM /\ coolant_c' = (coolant_c + 1) % 256)
  BY DEF app_engine_tick, Warmed
<1>5. coolant_c' = coolant_c \/ (coolant_c < WARM /\ coolant_c' = coolant_c + 1)
  BY <1>3, <1>4, Zenon
<1>6. coolant_c' \in COLD..WARM /\ coolant_c' >= coolant_c
  <2>1. COLD \in Nat /\ WARM \in Nat
    BY Constants
  <2>2. CASE coolant_c' = coolant_c
    BY <1>1, <2>1, <2>2
  <2>3. CASE coolant_c < WARM /\ coolant_c' = coolant_c + 1
    BY <1>1, <2>1, <2>3
  <2> QED
    BY <1>5, <2>2, <2>3
<1> QED
  BY <1>2, <1>6

LEMMA TickFollowed ==
    ASSUME Inv, app_engine_tick
    PROVE  CoolantFollowsTicks'
<1> DEFINE n == TICKS_PER_DEGREE
<1>1. /\ coolant_c \in COLD..WARM /\ coolant_c \in Nat
      /\ tick \in Nat /\ tick < TICK_MOD /\ n \in Nat /\ n > 0
  <2>1. coolant_c \in COLD..WARM /\ tick \in 0..(TICK_MOD - 1)
    BY DEF Inv, TypeOK
  <2>2. COLD \in Nat /\ WARM \in Nat /\ TICK_MOD \in Nat /\ n \in Nat /\ n > 0
    BY Constants
  <2> QED
    BY ONLY <2>1, <2>2
<1>2. CASE coolant_c = WARM
  BY <1>1, <1>2, Constants DEF app_engine_tick, Warmed, CoolantFollowsTicks
<1>3. CASE coolant_c # WARM
  <2>1. coolant_c < WARM /\ coolant_c = COLD + tick \div n
    BY <1>1, <1>3, Constants DEF Inv, CoolantFollowsTicks
  <2>2. tick + 1 # TICK_MOD
    <3> SUFFICES ASSUME tick + 1 = TICK_MOD PROVE FALSE
      OBVIOUS
    <3>1. (WARM - COLD) \in Nat
      BY Constants
    <3>2. (WARM - COLD) * n \in Nat
      BY <1>1, <3>1
    <3>3. tick >= (WARM - COLD) * n
      BY <1>1, <3>2, AppEngineAssumption
    <3>4. tick \div n >= WARM - COLD
      BY <1>1, <3>1, <3>3, QuotientBound
    <3>5. tick \div n \in Nat
      BY <1>1
    <3> DEFINE q == tick \div n
    <3>6. coolant_c = COLD + q /\ q >= WARM - COLD /\ q \in Nat
      BY <2>1, <3>4, <3>5
    <3> HIDE DEF q
    <3>7. COLD \in Nat /\ WARM \in Nat
      BY Constants
    <3> QED
      BY ONLY <2>1, <3>6, <3>7
  <2>3. tick' = tick + 1
    <3>1. tick + 1 \in Nat /\ TICK_MOD \in Nat /\ tick + 1 < TICK_MOD
      BY <1>1, <2>2, Constants
    <3>2. (tick + 1) % TICK_MOD = tick + 1
      BY <3>1, SmallRemainder, Zenon
    <3> QED
      BY <3>2, Zenon DEF app_engine_tick
  <2>4. (tick + 1) \div n = IF (tick + 1) % n = 0 THEN (tick \div n) + 1 ELSE tick \div n
    BY <1>1, QuotientStep
  <2>5. (coolant_c + 1) % 256 = coolant_c + 1
    BY <1>1, <2>1, Constants, SmallRemainder
  <2>6. tick \div n \in Nat
    BY <1>1
  <2>7. coolant_c' = IF (tick + 1) % n = 0 THEN coolant_c + 1 ELSE coolant_c
    BY <2>1, <2>3, <2>5 DEF app_engine_tick, Warmed
  <2>8. coolant_c' = COLD + (tick + 1) \div n
    <3> DEFINE a == (tick + 1) \div n
               b == tick \div n
               c == (tick + 1) % n = 0
    <3>1. a = IF c THEN b + 1 ELSE b
      BY <2>4
    <3>2. coolant_c = COLD + b /\ b \in Nat
      BY <2>1, <2>6
    <3>3. coolant_c' = IF c THEN coolant_c + 1 ELSE coolant_c
      BY <2>7
    <3> HIDE DEF a, b, c
    <3>4. coolant_c' = COLD + a
      BY <3>1, <3>2, <3>3, Constants
    <3> QED
      BY <3>4 DEF a
  <2> QED
    BY <2>3, <2>8 DEF CoolantFollowsTicks
<1> QED
  BY <1>2, <1>3

LEMMA InvNext == Inv /\ [Next]_vars => Inv'
<1> SUFFICES ASSUME Inv, [Next]_vars PROVE Inv'
  OBVIOUS
<1> USE DEF Inv
<1>0. /\ COLD \in Nat /\ WARM \in Nat
      /\ coolant_c \in COLD..WARM /\ coolant_c \in Nat
      /\ coldest \in COLD..coolant_c /\ coldest \in Nat
  <2>1. coolant_c \in COLD..WARM /\ coldest \in COLD..coolant_c
    BY DEF TypeOK
  <2>2. COLD \in Nat /\ WARM \in Nat
    BY Constants
  <2> QED
    BY ONLY <2>1, <2>2
<1>1. CASE app_engine_tick
  <2>1. TypeOK'
    <3>1. coldest' \in COLD..coolant_c'
      BY <1>0, <1>1, TickWarms DEF app_engine_tick, monitorVars
    <3>2. coolant_c' \in COLD..WARM /\ tick' \in 0..(TICK_MOD - 1)
      BY <1>1, TickWarms
    <3> QED
      BY <1>1, <3>1, <3>2 DEF TypeOK, app_engine_tick, monitorVars
  <2>2. CoolantFollowsTicks'
    BY <1>1, TickFollowed
  <2>3. RoundRead'
    <3>1. mpc = "draw" => DecodeCoolant(raw.coolant) \in coldest..coolant_c'
      <4>1. raw.coolant - 40 \in Int
        BY DEF TypeOK, Bytes
      <4>2. mpc = "draw" => raw.coolant - 40 \in coldest..coolant_c
        BY DEF RoundRead, DecodeCoolant
      <4>3. coolant_c' \in Int /\ coolant_c' >= coolant_c
        BY <1>0, <1>1, TickWarms
      <4> QED
        BY <1>0, <4>1, <4>2, <4>3 DEF DecodeCoolant
    <3> QED
      BY <1>1, <3>1 DEF RoundRead, app_engine_tick, monitorVars
  <2>4. ScreenBehind'
    <3>1. shown.coolant \in Int
      BY <1>0 DEF TypeOK
    <3>2. coolant_c' \in Int /\ coolant_c' >= coolant_c
      BY <1>0, <1>1, TickWarms
    <3>3. shown.coolant <= coolant_c'
      BY <1>0, <3>1, <3>2 DEF ScreenBehind
    <3> QED
      BY <1>1, <3>3 DEF ScreenBehind, app_engine_tick, monitorVars
  <2> QED
    BY <2>1, <2>2, <2>3, <2>4
<1>2. CASE app_read_rpm
  <2>1. rpm \in Rpms \cup {IDLE}
    BY DEF TypeOK
  <2>2. EncodeRpm \in Bytes \X Bytes /\ DecodeRpm(EncodeRpm) = rpm \div 4
    BY ONLY <2>1, RpmRoundTrip, Zenon DEF EncodeRpm
  <2>3. raw' \in [rpm : Bytes \X Bytes, speed : Bytes, coolant : Bytes] /\ raw'.rpm = EncodeRpm
    <3> DEFINE e == EncodeRpm
    <3>1. raw' = [raw EXCEPT !.rpm = e] /\ e \in Bytes \X Bytes
      BY <1>2, <2>2 DEF app_read_rpm
    <3>2. raw \in [rpm : Bytes \X Bytes, speed : Bytes, coolant : Bytes]
      BY DEF TypeOK
    <3> HIDE DEF e
    <3>3. raw' \in [rpm : Bytes \X Bytes, speed : Bytes, coolant : Bytes] /\ raw'.rpm = e
      BY ONLY <3>1, <3>2
    <3> QED
      BY <3>3 DEF e
  <2>4. TypeOK'
    <3>1. coldest' \in COLD..coolant_c'
      BY <1>0, <1>2 DEF app_read_rpm, engineVars
    <3>2. mpc' = "speed" /\ UNCHANGED <<rpm, speed_kmh, coolant_c, tick, shown>>
      BY <1>2 DEF app_read_rpm, engineVars
    <3> QED
      BY <2>3, <3>1, <3>2 DEF TypeOK
  <2>5. RoundRead'
    <3>1. DecodeRpm(raw'.rpm) \in {r \div 4 : r \in Rpms \cup {IDLE}}
      BY <2>1, <2>2, <2>3, Zenon
    <3> QED
      BY <1>2, <3>1 DEF RoundRead, app_read_rpm, engineVars
  <2>6. CoolantFollowsTicks' /\ ScreenBehind'
    BY <1>2 DEF CoolantFollowsTicks, ScreenBehind, app_read_rpm, engineVars
  <2> QED
    BY <2>4, <2>5, <2>6
<1>3. CASE app_read_speed
  <2>1. speed_kmh \in Bytes
    <3>1. speed_kmh \in Speeds \cup {0} /\ Speeds \subseteq 10..110
      BY Constants DEF TypeOK
    <3> QED
      BY ONLY <3>1 DEF Bytes
  <2>2. /\ raw' \in [rpm : Bytes \X Bytes, speed : Bytes, coolant : Bytes]
        /\ raw'.rpm = raw.rpm /\ raw'.speed = speed_kmh
    BY <1>3, <2>1 DEF TypeOK, app_read_speed
  <2>3. TypeOK'
    <3>1. mpc' = "coolant" /\ UNCHANGED <<rpm, speed_kmh, coolant_c, tick, shown, coldest>>
      BY <1>3 DEF app_read_speed, engineVars
    <3> QED
      BY <2>2, <3>1 DEF TypeOK
  <2>4. RoundRead'
    BY <1>3, <2>2 DEF RoundRead, TypeOK, app_read_speed, engineVars
  <2>5. CoolantFollowsTicks' /\ ScreenBehind'
    BY <1>3 DEF CoolantFollowsTicks, ScreenBehind, app_read_speed, engineVars
  <2> QED
    BY <2>3, <2>4, <2>5
<1>4. CASE app_read_coolant
  <2>1. EncodeCoolant \in Bytes /\ DecodeCoolant(EncodeCoolant) = coolant_c
    BY <1>0, Constants DEF EncodeCoolant, DecodeCoolant, Bytes
  <2>2. /\ raw' \in [rpm : Bytes \X Bytes, speed : Bytes, coolant : Bytes]
        /\ raw'.rpm = raw.rpm /\ raw'.speed = raw.speed /\ raw'.coolant = EncodeCoolant
    BY <1>4, <2>1 DEF TypeOK, app_read_coolant
  <2>3. TypeOK'
    <3>1. mpc' = "draw" /\ UNCHANGED <<rpm, speed_kmh, coolant_c, tick, shown, coldest>>
      BY <1>4 DEF app_read_coolant, engineVars
    <3> QED
      BY <2>2, <3>1 DEF TypeOK
  <2>4. RoundRead'
    <3>1. coolant_c \in coldest..coolant_c
      BY <1>0
    <3> QED
      BY <1>4, <2>1, <2>2, <3>1 DEF RoundRead, app_read_coolant, engineVars
  <2>5. CoolantFollowsTicks' /\ ScreenBehind'
    BY <1>4 DEF CoolantFollowsTicks, ScreenBehind, app_read_coolant, engineVars
  <2> QED
    BY <2>3, <2>4, <2>5
<1>5. CASE ReadFails
  BY <1>5 DEF TypeOK, CoolantFollowsTicks, RoundRead, ScreenBehind, ReadFails, engineVars
<1>6. CASE Draw
  <2>1. shown'.coolant \in coldest..coolant_c
    BY <1>6 DEF Draw, RoundRead
  <2>2. shown'.rpm \in 0..2200
    <3>1. PICK r \in Rpms \cup {IDLE} : shown'.rpm = r \div 4
      BY <1>6 DEF Draw, RoundRead
    <3>2. r \in 3200..8800
      BY Constants DEF IDLE
    <3> QED
      BY <3>1, <3>2
  <2>3. shown' \in [rpm : 0..2200, speed : Bytes, coolant : COLD..WARM]
    <3>1. shown'.coolant \in COLD..WARM
      BY <1>0, <2>1
    <3>2. shown'.speed \in Bytes
      BY <1>6 DEF Draw, TypeOK
    <3> QED
      BY <1>6, <2>2, <3>1, <3>2 DEF Draw
  <2>4. TypeOK'
    <3>1. mpc' = "rpm" /\ UNCHANGED <<rpm, speed_kmh, coolant_c, tick, raw, coldest>>
      BY <1>6 DEF Draw, engineVars
    <3> QED
      BY <2>3, <3>1 DEF TypeOK
  <2>5. CoolantFollowsTicks' /\ RoundRead' /\ ScreenBehind'
    BY <1>0, <1>6, <2>1 DEF CoolantFollowsTicks, RoundRead, ScreenBehind, Draw, engineVars
  <2> QED
    BY <2>4, <2>5
<1>7. CASE UNCHANGED vars
  BY <1>7 DEF TypeOK, CoolantFollowsTicks, RoundRead, ScreenBehind, vars, engineVars, monitorVars
<1> QED
  BY <1>1, <1>2, <1>3, <1>4, <1>5, <1>6, <1>7 DEF Next, Monitor

LEMMA Invariance == Spec => []Inv
  BY InvInit, InvNext, PTL DEF Spec

(* The engine's fields and the monitor's bytes and screen keep their ranges *)
(* whatever the interleaving of app_thread and the reads.                   *)
THEOREM TypeCorrect == Spec => []TypeOK
<1>1. Inv => TypeOK
  BY DEF Inv
<1> QED
  BY <1>1, Invariance, PTL

(* app_engine_tick: the coolant follows the ticks up to WARM and is not     *)
(* disturbed by the wrap of the counter.                                    *)
THEOREM FollowsTicks == Spec => []CoolantFollowsTicks
<1>1. Inv => CoolantFollowsTicks
  BY DEF Inv
<1> QED
  BY <1>1, Invariance, PTL

(* cmd_monitor draws only what app_read_rpm, app_read_speed and             *)
(* app_read_coolant found during the round.                                 *)
THEOREM DrawsTruth == Spec => []DrawsWhatWas
<1>1. Inv => DrawsWhatWas
  BY DEF Inv, RoundRead, DrawsWhatWas
<1> QED
  BY <1>1, Invariance, PTL

(* The temperature that cmd_monitor shows never falls. *)
THEOREM WarmsOnly == Spec => ScreenWarmsOnly
<1>1. Inv /\ [Next]_vars => [shown'.coolant >= shown.coolant]_vars
  <2> SUFFICES ASSUME Inv, [Next]_vars PROVE shown'.coolant >= shown.coolant
    OBVIOUS
  <2>1. CASE Draw
    <3>1. shown'.coolant \in coldest..coolant_c
      BY <2>1 DEF Inv, RoundRead, Draw
    <3>2. shown.coolant <= coldest
      BY <2>1 DEF Inv, ScreenBehind, Draw
    <3>3. shown.coolant \in Int /\ coldest \in Int /\ coolant_c \in Int
      BY Constants DEF Inv, TypeOK
    <3> QED
      BY <3>1, <3>2, <3>3
  <2>2. CASE UNCHANGED shown
    <3>1. shown.coolant \in Int
      BY Constants DEF Inv, TypeOK
    <3> QED
      BY <2>2, <3>1
  <2> QED
    BY <2>1, <2>2 DEF Next, Monitor, app_engine_tick, app_read_rpm, app_read_speed, app_read_coolant,
                      ReadFails, vars, monitorVars
<1> QED
  BY <1>1, Invariance, PTL DEF Spec, ScreenWarmsOnly
=============================================================================
