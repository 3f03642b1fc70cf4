----------------------------- MODULE AppEngine -----------------------------
(***************************************************************************)
(* src/app_engine.c: the simulated engine that app_thread drives, read     *)
(* through the DIDs 0x010C, 0x010D and 0x0105 by the monitor of            *)
(* client/diag_tool.py.  The dispatcher reads one value per request, under *)
(* the engine's lock, so ticks fall between the three values of a round.   *)
(*                                                                         *)
(* The sinusoids behind speed and revolutions are taken for any value in   *)
(* the ranges their comments give.                                         *)
(***************************************************************************)
EXTENDS Integers

CONSTANTS
    Rpms,                \* what 4 * (1500 + 700 sin) is cut to: in 3200..8800
    Speeds,              \* what 60 + 50 sin is cut to: in 10..110
    COLD, WARM,          \* 60 and 92 degrees
    TICKS_PER_DEGREE,    \* 30
    TICK_MOD             \* 2^32: tick is a uint32_t

ASSUME AppEngineAssumption ==
    /\ Rpms \subseteq 3200..8800 /\ Speeds \subseteq 10..110
    /\ COLD \in 0..255 /\ WARM \in COLD..215
    /\ TICKS_PER_DEGREE \in Nat \ {0}
    /\ TICK_MOD \in Nat /\ TICK_MOD > (WARM - COLD) * TICKS_PER_DEGREE

VARIABLES
    rpm, speed_kmh, coolant_c, tick,   \* app_engine_t
    mpc,       \* the value the monitor reads next
    raw,       \* rpm_raw, spd_raw and clt_raw: the bytes it received
    shown,     \* what is on its screen
    coldest    \* history: coolant_c when the round began

engineVars  == <<rpm, speed_kmh, coolant_c, tick>>
monitorVars == <<mpc, raw, shown, coldest>>
vars        == <<engineVars, monitorVars>>

IDLE == 800 * 4

Nothing == [rpm |-> <<0, 0>>, speed |-> 0, coolant |-> 0]

Blank == [rpm |-> 0, speed |-> 0, coolant |-> COLD]

Init ==
    /\ rpm = IDLE /\ speed_kmh = 0 /\ coolant_c = COLD /\ tick = 0
    /\ mpc = "rpm" /\ raw = Nothing /\ shown = Blank /\ coldest = COLD

-----------------------------------------------------------------------------
(* app_engine_tick *)

MutantWarmsPastLimit(c, t) ==
    IF c <= WARM /\ t % TICKS_PER_DEGREE = 0 THEN (c + 1) % 256 ELSE c

MutantWarmsEarly(c, t) ==
    IF c < WARM /\ (t + 1) % TICKS_PER_DEGREE = 0 THEN (c + 1) % 256 ELSE c

\* One degree every TICKS_PER_DEGREE ticks, until WARM.
Warmed(c, t) == IF c < WARM /\ t % TICKS_PER_DEGREE = 0 THEN (c + 1) % 256 ELSE c

MutantTickForgotten ==
    /\ rpm' \in Rpms /\ speed_kmh' \in Speeds
    /\ UNCHANGED <<tick, coolant_c, monitorVars>>

app_engine_tick ==
    /\ tick' = (tick + 1) % TICK_MOD
    /\ rpm' \in Rpms
    /\ speed_kmh' \in Speeds
    /\ coolant_c' = Warmed(coolant_c, tick')
    /\ UNCHANGED monitorVars

-----------------------------------------------------------------------------
(* The read callbacks, and cmd_monitor around them. *)

\* Two bytes, the high one first.
EncodeRpm == <<rpm \div 256, rpm % 256>>

MutantEncodesCelsius == coolant_c

\* "raw byte = C + 40", clamped to a byte.
EncodeCoolant == IF coolant_c + 40 > 255 THEN 255 ELSE coolant_c + 40

app_read_rpm ==
    /\ mpc = "rpm"
    /\ raw' = [raw EXCEPT !.rpm = EncodeRpm]
    /\ coldest' = coolant_c
    /\ mpc' = "speed"
    /\ UNCHANGED <<engineVars, shown>>

app_read_speed ==
    /\ mpc = "speed"
    /\ raw' = [raw EXCEPT !.speed = speed_kmh]
    /\ mpc' = "coolant"
    /\ UNCHANGED <<engineVars, shown, coldest>>

app_read_coolant ==
    /\ mpc = "coolant"
    /\ raw' = [raw EXCEPT !.coolant = EncodeCoolant]
    /\ mpc' = "draw"
    /\ UNCHANGED <<engineVars, shown, coldest>>

MutantErrorClearsScreen ==
    /\ mpc # "draw"
    /\ mpc' = "rpm" /\ shown' = Blank
    /\ UNCHANGED <<engineVars, raw, coldest>>

\* A read raises an exception: the screen keeps its values, and the next
\* round begins.
ReadFails ==
    /\ mpc # "draw"
    /\ mpc' = "rpm"
    /\ UNCHANGED <<engineVars, raw, shown, coldest>>

DecodeRpm(b) == (b[1] * 256 + b[2]) \div 4

DecodeCoolant(b) == b - 40

Draw ==
    /\ mpc = "draw"
    /\ shown' = [rpm     |-> DecodeRpm(raw.rpm),
                 speed   |-> raw.speed,
                 coolant |-> DecodeCoolant(raw.coolant)]
    /\ mpc' = "rpm"
    /\ UNCHANGED <<engineVars, raw, coldest>>

-----------------------------------------------------------------------------

Monitor == app_read_rpm \/ app_read_speed \/ app_read_coolant \/ Draw

Next == app_engine_tick \/ Monitor \/ ReadFails

Spec == Init /\ [][Next]_vars

\* app_thread runs; the monitor owes nothing.
FairSpec == Spec /\ WF_vars(app_engine_tick)

-----------------------------------------------------------------------------
(* Properties. *)

Bytes == 0..255

\* Type invariant: the widths of the C types, and the bytes of the answers.
TypeOK ==
    /\ rpm \in Rpms \cup {IDLE} /\ speed_kmh \in Speeds \cup {0}
    /\ coolant_c \in COLD..WARM
    /\ tick \in 0..(TICK_MOD - 1)
    /\ mpc \in {"rpm", "speed", "coolant", "draw"}
    /\ raw \in [rpm : Bytes \X Bytes, speed : Bytes, coolant : Bytes]
    /\ shown \in [rpm : 0..2200, speed : Bytes, coolant : COLD..WARM]
    /\ coldest \in COLD..coolant_c

(***************************************************************************)
(* app_engine_tick: the coolant gains a degree per TICKS_PER_DEGREE ticks  *)
(* from the start, stops at WARM and stays there when the tick counter     *)
(* wraps.                                                                  *)
(***************************************************************************)
CoolantFollowsTicks == coolant_c = WARM \/ coolant_c = COLD + tick \div TICKS_PER_DEGREE

(***************************************************************************)
(* What the monitor draws: revolutions and speed the engine can have, and  *)
(* a temperature it had while the round was read, although ticks fell      *)
(* between the requests and rounds were given up half way.  Once the bytes *)
(* are there, drawing them brings these values.                            *)
(***************************************************************************)
DrawsWhatWas ==
    mpc = "draw" =>
        /\ DecodeRpm(raw.rpm) \in {r \div 4 : r \in Rpms \cup {IDLE}}
        /\ raw.speed \in Speeds \cup {0}
        /\ DecodeCoolant(raw.coolant) \in coldest..coolant_c

\* The temperature on the screen never falls.
ScreenWarmsOnly == [][shown'.coolant >= shown.coolant]_vars

\* app_thread gets the engine to WARM, and it stays there.
WarmsUp == <>[](coolant_c = WARM)
=============================================================================
