------------------------------ MODULE Security ------------------------------
(***************************************************************************)
(* src/security.c: the SecurityAccess (0x27) state machine.                *)
(*                                                                         *)
(* Each function of the C file is one critical section under               *)
(* security_state_t.lock, so it is modelled as a transformer: it takes the *)
(* state record, the clock and its arguments, and returns a record         *)
(*                                                                         *)
(*    st    the security state it leaves behind                            *)
(*    rc    its return value (FAILED stands for -1)                        *)
(*    nrc   the negative response code it stores, NO_NRC if none           *)
(*    seed  *out_seed (0 for security_send_key)                            *)
(*                                                                         *)
(* A caller's action applies one transformer in one step.                  *)
(***************************************************************************)
EXTENDS UdsTypes

CONSTANTS
    SECURITY_MAX_FAILS,         \* wrong keys before the lock-out (3)
    SECURITY_LOCK_DURATION_MS,  \* length of the lock-out (10000)
    SECURITY_KEY_CONSTANT,      \* 0xDEADBEEF
    FALLBACK_SEED,              \* 0xA5A5A5A5, used when no entropy is available
    Entropy,                    \* the values getrandom can deliver; 0 included
    XorU32(_, _)                \* C's ^ on uint32_t

ASSUME SecurityAssumption ==
    /\ SECURITY_MAX_FAILS \in Nat \ {0}
    /\ SECURITY_LOCK_DURATION_MS \in Nat \ {0}
    /\ FALLBACK_SEED \in Nat \ {0}
    /\ Entropy \subseteq Nat

\* Return codes.
OK              == 0
ALREADY_UNLOCKED == 1
FAILED          == 2    \* -1 in the code

\* The seeds the ECU can issue: zero is reserved for "already unlocked".
Seeds == (Entropy \ {0}) \cup {FALLBACK_SEED}

SecurityState ==
    [unlocked_level : {0, 1},
     pending_seed   : Nat,
     seed_issued    : BOOLEAN,
     fail_count     : Nat,
     lock_until_ms  : Nat]

\* security_init: everything zero.
security_init ==
    [unlocked_level |-> 0,
     pending_seed   |-> 0,
     seed_issued    |-> FALSE,
     fail_count     |-> 0,
     lock_until_ms  |-> 0]

MutantAnyLevel(level) == level # 0

level_supported(level) == level = 1

\* A refused call leaves the state alone and stores an NRC.
Refused(s, nrc) == [st |-> s, rc |-> FAILED, nrc |-> nrc, seed |-> 0]

\* The lock-out is running.
LockedOut(s, now) == s.lock_until_ms # 0 /\ now < s.lock_until_ms

(***************************************************************************)
(* security_request_seed.  `raw' is what getrandom delivers; a failed or   *)
(* short read and a zero both end up as the fallback seed, so raw = 0      *)
(* stands for all of them.                                                 *)
(***************************************************************************)
FreshSeed(raw) == IF raw = 0 THEN FALLBACK_SEED ELSE raw

MutantExpiryKeepsFailures(s) ==
    IF s.lock_until_ms # 0 THEN [s EXCEPT !.lock_until_ms = 0] ELSE s

\* A lock-out that is over is erased, together with the failures behind it.
ExpireLockOut(s) ==
    IF s.lock_until_ms # 0
    THEN [s EXCEPT !.lock_until_ms = 0, !.fail_count = 0]
    ELSE s

MutantNoLockOutCheck(s, level, now, raw) ==
    IF ~level_supported(level)
      THEN Refused(s, UDS_NRC_SUB_FUNCTION_NOT_SUPPORTED)
    ELSE IF s.unlocked_level >= level
      THEN [st |-> [s EXCEPT !.seed_issued = FALSE],
            rc |-> ALREADY_UNLOCKED, nrc |-> NO_NRC, seed |-> 0]
    ELSE [st |-> [ExpireLockOut(s) EXCEPT !.pending_seed = FreshSeed(raw),
                                          !.seed_issued  = TRUE],
          rc |-> OK, nrc |-> NO_NRC, seed |-> FreshSeed(raw)]

security_request_seed(s, level, now, raw) ==
    IF ~level_supported(level)
      THEN Refused(s, UDS_NRC_SUB_FUNCTION_NOT_SUPPORTED)
    ELSE IF s.unlocked_level >= level
      THEN [st |-> [s EXCEPT !.seed_issued = FALSE],
            rc |-> ALREADY_UNLOCKED, nrc |-> NO_NRC, seed |-> 0]
    ELSE IF LockedOut(s, now)
      THEN Refused(s, UDS_NRC_REQUIRED_TIME_DELAY_NOT_EXPIRED)
    ELSE [st |-> [ExpireLockOut(s) EXCEPT !.pending_seed = FreshSeed(raw),
                                          !.seed_issued  = TRUE],
          rc |-> OK, nrc |-> NO_NRC, seed |-> FreshSeed(raw)]

(***************************************************************************)
(* security_send_key.  The seed is spent whatever the key was.             *)
(***************************************************************************)
KeyFor(seed) == XorU32(seed, SECURITY_KEY_CONSTANT)

MutantSeedReusable(s, now) ==
    IF s.fail_count + 1 >= SECURITY_MAX_FAILS
    THEN [s EXCEPT !.fail_count    = @ + 1,
                   !.lock_until_ms = now + SECURITY_LOCK_DURATION_MS]
    ELSE [s EXCEPT !.fail_count = @ + 1, !.seed_issued = TRUE]

\* The wrong-key path: count the failure, and start the lock-out on the last.
CountFailure(s, now) ==
    IF s.fail_count + 1 >= SECURITY_MAX_FAILS
    THEN [s EXCEPT !.fail_count    = @ + 1,
                   !.lock_until_ms = now + SECURITY_LOCK_DURATION_MS]
    ELSE [s EXCEPT !.fail_count = @ + 1]

MutantSequenceErrorCounts(s, level, key, now) ==
    IF ~s.seed_issued \/ key # KeyFor(s.pending_seed)
    THEN [st  |-> CountFailure([s EXCEPT !.seed_issued = FALSE], now), rc |-> FAILED,
          nrc |-> UDS_NRC_INVALID_KEY, seed |-> 0]
    ELSE [st  |-> [s EXCEPT !.seed_issued = FALSE, !.unlocked_level = level, !.fail_count = 0],
          rc  |-> OK, nrc |-> NO_NRC, seed |-> 0]

security_send_key(s, level, key, now) ==
    LET spent == [s EXCEPT !.seed_issued = FALSE]
    IN  IF ~level_supported(level)
          THEN Refused(s, UDS_NRC_SUB_FUNCTION_NOT_SUPPORTED)
        ELSE IF ~s.seed_issued
          THEN Refused(s, UDS_NRC_REQUEST_SEQUENCE_ERROR)
        ELSE IF LockedOut(s, now)
          THEN Refused(s, UDS_NRC_REQUIRED_TIME_DELAY_NOT_EXPIRED)
        ELSE IF key = KeyFor(s.pending_seed)
          THEN [st |-> [spent EXCEPT !.unlocked_level = level, !.fail_count = 0],
                rc |-> OK, nrc |-> NO_NRC, seed |-> 0]
        ELSE [st   |-> CountFailure(spent, now),
              rc   |-> FAILED,
              nrc  |-> IF s.fail_count + 1 >= SECURITY_MAX_FAILS
                       THEN UDS_NRC_EXCEEDED_NUMBER_OF_ATTEMPTS
                       ELSE UDS_NRC_INVALID_KEY,
              seed |-> 0]

security_is_unlocked(s, level) == s.unlocked_level >= level

\* The security half of the logical ECU reset (h_ecu_reset in src/uds.c).
security_reset(s) ==
    [s EXCEPT !.unlocked_level = 0,
              !.seed_issued    = FALSE,
              !.fail_count     = 0,
              !.lock_until_ms  = 0]

MutantRelockKeepsSeed(s) == [s EXCEPT !.unlocked_level = 0]

MutantRelockForgivesFailures(s) ==
    [s EXCEPT !.unlocked_level = 0, !.seed_issued = FALSE, !.fail_count = 0]

\* What the S3 thread does to the security state on a timeout (src/threads.c).
security_relock(s) == [s EXCEPT !.unlocked_level = 0, !.seed_issued = FALSE]
=============================================================================
