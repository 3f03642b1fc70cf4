--------------------------- MODULE SecurityAccess ---------------------------
(***************************************************************************)
(* The SecurityAccess component on its own: src/security.c under callers   *)
(* that may use it in any order.  The callers in the program are the       *)
(* dispatcher (h_security_access, h_ecu_reset) and the S3 thread; every    *)
(* action below is one critical section under security_state_t.lock.       *)
(* Vecu shows that the whole ECU only ever takes these steps.              *)
(***************************************************************************)
EXTENDS Security

CONSTANTS
    Levels,    \* the levels callers ask for
    Keys,      \* the keys testers send
    MaxTime    \* bound on the clock

ASSUME SecurityAccessAssumption ==
    /\ Levels \subseteq 0..255
    /\ Keys \subseteq Nat
    /\ MaxTime \in Nat

VARIABLES
    sec,   \* security_state_t
    now    \* vecu_now_ms()

vars == <<sec, now>>

Init ==
    /\ sec = security_init
    /\ now = 0

RequestSeed(level, raw) ==
    /\ sec' = security_request_seed(sec, level, now, raw).st
    /\ UNCHANGED now

SendKey(level, key) ==
    /\ sec' = security_send_key(sec, level, key, now).st
    /\ UNCHANGED now

Reset ==
    /\ sec' = security_reset(sec)
    /\ UNCHANGED now

Relock ==
    /\ sec' = security_relock(sec)
    /\ UNCHANGED now

Tick ==
    /\ now < MaxTime
    /\ now' = now + 1
    /\ UNCHANGED sec

Next ==
    \/ \E level \in Levels, raw \in Entropy : RequestSeed(level, raw)
    \/ \E level \in Levels, key \in Keys : SendKey(level, key)
    \/ Reset
    \/ Relock
    \/ Tick

Spec == Init /\ [][Next]_vars

-----------------------------------------------------------------------------

\* Type invariant of security_state_t and the clock.
TypeOK ==
    /\ sec \in SecurityState
    /\ now \in 0..MaxTime

(***************************************************************************)
(* The fields of security_state_t never contradict each other.  A pending  *)
(* seed excludes a lock-out, so the lock-out test in security_send_key is  *)
(* what its comment says, "defensive - should have been caught earlier";   *)
(* the lock-out stands exactly while the failures that caused it are       *)
(* counted; an unlocked ECU has no seed outstanding and no failure held    *)
(* against it; and a seed that was issued is never the zero that means     *)
(* "already unlocked".                                                     *)
(***************************************************************************)
PendingSeedIsUsable ==
    sec.seed_issued => /\ sec.lock_until_ms = 0
                       /\ sec.pending_seed \in Seeds
                       /\ sec.unlocked_level = 0

LockOutMatchesFailures ==
    /\ sec.fail_count <= SECURITY_MAX_FAILS
    /\ (sec.lock_until_ms # 0) <=> (sec.fail_count = SECURITY_MAX_FAILS)

UnlockedIsClean ==
    sec.unlocked_level # 0 => sec.fail_count = 0

SecurityConsistent ==
    /\ PendingSeedIsUsable
    /\ LockOutMatchesFailures
    /\ UnlockedIsClean

(***************************************************************************)
(* While the lock-out runs nothing but an ECU reset ends it: no sequence   *)
(* of seed requests, keys and S3 timeouts issues a seed, unlocks the ECU   *)
(* or moves the end of the delay (include/security.h, "Anti-bruteforce").  *)
(***************************************************************************)
LockOutHolds ==
    [][LockedOut(sec, now) =>
          \/ Reset
          \/ /\ sec'.lock_until_ms = sec.lock_until_ms
             /\ ~sec'.seed_issued
             /\ sec'.unlocked_level = 0]_vars

-----------------------------------------------------------------------------

\* The abstract phase that a security state stands for.
Phase(s) == CASE s.unlocked_level # 0 -> "unlocked"
              [] s.unlocked_level = 0 /\ s.lock_until_ms # 0 -> "barred"
              [] s.unlocked_level = 0 /\ s.lock_until_ms = 0 /\ s.seed_issued -> "challenged"
              [] OTHER -> "locked"

Protocol == INSTANCE SeedKeyProtocol WITH
    MaxFails <- SECURITY_MAX_FAILS,
    Delay    <- SECURITY_LOCK_DURATION_MS,
    phase    <- Phase(sec),
    fails    <- sec.fail_count,
    until    <- sec.lock_until_ms,
    clock    <- now

\* security.c, called in any order, follows the seed/key protocol.
ImplementsProtocol == Protocol!Spec
=============================================================================
