--------------------------- MODULE Security_proofs ---------------------------
(***************************************************************************)
(* What the transformers of Security return, for every state, level, key,  *)
(* clock and seed.  The proofs about SecurityAccess and Vecu rest on these *)
(* lemmas instead of the definitions.                                      *)
(***************************************************************************)
EXTENDS Security, TLAPS

\* The seed that security_request_seed issues is a natural number and not 0.
LEMMA FreshSeedType ==
    ASSUME NEW raw \in Entropy
    PROVE  /\ FreshSeed(raw) \in Nat
           /\ FreshSeed(raw) \in Seeds
BY SecurityAssumption DEF FreshSeed, Seeds

\* A wrong key on a usable seed: the state stays typed, the count goes up by
\* one and a lock-out starts exactly when it reaches the limit.
LEMMA CountFailureEffect ==
    ASSUME NEW s \in SecurityState, NEW t \in Nat,
           s.lock_until_ms = 0, s.fail_count < SECURITY_MAX_FAILS
    PROVE  LET r == CountFailure(s, t)
           IN  /\ r \in SecurityState
               /\ r.unlocked_level = s.unlocked_level
               /\ r.seed_issued = s.seed_issued
               /\ r.fail_count = s.fail_count + 1
               /\ r.fail_count <= SECURITY_MAX_FAILS
               /\ r.fail_count = SECURITY_MAX_FAILS =>
                     r.lock_until_ms = t + SECURITY_LOCK_DURATION_MS
               /\ r.fail_count # SECURITY_MAX_FAILS => r.lock_until_ms = 0
<1> DEFINE r == CountFailure(s, t)
<1>1. CASE s.fail_count + 1 >= SECURITY_MAX_FAILS
  <2>1. r = [s EXCEPT !.fail_count    = s.fail_count + 1,
                      !.lock_until_ms = t + SECURITY_LOCK_DURATION_MS]
    BY <1>1 DEF CountFailure
  <2>2. s.fail_count + 1 = SECURITY_MAX_FAILS
    BY <1>1, SecurityAssumption DEF SecurityState
  <2>a. s.fail_count + 1 \in Nat /\ t + SECURITY_LOCK_DURATION_MS \in Nat
    BY SecurityAssumption DEF SecurityState
  <2> HIDE DEF r
  <2>3. r \in SecurityState
    BY <2>1, <2>a, Zenon DEF SecurityState
  <2> QED BY <2>1, <2>2, <2>3, SecurityAssumption DEF SecurityState, r
<1>2. CASE ~(s.fail_count + 1 >= SECURITY_MAX_FAILS)
  <2>1. r = [s EXCEPT !.fail_count = s.fail_count + 1]
    BY <1>2 DEF CountFailure
  <2> HIDE DEF r
  <2>2. r \in SecurityState
    BY <2>1 DEF SecurityState
  <2> QED BY <1>2, <2>1, <2>2, SecurityAssumption DEF SecurityState, r
<1> QED BY <1>1, <1>2

\* security_request_seed returns a typed outcome, a code when it fails, and
\* never changes who has access.
LEMMA RequestSeedResult ==
    ASSUME NEW s \in SecurityState, NEW level \in Nat, NEW t \in Nat, NEW raw \in Entropy
    PROVE  LET out == security_request_seed(s, level, t, raw)
           IN  /\ out.st \in SecurityState
               /\ out.rc \in {OK, ALREADY_UNLOCKED, FAILED}
               /\ out.rc = FAILED => out.nrc \in NRCs
               /\ out.seed \in Nat
               /\ out.st.unlocked_level = s.unlocked_level
<1> DEFINE out == security_request_seed(s, level, t, raw)
<1>1. CASE ~level_supported(level)
  <2>1. out = Refused(s, UDS_NRC_SUB_FUNCTION_NOT_SUPPORTED)
    BY <1>1 DEF security_request_seed
  <2> QED BY <2>1 DEF Refused, NRCs
<1>2. CASE level_supported(level) /\ s.unlocked_level >= level
  <2>1. /\ out.st = [s EXCEPT !.seed_issued = FALSE]
        /\ out.rc = ALREADY_UNLOCKED /\ out.seed = 0
    BY <1>2 DEF security_request_seed
  <2>2. out.st \in SecurityState
    BY <2>1, Zenon DEF SecurityState
  <2> HIDE DEF out
  <2>3. out.st.unlocked_level = s.unlocked_level
    BY <2>1 DEF SecurityState
  <2> QED BY <2>1, <2>2, <2>3 DEF ALREADY_UNLOCKED, FAILED, OK, out
<1>3. CASE level_supported(level) /\ ~(s.unlocked_level >= level) /\ LockedOut(s, t)
  <2>1. out = Refused(s, UDS_NRC_REQUIRED_TIME_DELAY_NOT_EXPIRED)
    BY <1>3 DEF security_request_seed
  <2> QED BY <2>1 DEF Refused, NRCs
<1>4. CASE level_supported(level) /\ ~(s.unlocked_level >= level) /\ ~LockedOut(s, t)
  <2> DEFINE x == ExpireLockOut(s)
  <2>1. /\ out.st = [x EXCEPT !.pending_seed = FreshSeed(raw), !.seed_issued = TRUE]
        /\ out.rc = OK /\ out.seed = FreshSeed(raw)
    BY <1>4 DEF security_request_seed
  <2>2. x \in SecurityState /\ x.unlocked_level = s.unlocked_level
    <3>1. CASE s.lock_until_ms # 0
      <4>1. x = [s EXCEPT !.lock_until_ms = 0, !.fail_count = 0] /\ 0 \in Nat
        BY <3>1 DEF ExpireLockOut
      <4> HIDE DEF x
      <4>2. x \in SecurityState
        BY <4>1, Zenon DEF SecurityState
      <4>3. x.unlocked_level = s.unlocked_level
        BY <4>1 DEF SecurityState
      <4> QED BY <4>2, <4>3
    <3>2. CASE s.lock_until_ms = 0
      BY <3>2 DEF ExpireLockOut
    <3> QED BY <3>1, <3>2
  <2>3. FreshSeed(raw) \in Nat
    BY FreshSeedType
  <2> HIDE DEF x, out
  <2>4. out.st \in SecurityState
    BY <2>1, <2>2, <2>3, Zenon DEF SecurityState
  <2>5. out.st.unlocked_level = x.unlocked_level
    BY <2>1, <2>2 DEF SecurityState
  <2> QED BY <2>1, <2>2, <2>3, <2>4, <2>5 DEF FAILED, OK, out
<1> QED BY <1>1, <1>2, <1>3, <1>4

\* security_send_key returns a typed outcome and a code when it fails; without
\* a pending seed it changes nothing, and otherwise it spends the seed or is
\* refused.
LEMMA SendKeyResult ==
    ASSUME NEW s \in SecurityState, NEW level \in Nat, NEW key \in Nat, NEW t \in Nat
    PROVE  LET out == security_send_key(s, level, key, t)
           IN  /\ out.st \in SecurityState
               /\ out.rc \in {OK, FAILED}
               /\ out.rc = FAILED => out.nrc \in NRCs
               /\ out.seed = 0
               /\ ~s.seed_issued => out.st = s
<1> DEFINE out == security_send_key(s, level, key, t)
           spent == [s EXCEPT !.seed_issued = FALSE]
<1>0. spent \in SecurityState
  BY Zenon DEF SecurityState
<1>1. CASE ~level_supported(level) \/ ~s.seed_issued \/ LockedOut(s, t)
  <2>1. \E nrc \in NRCs : out = Refused(s, nrc)
    BY <1>1 DEF security_send_key, NRCs
  <2> QED BY <2>1 DEF Refused, FAILED
<1>2. CASE /\ level_supported(level) /\ s.seed_issued /\ ~LockedOut(s, t)
           /\ key = KeyFor(s.pending_seed)
  <2>1. /\ out.st = [spent EXCEPT !.unlocked_level = level, !.fail_count = 0]
        /\ out.rc = OK /\ out.seed = 0
    BY <1>2 DEF security_send_key
  <2>2. level \in {0, 1} /\ 0 \in Nat
    BY <1>2 DEF level_supported
  <2> HIDE DEF spent, out
  <2>3. out.st \in SecurityState
    BY <1>0, <2>1, <2>2, Zenon DEF SecurityState
  <2> QED BY <1>2, <2>1, <2>3 DEF OK, FAILED, out
<1>3. CASE /\ level_supported(level) /\ s.seed_issued /\ ~LockedOut(s, t)
           /\ key # KeyFor(s.pending_seed)
  <2>1. /\ out.st = CountFailure(spent, t)
        /\ out.rc = FAILED /\ out.seed = 0 /\ out.nrc \in NRCs
    BY <1>3 DEF security_send_key, NRCs
  <2> HIDE DEF spent, out
  <2>2. CountFailure(spent, t) \in SecurityState
    <3>1. /\ spent.fail_count + 1 \in Nat
          /\ t + SECURITY_LOCK_DURATION_MS \in Nat
      BY <1>0, SecurityAssumption DEF SecurityState
    <3> QED BY <1>0, <3>1, Zenon DEF CountFailure, SecurityState
  <2> QED BY <1>3, <2>1, <2>2 DEF FAILED, OK, out
<1> QED BY <1>1, <1>2, <1>3

\* The reset of h_ecu_reset leaves the ECU locked with nothing pending.
LEMMA ResetResult ==
    ASSUME NEW s \in SecurityState
    PROVE  /\ security_reset(s) \in SecurityState
           /\ security_reset(s).unlocked_level = 0
           /\ ~security_reset(s).seed_issued
<1>1. 0 \in Nat /\ security_reset(s) \in SecurityState
  BY Zenon DEF security_reset, SecurityState
<1> QED BY <1>1 DEF security_reset, SecurityState

\* So does the relock of the S3 thread.
LEMMA RelockResult ==
    ASSUME NEW s \in SecurityState
    PROVE  /\ security_relock(s) \in SecurityState
           /\ security_relock(s).unlocked_level = 0
           /\ ~security_relock(s).seed_issued
<1>1. security_relock(s) \in SecurityState
  BY Zenon DEF security_relock, SecurityState
<1> QED BY <1>1 DEF security_relock, SecurityState
=============================================================================
