------------------------ MODULE SecurityAccess_proofs ------------------------
(***************************************************************************)
(* Proofs about SecurityAccess and SecurityGuesses, for every number of    *)
(* failures, every delay, every seed set, key set and key function.        *)
(***************************************************************************)
EXTENDS SecurityGuesses, Security_proofs

\* What the transformers of security.c preserve.  IInv is inductive: none of
\* its parts is on its own, because a seed in flight (PendingSeedIsUsable)
\* is what a wrong key turns into a failure (LockOutMatchesFailures) and a
\* right one into access (UnlockedIsClean).
IInv == TypeOK /\ SecurityConsistent

\* security_init satisfies the invariant.
LEMMA InitIInv == Init => IInv
BY SecurityAssumption, SecurityAccessAssumption
   DEF Init, IInv, TypeOK, SecurityConsistent, PendingSeedIsUsable,
       LockOutMatchesFailures, UnlockedIsClean, security_init, SecurityState

\* security_request_seed preserves the invariant.
LEMMA RequestSeedIInv ==
    ASSUME IInv, NEW level \in Levels, NEW raw \in Entropy, RequestSeed(level, raw)
    PROVE  IInv'
<1> USE DEF IInv, TypeOK, SecurityConsistent, PendingSeedIsUsable,
            LockOutMatchesFailures, UnlockedIsClean, SecurityState
<1>1. FreshSeed(raw) \in Nat /\ FreshSeed(raw) \in Seeds
  BY FreshSeedType
<1>2. level \in Nat
  BY SecurityAccessAssumption
<1>3. CASE ~level_supported(level)
  BY <1>3 DEF RequestSeed, security_request_seed, Refused
<1>4. CASE level_supported(level) /\ sec.unlocked_level >= level
  BY <1>4, <1>2 DEF RequestSeed, security_request_seed, level_supported
<1>5. CASE level_supported(level) /\ ~(sec.unlocked_level >= level) /\ LockedOut(sec, now)
  BY <1>5 DEF RequestSeed, security_request_seed, Refused
<1>6. CASE level_supported(level) /\ ~(sec.unlocked_level >= level) /\ ~LockedOut(sec, now)
  <2>1. sec' = [ExpireLockOut(sec) EXCEPT !.pending_seed = FreshSeed(raw),
                                          !.seed_issued  = TRUE]
    BY <1>6 DEF RequestSeed, security_request_seed
  <2>2. sec.unlocked_level = 0
    BY <1>6 DEF level_supported
  <2>3. /\ ExpireLockOut(sec) \in SecurityState
        /\ ExpireLockOut(sec).unlocked_level = 0
        /\ ExpireLockOut(sec).lock_until_ms = 0
        /\ ExpireLockOut(sec).fail_count < SECURITY_MAX_FAILS
    <3>1. CASE sec.lock_until_ms # 0
      <4>1. ExpireLockOut(sec) = [sec EXCEPT !.lock_until_ms = 0, !.fail_count = 0]
        BY <3>1 DEF ExpireLockOut
      <4>2. sec \in SecurityState /\ 0 \in Nat
        OBVIOUS
      <4> HIDE DEF IInv
      <4>3. ExpireLockOut(sec) \in SecurityState
        BY <4>1, <4>2, Zenon
      <4> QED BY <2>2, <4>1, <4>2, <4>3, SecurityAssumption
    <3>2. CASE sec.lock_until_ms = 0
      BY <2>2, <3>2, SecurityAssumption DEF ExpireLockOut
    <3> QED BY <3>1, <3>2
  <2>4. now' = now
    BY DEF RequestSeed
  <2>5. sec' \in SecurityState
    BY <1>1, <2>1, <2>3, Zenon
  <2>6. /\ sec'.unlocked_level = 0
        /\ sec'.lock_until_ms = 0
        /\ sec'.fail_count < SECURITY_MAX_FAILS
        /\ sec'.pending_seed \in Seeds
    BY <1>1, <2>1, <2>3
  <2> QED BY <2>4, <2>5, <2>6, SecurityAssumption
<1> QED BY <1>3, <1>4, <1>5, <1>6

\* security_send_key preserves the invariant.
LEMMA SendKeyIInv ==
    ASSUME IInv, NEW level \in Levels, NEW key \in Keys, SendKey(level, key)
    PROVE  IInv'
<1> USE DEF IInv, TypeOK, SecurityConsistent, PendingSeedIsUsable,
            LockOutMatchesFailures, UnlockedIsClean, SecurityState
<1> DEFINE spent == [sec EXCEPT !.seed_issued = FALSE]
<1>1. CASE sec' = sec
  BY <1>1 DEF SendKey
<1>2. CASE /\ level_supported(level) /\ sec.seed_issued
           /\ sec' = [spent EXCEPT !.unlocked_level = level, !.fail_count = 0]
  <2>1. level = 1 /\ sec.lock_until_ms = 0 /\ now' = now
    BY <1>2 DEF SendKey, level_supported
  <2>2. sec' = [sec EXCEPT !.seed_issued = FALSE, !.unlocked_level = 1, !.fail_count = 0]
    BY <1>2, <2>1
  <2>3. sec' \in SecurityState
    BY <2>2, Zenon
  <2>4. /\ sec'.unlocked_level = 1
        /\ sec'.lock_until_ms = 0
        /\ sec'.fail_count = 0
        /\ sec'.seed_issued = FALSE
    BY <2>1, <2>2
  <2> QED BY <2>1, <2>3, <2>4, SecurityAssumption
<1>3. CASE /\ sec.seed_issued
           /\ sec' = CountFailure(spent, now)
  <2>1. spent \in SecurityState /\ now \in Nat
    <3>1. spent \in SecurityState
      BY Zenon
    <3>2. now \in Nat
      BY SecurityAccessAssumption
    <3> QED BY <3>1, <3>2
  <2>2. spent.lock_until_ms = 0 /\ spent.fail_count < SECURITY_MAX_FAILS
    BY <1>3, SecurityAssumption
  <2>3. spent.unlocked_level = 0 /\ spent.seed_issued = FALSE
    BY <1>3
  <2>4. /\ sec' \in SecurityState
        /\ sec'.unlocked_level = 0
        /\ sec'.seed_issued = FALSE
        /\ sec'.fail_count <= SECURITY_MAX_FAILS
        /\ sec'.fail_count = SECURITY_MAX_FAILS =>
              sec'.lock_until_ms = now + SECURITY_LOCK_DURATION_MS
        /\ sec'.fail_count # SECURITY_MAX_FAILS => sec'.lock_until_ms = 0
    BY <1>3, <2>1, <2>2, <2>3, CountFailureEffect
  <2> QED BY <2>1, <2>4, SecurityAssumption DEF SendKey
<1>4. \/ sec' = sec
      \/ /\ level_supported(level) /\ sec.seed_issued
         /\ sec' = [spent EXCEPT !.unlocked_level = level, !.fail_count = 0]
      \/ sec.seed_issued /\ sec' = CountFailure(spent, now)
  BY DEF SendKey, security_send_key, Refused
<1> QED BY <1>1, <1>2, <1>3, <1>4

\* The reset that h_ecu_reset writes itself preserves the invariant.
LEMMA ResetIInv == IInv /\ Reset => IInv'
<1> SUFFICES ASSUME IInv, Reset PROVE IInv'
  OBVIOUS
<1>1. sec \in SecurityState /\ now \in 0..MaxTime /\ now' = now /\ sec' = security_reset(sec)
  BY DEF IInv, TypeOK, Reset
<1>2. sec' \in SecurityState
  BY <1>1, Zenon DEF security_reset, SecurityState
<1>3. /\ sec'.unlocked_level = 0
      /\ sec'.seed_issued = FALSE
      /\ sec'.fail_count = 0
      /\ sec'.lock_until_ms = 0
  BY <1>1 DEF security_reset, SecurityState
<1> QED BY <1>1, <1>2, <1>3, SecurityAssumption
        DEF IInv, TypeOK, SecurityConsistent, PendingSeedIsUsable,
            LockOutMatchesFailures, UnlockedIsClean

\* The relock that the S3 thread writes itself preserves the invariant.
LEMMA RelockIInv == IInv /\ Relock => IInv'
BY SecurityAssumption
   DEF IInv, TypeOK, SecurityConsistent, PendingSeedIsUsable, Relock, security_relock,
       LockOutMatchesFailures, UnlockedIsClean, SecurityState

\* The clock preserves the invariant.
LEMMA TickIInv == IInv /\ Tick => IInv'
BY SecurityAccessAssumption
   DEF IInv, TypeOK, SecurityConsistent, PendingSeedIsUsable, Tick,
       LockOutMatchesFailures, UnlockedIsClean

\* Every step preserves the invariant.
LEMMA NextIInv == IInv /\ [Next]_vars => IInv'
<1> SUFFICES ASSUME IInv, [Next]_vars PROVE IInv'
  OBVIOUS
<1>1. ASSUME NEW level \in Levels, NEW raw \in Entropy, RequestSeed(level, raw)
      PROVE  IInv'
  BY <1>1, RequestSeedIInv
<1>2. ASSUME NEW level \in Levels, NEW key \in Keys, SendKey(level, key)
      PROVE  IInv'
  BY <1>2, SendKeyIInv
<1>3. CASE Reset
  BY <1>3, ResetIInv
<1>4. CASE Relock
  BY <1>4, RelockIInv
<1>5. CASE Tick
  BY <1>5, TickIInv
<1>6. CASE UNCHANGED vars
  BY <1>6 DEF vars, IInv, TypeOK, SecurityConsistent, PendingSeedIsUsable,
              LockOutMatchesFailures, UnlockedIsClean
<1> QED BY <1>1, <1>2, <1>3, <1>4, <1>5, <1>6 DEF Next

\* The inductive invariant holds in every reachable state.
THEOREM SecurityInvariant == Spec => []IInv
<1>1. Init => IInv
  BY InitIInv
<1>2. IInv /\ [Next]_vars => IInv'
  BY NextIInv
<1> QED BY <1>1, <1>2, PTL DEF Spec

\* security_state_t keeps its type.
THEOREM TypeCorrect == Spec => []TypeOK
<1>1. IInv => TypeOK
  BY DEF IInv
<1> QED BY <1>1, SecurityInvariant, PTL

\* The fields of security_state_t never contradict each other, for callers in
\* any order: the "defensive" lock-out test of security_send_key never fires.
THEOREM Consistent == Spec => []SecurityConsistent
<1>1. IInv => SecurityConsistent
  BY DEF IInv
<1> QED BY <1>1, SecurityInvariant, PTL

-----------------------------------------------------------------------------

\* Only a reset ends a running lock-out.
THEOREM LockOutStands == Spec => LockOutHolds
<1> DEFINE Stands == LockedOut(sec, now) =>
                       \/ Reset
                       \/ /\ sec'.lock_until_ms = sec.lock_until_ms
                          /\ ~sec'.seed_issued
                          /\ sec'.unlocked_level = 0
<1>1. IInv /\ [Next]_vars => [Stands]_vars
  <2> SUFFICES ASSUME IInv, LockedOut(sec, now), [Next]_vars, ~Reset
               PROVE  /\ sec'.lock_until_ms = sec.lock_until_ms
                      /\ ~sec'.seed_issued
                      /\ sec'.unlocked_level = 0
    OBVIOUS
  <2>1. /\ sec \in SecurityState
        /\ sec.lock_until_ms # 0 /\ now < sec.lock_until_ms
        /\ ~sec.seed_issued
        /\ sec.unlocked_level = 0
    BY SecurityAssumption
       DEF IInv, TypeOK, SecurityConsistent, PendingSeedIsUsable, UnlockedIsClean,
           LockOutMatchesFailures, LockedOut
  <2>2. ASSUME NEW level \in Levels, NEW raw \in Entropy, RequestSeed(level, raw)
        PROVE  sec' = sec
    BY <2>1, <2>2 DEF RequestSeed, security_request_seed, Refused, LockedOut, level_supported
  <2>3. ASSUME NEW level \in Levels, NEW key \in Keys, SendKey(level, key)
        PROVE  sec' = sec
    BY <2>1, <2>3 DEF SendKey, security_send_key, Refused
  <2>4. CASE Relock
    BY <2>1, <2>4 DEF Relock, security_relock, SecurityState
  <2>5. CASE Tick
    BY <2>1, <2>5 DEF Tick
  <2>6. CASE UNCHANGED vars
    BY <2>1, <2>6 DEF vars
  <2> QED BY <2>1, <2>2, <2>3, <2>4, <2>5, <2>6 DEF Next
<1> QED BY <1>1, SecurityInvariant, PTL DEF Spec, LockOutHolds

-----------------------------------------------------------------------------

\* Each critical section of security.c is a step of the abstract protocol, or
\* leaves its state alone.
LEMMA StepImplementsProtocol ==
    IInv /\ IInv' /\ [Next]_vars => [Protocol!Next]_Protocol!vars
<1> SUFFICES ASSUME IInv, IInv', [Next]_vars
             PROVE  [Protocol!Next]_Protocol!vars
  OBVIOUS
<1> USE DEF Protocol!Next, Protocol!vars
<1>1. /\ sec \in SecurityState /\ sec' \in SecurityState
      /\ PendingSeedIsUsable /\ LockOutMatchesFailures /\ UnlockedIsClean
      /\ now \in Nat
  BY SecurityAccessAssumption DEF IInv, TypeOK, SecurityConsistent
<1>2. ASSUME NEW level \in Levels, NEW raw \in Entropy, RequestSeed(level, raw)
      PROVE  [Protocol!Next]_Protocol!vars
  <2>1. CASE sec.unlocked_level # 0 \/ ~level_supported(level) \/ LockedOut(sec, now)
    <3>1. \/ sec' = sec
          \/ sec.unlocked_level # 0 /\ sec' = [sec EXCEPT !.seed_issued = FALSE]
      BY <1>1, <1>2, <2>1
         DEF RequestSeed, security_request_seed, Refused, level_supported, SecurityState
    <3>2. Phase(sec') = Phase(sec) /\ sec'.fail_count = sec.fail_count
             /\ sec'.lock_until_ms = sec.lock_until_ms
      BY <1>1, <3>1 DEF Phase, SecurityState
    <3> QED BY <1>2, <3>2 DEF RequestSeed
  <2>2. CASE sec.unlocked_level = 0 /\ level_supported(level) /\ ~LockedOut(sec, now)
    <3>1. sec' = [ExpireLockOut(sec) EXCEPT !.pending_seed = FreshSeed(raw),
                                            !.seed_issued  = TRUE]
      BY <1>2, <2>2 DEF RequestSeed, security_request_seed, level_supported
    <3>2. CASE sec.lock_until_ms = 0
      <4>1. sec' = [sec EXCEPT !.pending_seed = FreshSeed(raw), !.seed_issued = TRUE]
        BY <3>1, <3>2 DEF ExpireLockOut
      <4>2. /\ Phase(sec') = "challenged" /\ Phase(sec) \in {"locked", "challenged"}
            /\ sec'.fail_count = sec.fail_count /\ sec'.lock_until_ms = sec.lock_until_ms
        BY <1>1, <2>2, <3>2, <4>1 DEF Phase, SecurityState
      <4> QED BY <1>2, <4>2 DEF RequestSeed, Protocol!Challenge
    <3>3. CASE sec.lock_until_ms # 0
      <4>1. sec' = [sec EXCEPT !.lock_until_ms = 0, !.fail_count = 0,
                               !.pending_seed = FreshSeed(raw), !.seed_issued = TRUE]
        BY <3>1, <3>3 DEF ExpireLockOut
      <4>2. /\ Phase(sec') = "challenged" /\ Phase(sec) = "barred"
            /\ sec'.fail_count = 0 /\ sec'.lock_until_ms = 0
        BY <1>1, <2>2, <3>3, <4>1 DEF Phase, SecurityState
      <4>3. now >= sec.lock_until_ms
        BY <1>1, <2>2, <3>3 DEF LockedOut, SecurityState
      <4> QED BY <1>2, <4>2, <4>3 DEF RequestSeed, Protocol!Challenge
    <3> QED BY <3>2, <3>3
  <2> QED BY <1>1, <2>1, <2>2 DEF SecurityState
<1>3. ASSUME NEW level \in Levels, NEW key \in Keys, SendKey(level, key)
      PROVE  [Protocol!Next]_Protocol!vars
  <2> DEFINE spent == [sec EXCEPT !.seed_issued = FALSE]
  <2>1. \/ sec' = sec
        \/ /\ level_supported(level) /\ sec.seed_issued
           /\ sec' = [spent EXCEPT !.unlocked_level = level, !.fail_count = 0]
        \/ sec.seed_issued /\ sec' = CountFailure(spent, now)
    BY <1>3 DEF SendKey, security_send_key, Refused
  <2>2. CASE sec' = sec
    BY <1>3, <2>2 DEF SendKey
  <2>3. CASE /\ level_supported(level) /\ sec.seed_issued
             /\ sec' = [spent EXCEPT !.unlocked_level = level, !.fail_count = 0]
    <3>1. /\ Phase(sec) = "challenged" /\ Phase(sec') = "unlocked"
          /\ sec'.fail_count = 0 /\ sec'.lock_until_ms = sec.lock_until_ms
      BY <1>1, <2>3 DEF Phase, SecurityState, level_supported, PendingSeedIsUsable
    <3> QED BY <1>3, <3>1 DEF SendKey, Protocol!Grant
  <2>4. CASE sec.seed_issued /\ sec' = CountFailure(spent, now)
    <3>1. spent \in SecurityState
      BY <1>1, Zenon DEF SecurityState
    <3>2. /\ spent.lock_until_ms = 0 /\ spent.unlocked_level = 0
          /\ spent.seed_issued = FALSE /\ spent.fail_count = sec.fail_count
          /\ sec.fail_count < SECURITY_MAX_FAILS
          /\ Phase(sec) = "challenged"
      BY <1>1, <2>4, SecurityAssumption
         DEF SecurityState, PendingSeedIsUsable, LockOutMatchesFailures, Phase
    <3> HIDE DEF spent
    <3>3. /\ sec'.unlocked_level = 0
          /\ sec'.seed_issued = FALSE
          /\ sec'.fail_count = sec.fail_count + 1
          /\ sec'.fail_count <= SECURITY_MAX_FAILS
          /\ sec'.fail_count = SECURITY_MAX_FAILS =>
                sec'.lock_until_ms = now + SECURITY_LOCK_DURATION_MS
          /\ sec'.fail_count # SECURITY_MAX_FAILS => sec'.lock_until_ms = 0
      BY <1>1, <2>4, <3>1, <3>2, CountFailureEffect
    <3>4. sec.lock_until_ms = 0
      BY <1>1, <2>4 DEF PendingSeedIsUsable
    <3>5. CASE sec'.fail_count = SECURITY_MAX_FAILS
      <4>1. Phase(sec') = "barred"
        BY <1>1, <3>3, <3>5, SecurityAssumption DEF Phase
      <4> QED BY <1>3, <3>2, <3>3, <3>5, <4>1 DEF SendKey, Protocol!Bar
    <3>6. CASE sec'.fail_count # SECURITY_MAX_FAILS
      <4>1. Phase(sec') = "locked"
        BY <3>3, <3>6 DEF Phase
      <4>2. sec.fail_count + 1 < SECURITY_MAX_FAILS
        BY <1>1, <3>3, <3>6, SecurityAssumption DEF SecurityState
      <4> QED BY <1>3, <3>2, <3>3, <3>4, <3>6, <4>1, <4>2 DEF SendKey, Protocol!Deny
    <3> QED BY <3>5, <3>6
  <2> QED BY <2>1, <2>2, <2>3, <2>4
<1>4. CASE Reset
  <2>1. /\ sec'.unlocked_level = 0 /\ sec'.seed_issued = FALSE
        /\ sec'.fail_count = 0 /\ sec'.lock_until_ms = 0
    BY <1>1, <1>4 DEF Reset, security_reset, SecurityState
  <2>2. Phase(sec') = "locked"
    BY <2>1 DEF Phase
  <2> QED BY <1>4, <2>1, <2>2 DEF Reset, Protocol!Restart
<1>5. CASE Relock
  <2>1. /\ sec'.unlocked_level = 0 /\ sec'.seed_issued = FALSE
        /\ sec'.fail_count = sec.fail_count /\ sec'.lock_until_ms = sec.lock_until_ms
    BY <1>1, <1>5 DEF Relock, security_relock, SecurityState
  <2>2. CASE sec.lock_until_ms # 0
    <3>1. Phase(sec) = "barred" /\ Phase(sec') = "barred"
      BY <1>1, <2>1, <2>2, SecurityAssumption
         DEF Phase, UnlockedIsClean, LockOutMatchesFailures
    <3> QED BY <1>5, <2>1, <3>1 DEF Relock
  <2>3. CASE sec.lock_until_ms = 0
    <3>1. Phase(sec') = "locked" /\ Phase(sec) \in {"locked", "challenged", "unlocked"}
      BY <2>1, <2>3 DEF Phase
    <3> QED BY <1>5, <2>1, <3>1 DEF Relock, Protocol!Withdraw
  <2> QED BY <2>2, <2>3
<1>6. CASE Tick
  BY <1>6 DEF Tick, Protocol!Tick
<1>7. CASE UNCHANGED vars
  BY <1>7 DEF vars
<1> QED BY <1>2, <1>3, <1>4, <1>5, <1>6, <1>7 DEF Next

\* security.c implements the seed/key protocol of include/security.h: access
\* is only ever reached through an outstanding challenge, and a bar only ends
\* by its delay or by a reset.
THEOREM ProtocolRefinement == Spec => ImplementsProtocol
<1>1. Init => Protocol!Init
  BY DEF Init, Protocol!Init, security_init, Phase
<1>2. IInv /\ IInv' /\ [Next]_vars => [Protocol!Next]_Protocol!vars
  BY StepImplementsProtocol
<1> QED BY <1>1, <1>2, SecurityInvariant, PTL DEF Spec, ImplementsProtocol, Protocol!Spec

-----------------------------------------------------------------------------
(* The rate limit on wrong keys, for every MAX_FAILS and every delay. *)

\* The inductive invariant: RateLimited needs to know how old the guesses of
\* the earlier rounds are, and that needs the consistency of security.c.
GInv == IInv /\ GuessesBehindDelay /\ RateLimited

\* How security_send_key relates the state to the history: it leaves both
\* alone, clears both, or counts one more failure and records it.
LEMMA GuessCases ==
    ASSUME IInv, NEW level \in Levels, NEW key \in Keys, GSendKey(level, key)
    PROVE  \/ sec' = sec /\ guesses' = guesses
           \/ sec'.fail_count = 0 /\ guesses' = <<>>
           \/ /\ sec.fail_count < SECURITY_MAX_FAILS
              /\ sec'.fail_count = sec.fail_count + 1
              /\ sec'.fail_count = SECURITY_MAX_FAILS =>
                    sec'.lock_until_ms = now + SECURITY_LOCK_DURATION_MS
              /\ guesses' = Append(guesses, now)
<1> DEFINE spent == [sec EXCEPT !.seed_issued = FALSE]
<1>0. sec \in SecurityState /\ now \in Nat
  BY SecurityAccessAssumption DEF IInv, TypeOK
<1>1. CASE ~level_supported(level) \/ ~sec.seed_issued \/ LockedOut(sec, now)
  BY <1>1 DEF GSendKey, SendKey, RecordGuess, security_send_key, Refused, OK, FAILED,
     UDS_NRC_SUB_FUNCTION_NOT_SUPPORTED, UDS_NRC_REQUEST_SEQUENCE_ERROR,
     UDS_NRC_REQUIRED_TIME_DELAY_NOT_EXPIRED, UDS_NRC_INVALID_KEY,
     UDS_NRC_EXCEEDED_NUMBER_OF_ATTEMPTS
<1>2. CASE /\ ~(~level_supported(level) \/ ~sec.seed_issued \/ LockedOut(sec, now))
           /\ key = KeyFor(sec.pending_seed)
  <2>1. /\ sec' = [spent EXCEPT !.unlocked_level = level, !.fail_count = 0]
        /\ guesses' = <<>>
    BY <1>2 DEF GSendKey, SendKey, RecordGuess, security_send_key, OK, NO_NRC,
       UDS_NRC_INVALID_KEY, UDS_NRC_EXCEEDED_NUMBER_OF_ATTEMPTS
  <2> QED BY <1>0, <2>1 DEF SecurityState
<1>3. CASE /\ ~(~level_supported(level) \/ ~sec.seed_issued \/ LockedOut(sec, now))
           /\ key # KeyFor(sec.pending_seed)
  <2>1. /\ sec' = CountFailure(spent, now)
        /\ guesses' = Append(guesses, now)
    BY <1>3 DEF GSendKey, SendKey, RecordGuess, security_send_key, OK, FAILED
  <2>2. spent \in SecurityState
    BY <1>0, Zenon DEF SecurityState
  <2>3. /\ spent.lock_until_ms = 0 /\ spent.fail_count = sec.fail_count
        /\ sec.fail_count < SECURITY_MAX_FAILS
    BY <1>0, <1>3, SecurityAssumption
       DEF SecurityState, IInv, SecurityConsistent, PendingSeedIsUsable, LockOutMatchesFailures
  <2> HIDE DEF spent
  <2> QED BY <1>0, <2>1, <2>2, <2>3, CountFailureEffect
<1> QED BY <1>1, <1>2, <1>3

\* A step that keeps the history, the failures and the lock-out keeps both
\* invariants, whatever happens to the seed and the access.
LEMMA HistoryKept ==
    ASSUME GInv, IInv', guesses' = guesses, now' = now,
           sec'.fail_count = sec.fail_count, sec'.lock_until_ms = sec.lock_until_ms
    PROVE  GuessesBehindDelay' /\ RateLimited'
BY DEF GInv, GuessesBehindDelay, RateLimited

\* A step that empties the history and the failure count establishes them.
LEMMA HistoryCleared ==
    ASSUME IInv', guesses' = <<>>, sec'.fail_count = 0
    PROVE  GuessesBehindDelay' /\ RateLimited'
BY SecurityAssumption DEF GuessesBehindDelay, RateLimited

\* A new seed keeps them: an expired lock-out is a delay behind every guess.
LEMMA GRequestSeedInv ==
    ASSUME GInv, IInv', NEW level \in Levels, NEW raw \in Entropy, GRequestSeed(level, raw)
    PROVE  GuessesBehindDelay' /\ RateLimited'
<1>0. /\ sec \in SecurityState /\ now \in Nat /\ now' = now /\ guesses' = guesses
      /\ LockOutMatchesFailures
  BY SecurityAccessAssumption
     DEF GInv, IInv, TypeOK, SecurityConsistent, GRequestSeed, RequestSeed
<1>1. CASE sec'.fail_count = sec.fail_count /\ sec'.lock_until_ms = sec.lock_until_ms
  BY <1>0, <1>1, HistoryKept
<1>2. CASE /\ sec.lock_until_ms # 0 /\ ~LockedOut(sec, now)
           /\ sec'.fail_count = 0
  <2>1. sec.fail_count = SECURITY_MAX_FAILS /\ sec.lock_until_ms <= now
    BY <1>0, <1>2 DEF LockedOut, LockOutMatchesFailures, SecurityState
  <2>2. \A i \in 1..Len(guesses) : guesses[i] + SECURITY_LOCK_DURATION_MS <= now
    BY <1>0, <2>1, SecurityAssumption DEF GInv, GuessesBehindDelay, SecurityState
  <2> QED BY <1>0, <1>2, <2>2, SecurityAssumption DEF GInv, GuessesBehindDelay, RateLimited
<1>3. \/ sec'.fail_count = sec.fail_count /\ sec'.lock_until_ms = sec.lock_until_ms
      \/ /\ sec.lock_until_ms # 0 /\ ~LockedOut(sec, now)
         /\ sec'.fail_count = 0
  <2>1. \/ sec' = sec
        \/ sec' = [sec EXCEPT !.seed_issued = FALSE]
        \/ /\ ~LockedOut(sec, now)
           /\ sec' = [ExpireLockOut(sec) EXCEPT !.pending_seed = FreshSeed(raw),
                                                !.seed_issued  = TRUE]
    BY DEF GRequestSeed, RequestSeed, security_request_seed, Refused
  <2> QED BY <1>0, <2>1 DEF ExpireLockOut, SecurityState
<1> QED BY <1>1, <1>2, <1>3

\* A key keeps them: the guess it records is a delay after the round before.
LEMMA GSendKeyInv ==
    ASSUME GInv, IInv', NEW level \in Levels, NEW key \in Keys, GSendKey(level, key)
    PROVE  GuessesBehindDelay' /\ RateLimited'
<1>0. /\ sec \in SecurityState /\ sec' \in SecurityState /\ now \in Nat /\ now' = now
      /\ guesses \in Seq(Nat)
  BY SecurityAccessAssumption DEF GInv, IInv, TypeOK, GSendKey, SendKey, GuessesBehindDelay
<1>1. CASE sec' = sec /\ guesses' = guesses
  BY <1>0, <1>1, HistoryKept
<1>2. CASE sec'.fail_count = 0 /\ guesses' = <<>>
  BY <1>2, HistoryCleared
<1>3. CASE /\ sec.fail_count < SECURITY_MAX_FAILS
           /\ sec'.fail_count = sec.fail_count + 1
           /\ sec'.fail_count = SECURITY_MAX_FAILS =>
                 sec'.lock_until_ms = now + SECURITY_LOCK_DURATION_MS
           /\ guesses' = Append(guesses, now)
  <2> DEFINE n == Len(guesses)
  <2>1. /\ guesses' \in Seq(Nat) /\ Len(guesses') = n + 1 /\ n \in Nat
        /\ guesses'[n + 1] = now
        /\ \A i \in 1..n : guesses'[i] = guesses[i] /\ guesses[i] \in Nat
    BY <1>0, <1>3
  <2>2. /\ \A i \in 1..(n - sec.fail_count) :
              guesses[i] + SECURITY_LOCK_DURATION_MS <= now
        /\ \A i \in 1..n : guesses[i] <= now
        /\ sec.fail_count <= n
    BY <1>3 DEF GInv, GuessesBehindDelay
  <2>3. RateLimited'
    <3> SUFFICES ASSUME NEW i \in 1..(n + 1), i + SECURITY_MAX_FAILS <= n + 1
                 PROVE  guesses'[i] + SECURITY_LOCK_DURATION_MS
                           <= guesses'[i + SECURITY_MAX_FAILS]
      BY <2>1 DEF RateLimited
    <3>1. i \in 1..n
      BY <2>1, SecurityAssumption
    <3>2. CASE i + SECURITY_MAX_FAILS <= n
      <4>1. i + SECURITY_MAX_FAILS \in 1..n
        BY <2>1, <3>1, <3>2, SecurityAssumption
      <4>2. guesses[i] + SECURITY_LOCK_DURATION_MS <= guesses[i + SECURITY_MAX_FAILS]
        BY <3>1, <3>2 DEF GInv, RateLimited
      <4>3. /\ guesses'[i] = guesses[i]
            /\ guesses'[i + SECURITY_MAX_FAILS] = guesses[i + SECURITY_MAX_FAILS]
        BY <2>1, <3>1, <4>1
      <4> QED BY ONLY <4>2, <4>3
    <3>3. CASE i + SECURITY_MAX_FAILS = n + 1
      <4>1. i \in 1..(n - sec.fail_count)
        BY <1>0, <1>3, <2>1, <3>1, <3>3, SecurityAssumption DEF SecurityState
      <4>2. guesses'[i] = guesses[i] /\ guesses'[i + SECURITY_MAX_FAILS] = now
        BY <2>1, <3>1, <3>3
      <4>3. guesses[i] + SECURITY_LOCK_DURATION_MS <= now
        BY <2>2, <4>1
      <4>4. guesses[i] \in Nat /\ now \in Nat /\ SECURITY_LOCK_DURATION_MS \in Nat
        BY <1>0, <2>1, <3>1, SecurityAssumption
      <4> QED BY ONLY <4>2, <4>3, <4>4
    <3>4. i + SECURITY_MAX_FAILS <= n \/ i + SECURITY_MAX_FAILS = n + 1
      BY <2>1, SecurityAssumption
    <3> QED BY ONLY <3>2, <3>3, <3>4
  <2>4. GuessesBehindDelay'
    <3>1. \A i \in 1..(n + 1) : guesses'[i] <= now
      BY <1>0, <2>1, <2>2
    <3>2. \A i \in 1..((n + 1) - sec'.fail_count) :
              guesses'[i] + SECURITY_LOCK_DURATION_MS <= now
      BY <1>0, <1>3, <2>1, <2>2, SecurityAssumption DEF SecurityState
    <3>3. \A i \in 1..(n + 1) :
              guesses'[i] + SECURITY_LOCK_DURATION_MS <= now + SECURITY_LOCK_DURATION_MS
      BY <1>0, <2>1, <3>1, SecurityAssumption
    <3>4. sec'.fail_count <= n + 1
      BY <1>0, <1>3, <2>1, <2>2 DEF SecurityState
    <3> QED BY <1>0, <1>3, <2>1, <3>1, <3>2, <3>3, <3>4 DEF GuessesBehindDelay
  <2> QED BY <2>3, <2>4
<1> QED BY <1>1, <1>2, <1>3, GuessCases DEF GInv

\* Every step keeps the inductive invariant.
LEMMA GNextInv == GInv /\ [GNext]_gvars => GInv'
<1> SUFFICES ASSUME GInv, [GNext]_gvars PROVE GInv'
  OBVIOUS
<1>1. IInv'
  <2>1. IInv /\ [Next]_vars
    BY DEF GInv, GNext, gvars, Next, GRequestSeed, GSendKey, GReset, GRelock, GTick
  <2> QED BY <2>1, NextIInv
<1> SUFFICES GuessesBehindDelay' /\ RateLimited'
  BY <1>1 DEF GInv
<1>2. ASSUME NEW level \in Levels, NEW raw \in Entropy, GRequestSeed(level, raw)
      PROVE  GuessesBehindDelay' /\ RateLimited'
  BY <1>1, <1>2, GRequestSeedInv
<1>3. ASSUME NEW level \in Levels, NEW key \in Keys, GSendKey(level, key)
      PROVE  GuessesBehindDelay' /\ RateLimited'
  BY <1>1, <1>3, GSendKeyInv
<1>4. CASE GReset
  <2>1. sec'.fail_count = 0 /\ guesses' = <<>>
    BY <1>4 DEF GReset, Reset, security_reset, GInv, IInv, TypeOK, SecurityState
  <2> QED BY <1>1, <2>1, HistoryCleared
<1>5. CASE GRelock
  <2>1. /\ sec'.fail_count = sec.fail_count /\ sec'.lock_until_ms = sec.lock_until_ms
        /\ guesses' = guesses /\ now' = now
    BY <1>5 DEF GRelock, Relock, security_relock, GInv, IInv, TypeOK, SecurityState
  <2> QED BY <1>1, <2>1, HistoryKept
<1>6. CASE GTick
  <2>1. now \in Nat /\ now' = now + 1 /\ sec' = sec /\ guesses' = guesses
    BY <1>6, SecurityAccessAssumption DEF GTick, Tick, GInv, IInv, TypeOK
  <2>2. \A i \in 1..Len(guesses) : guesses[i] \in Nat
    BY DEF GInv, GuessesBehindDelay
  <2>3. \A i \in 1..Len(guesses) : guesses[i] <= now'
    BY <2>1, <2>2 DEF GInv, GuessesBehindDelay
  <2>4. sec.fail_count < SECURITY_MAX_FAILS =>
           \A i \in 1..(Len(guesses) - sec.fail_count) :
               guesses[i] + SECURITY_LOCK_DURATION_MS <= now'
    <3> SUFFICES ASSUME sec.fail_count < SECURITY_MAX_FAILS,
                        NEW i \in 1..(Len(guesses) - sec.fail_count)
                 PROVE  guesses[i] + SECURITY_LOCK_DURATION_MS <= now'
      OBVIOUS
    <3>1. guesses[i] + SECURITY_LOCK_DURATION_MS <= now
      BY DEF GInv, GuessesBehindDelay
    <3>2. i \in 1..Len(guesses)
      BY DEF GInv, GuessesBehindDelay, IInv, TypeOK, SecurityState
    <3> QED BY <2>1, <2>2, <3>1, <3>2, SecurityAssumption
  <2> QED BY <2>1, <2>3, <2>4 DEF GInv, GuessesBehindDelay, RateLimited
<1>7. CASE UNCHANGED gvars
  BY <1>1, <1>7, HistoryKept DEF gvars, vars
<1> QED BY <1>2, <1>3, <1>4, <1>5, <1>6, <1>7 DEF GNext

\* A guess and the MAX_FAILS-th one after it are a whole lock-out apart: the
\* anti-bruteforce promise of include/security.h, between two resets or
\* right keys, for callers in any order.
THEOREM GuessRate == GSpec => []RateLimited
<1>1. GInit => GInv
  BY InitIInv, SecurityAssumption
     DEF GInit, GInv, GuessesBehindDelay, RateLimited, Init, security_init
<1>2. GInv /\ [GNext]_gvars => GInv'
  BY GNextInv
<1>3. GInv => RateLimited
  BY DEF GInv
<1> QED BY <1>1, <1>2, <1>3, PTL DEF GSpec
=============================================================================
