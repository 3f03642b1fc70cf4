----------------------------- MODULE Vecu_proofs -----------------------------
(***************************************************************************)
(* Proofs about Vecu, for every set of requests, every timeout, delay and  *)
(* buffer size that satisfy the assumptions of Vecu.                       *)
(***************************************************************************)
EXTENDS Vecu, Security_proofs, FiniteSetTheorems

-----------------------------------------------------------------------------
(* What the handlers' helpers return. *)

\* Every response a handler can build has its type.
LEMMA ResponseTypes ==
    /\ \A nrc \in NRCs : build_nrc(nrc) \in Responses
    /\ \A len \in Nat : Positive(len) \in Responses
    /\ \A r : \A len \in Nat, seed \in Nat : PositiveSub(r, len, seed) \in Responses
    /\ NoResponse \in Responses
BY DEF build_nrc, Positive, PositiveSub, NoResponse, Responses

\* The codes that the handlers name are codes.
LEMMA HandlerNrcs ==
    ASSUME NEW r
    PROVE  /\ SecurityAccessNrc(r) \in NRCs \cup {NO_NRC}
           /\ WriteDidNrc(r) \in NRCs \cup {NO_NRC}
BY DEF SecurityAccessNrc, WriteDidNrc, NRCs

\* A sub-function byte names a level that fits a byte.
LEMMA LevelType ==
    ASSUME NEW r \in Requests
    PROVE  Level(r) \in Nat
BY VecuAssumption DEF Level, Sub, Bytes

\* DTC memory never holds more than vecu_init stored, so a snapshot has a size.
LEMMA SnapshotSize ==
    ASSUME dtcs \subseteq DtcsAtBoot, NEW mask
    PROVE  Cardinality(dtc_mem_snapshot_by_mask(dtcs, mask)) \in Nat
<1>1. IsFiniteSet(DtcsAtBoot)
  <2> DEFINE failed == {DTC_STATUS_TEST_FAILED, DTC_STATUS_CONFIRMED,
                        DTC_STATUS_TEST_FAILED_SINCE_LAST_CLEAR}
             a == [dtc |-> "P0301", status |-> failed]
             b == [dtc |-> "P0420", status |-> failed]
  <2>1. DtcsAtBoot = {a} \cup {b}
    BY DEF DtcsAtBoot
  <2> HIDE DEF a, b
  <2>2. IsFiniteSet({a}) /\ IsFiniteSet({b})
    BY FS_Singleton
  <2> QED BY <2>1, <2>2, FS_Union
<1>2. dtc_mem_snapshot_by_mask(dtcs, mask) \subseteq DtcsAtBoot
  BY DEF dtc_mem_snapshot_by_mask
<1>3. IsFiniteSet(dtc_mem_snapshot_by_mask(dtcs, mask))
  BY <1>1, <1>2, FS_Subset
<1> QED BY <1>3, FS_CardinalityType

\* A read is refused with a code, or answered with what it asked for, which
\* fits the buffer.
LEMMA ReadForms ==
    ASSUME dtcs \subseteq DtcsAtBoot, owner.len \in Nat, NEW r \in Requests
    PROVE  /\ \/ \E nrc \in NRCs : ReadDtcResponse(r) = build_nrc(nrc)
              \/ \E len \in Nat \ {0} :
                    len <= RESP_CAP /\ ReadDtcResponse(r) = PositiveSub(r, len, 0)
           /\ \/ \E nrc \in NRCs : ReadDidResponse(r) = build_nrc(nrc)
              \/ \E len \in Nat \ {0} : len <= RESP_CAP /\ ReadDidResponse(r) = Positive(len)
<1>0. r.len \in Nat /\ Sub(r) \in Nat
  BY VecuAssumption DEF Sub, Bytes
<1>1. \/ \E nrc \in NRCs : ReadDtcResponse(r) = build_nrc(nrc)
      \/ \E len \in Nat \ {0} :
            len <= RESP_CAP /\ ReadDtcResponse(r) = PositiveSub(r, len, 0)
  <2> DEFINE need == 3 + 4 * Cardinality(dtc_mem_snapshot_by_mask(dtcs, r.mask))
  <2>1. need \in Nat \ {0}
    BY SnapshotSize
  <2> HIDE DEF need
  <2>2. \/ \E nrc \in NRCs : ReadDtcResponse(r) = build_nrc(nrc)
        \/ need <= RESP_CAP /\ ReadDtcResponse(r) = PositiveSub(r, need, 0)
    BY <1>0, <2>1, VecuAssumption DEF ReadDtcResponse, need, NRCs
  <2> QED BY <2>1, <2>2
<1>2. \/ \E nrc \in NRCs : ReadDidResponse(r) = build_nrc(nrc)
      \/ \E len \in Nat \ {0} : len <= RESP_CAP /\ ReadDidResponse(r) = Positive(len)
  <2> DEFINE need == 3 + did_payload_len(r.did, owner)
  <2>1. did_known(r.did) => need \in Nat \ {0}
    <3>1. ASSUME NEW d \in DIDs PROVE did_table[d].len \in Nat
      BY DEF did_table
    <3>2. did_known(r.did) => did_payload_len(r.did, owner) \in Nat
      BY <3>1 DEF did_payload_len, did_known
    <3> QED BY <3>2
  <2> HIDE DEF need
  <2>2. \/ \E nrc \in NRCs : ReadDidResponse(r) = build_nrc(nrc)
        \/ did_known(r.did) /\ need <= RESP_CAP /\ ReadDidResponse(r) = Positive(need)
    BY <1>0, <2>1, VecuAssumption DEF ReadDidResponse, need, NRCs
  <2> QED BY <2>1, <2>2
<1> QED BY <1>1, <1>2

\* Reads answer within the buffer.
LEMMA ReadResponses ==
    ASSUME dtcs \subseteq DtcsAtBoot, owner.len \in Nat, NEW r \in Requests
    PROVE  /\ ReadDtcResponse(r) \in Responses /\ ReadDtcResponse(r).len <= RESP_CAP
           /\ ReadDidResponse(r) \in Responses /\ ReadDidResponse(r).len <= RESP_CAP
<1>1. ReadDtcResponse(r) \in Responses /\ ReadDtcResponse(r).len <= RESP_CAP
  BY ReadForms, ResponseTypes, VecuAssumption DEF build_nrc, PositiveSub
<1>2. ReadDidResponse(r) \in Responses /\ ReadDidResponse(r).len <= RESP_CAP
  BY ReadForms, ResponseTypes, VecuAssumption DEF build_nrc, Positive
<1> QED BY <1>1, <1>2

-----------------------------------------------------------------------------
(* The inductive invariant. *)

\* Between its look at the session and owner_write, h_write_did has a request
\* for a guarded DID; as long as the ECU is still unlocked, it was so when the
\* session was looked at, because the S3 thread only takes access away.
WriteInFlight ==
    /\ dpc \in {"write_security", "write_owner"} => req.len >= 4
    /\ dpc = "write_security" =>
          /\ req.did \in DIDs
          /\ did_table[req.did].requires_security
          /\ Unlocked => authorised

\* If the S3 thread reverted the session while h_security_access was between
\* its two critical sections, it is about to relock, or it has and the key on
\* its way finds no seed.
SecurityInFlight ==
    dpc = "security" /\ session = UDS_SESSION_DEFAULT =>
        spc = "relock" \/ (~Unlocked /\ ~sec.seed_issued)

Safe == /\ WriteWasAuthorised
        /\ DefaultSessionLocked
        /\ ResponseFits
        /\ WriteInFlight
        /\ SecurityInFlight

VInv == TypeOK /\ Safe

\* vecu_init establishes the invariant.
LEMMA InitVInv == Init => VInv
<1> SUFFICES ASSUME Init PROVE VInv
  OBVIOUS
<1>1. sec \in SecurityState /\ ~Unlocked
  BY DEF Init, security_init, SecurityState, Unlocked, security_is_unlocked
<1>2. TypeOK
  <2>1. owner.len \in 1..OWNER_NAME_CAP /\ owner.name = "ANONYMOUS"
    BY VecuDataAssumption DEF Init, OwnerAtBoot
  <2>2. resp \in Responses
    BY ResponseTypes DEF Init
  <2>3. now \in 0..MaxTime /\ last_tp \in 0..now /\ s_now \in 0..now /\ s_last_tp \in 0..now
    BY VecuAssumption DEF Init
  <2> QED BY <1>1, <2>1, <2>2, <2>3 DEF Init, TypeOK, Sessions
<1>3. Safe
  BY <1>1 DEF Init, Safe, WriteWasAuthorised, DefaultSessionLocked, ResponseFits,
              WriteInFlight, SecurityInFlight
<1> QED BY <1>2, <1>3 DEF VInv

\* A handler that returns a response that fits, and has changed nothing else,
\* preserves the invariant.
LEMMA ReturnVInv ==
    ASSUME VInv, dpc \notin {"pop", "reset_security"}, NEW r \in Responses, r.len <= RESP_CAP, Return(r),
           UNCHANGED <<ecuVars, now, authorised, s3Vars, defaultBy>>
    PROVE  VInv'
<1>1. TypeOK'
  BY DEF VInv, TypeOK, Return, ecuVars, s3Vars
<1>2. /\ session' = session /\ sec' = sec /\ spc' = spc /\ defaultBy' = defaultBy
      /\ dpc' = "respond" /\ resp' = r
  BY DEF Return, ecuVars, s3Vars
<1>3. dpc # "reset_security" => DefaultSessionLocked'
  BY <1>2 DEF VInv, Safe, DefaultSessionLocked, Unlocked
<1>4. Safe'
  BY <1>2, <1>3
     DEF Safe, WriteWasAuthorised, ResponseFits, WriteInFlight, SecurityInFlight
<1> QED BY <1>1, <1>4 DEF VInv

\* In particular every negative response does.
LEMMA RefuseVInv ==
    ASSUME VInv, dpc \notin {"pop", "reset_security"}, NEW nrc \in NRCs, Return(build_nrc(nrc)),
           UNCHANGED <<ecuVars, now, authorised, s3Vars, defaultBy>>
    PROVE  VInv'
<1>1. build_nrc(nrc) \in Responses /\ build_nrc(nrc).len <= RESP_CAP
  BY ResponseTypes, VecuAssumption DEF build_nrc
<1> QED BY <1>1, ReturnVInv

\* Positive responses of the fixed lengths the handlers use fit the buffer.
LEMMA PositiveFits ==
    ASSUME NEW r, NEW len \in 0..6, NEW seed \in Nat
    PROVE  /\ Positive(len) \in Responses /\ Positive(len).len <= RESP_CAP
           /\ PositiveSub(r, len, seed) \in Responses
           /\ PositiveSub(r, len, seed).len <= RESP_CAP
BY ResponseTypes, VecuAssumption DEF Positive, PositiveSub

\* A request is taken from the queue.
LEMMA PopVInv ==
    ASSUME VInv, NEW r \in Requests, Pop(r)
    PROVE  VInv'
<1>1. TypeOK'
  BY DEF VInv, TypeOK, Pop, ecuVars, s3Vars
<1>2. Safe'
  BY DEF VInv, Safe, WriteWasAuthorised, DefaultSessionLocked, ResponseFits, Unlocked,
         WriteInFlight, SecurityInFlight, Pop, ecuVars, s3Vars
<1> QED BY <1>1, <1>2 DEF VInv

\* 0x10 preserves the invariant.
LEMMA SessionControlVInv == VInv /\ h_session_control => VInv'
<1> SUFFICES ASSUME VInv, h_session_control PROVE VInv'
  OBVIOUS
<1>1. CASE /\ \/ Return(build_nrc(UDS_NRC_INCORRECT_MESSAGE_LENGTH))
              \/ Return(build_nrc(UDS_NRC_SUB_FUNCTION_NOT_SUPPORTED))
           /\ UNCHANGED <<session, last_tp, defaultBy>>
  BY <1>1, RefuseVInv DEF h_session_control, Handling, NRCs, ecuVars
<1>2. CASE /\ Sub(req) \in Sessions
           /\ vecu_set_session(Sub(req), "tester")
           /\ Return(IF RESP_CAP < 6 THEN NoResponse ELSE PositiveSub(req, 6, 0))
  <2>1. resp' \in Responses /\ resp'.len <= RESP_CAP
    BY <1>2, PositiveFits, VecuAssumption DEF Return
  <2>2. TypeOK'
    BY <1>2, <2>1 DEF VInv, TypeOK, h_session_control, Handling, vecu_set_session, Return, s3Vars
  <2>3. Safe'
    BY <1>2, <2>1 DEF VInv, Safe, WriteWasAuthorised, DefaultSessionLocked, ResponseFits,
       Unlocked, WriteInFlight, SecurityInFlight, h_session_control, Handling,
       vecu_set_session, Return, s3Vars
  <2> QED BY <2>2, <2>3 DEF VInv
<1> QED BY <1>1, <1>2 DEF h_session_control

\* 0x11 preserves the invariant: the first critical section hands over to the
\* second, which locks.
LEMMA EcuResetVInv == VInv /\ h_ecu_reset => VInv'
<1> SUFFICES ASSUME VInv, h_ecu_reset PROVE VInv'
  OBVIOUS
<1>1. CASE /\ \/ Return(build_nrc(UDS_NRC_INCORRECT_MESSAGE_LENGTH))
              \/ Return(build_nrc(UDS_NRC_SUB_FUNCTION_NOT_SUPPORTED))
           /\ UNCHANGED <<session, last_tp, defaultBy>>
  BY <1>1, RefuseVInv DEF h_ecu_reset, Handling, NRCs, ecuVars
<1>2. CASE vecu_set_session(UDS_SESSION_DEFAULT, "reset") /\ GoTo("reset_security")
  <2>1. TypeOK'
    BY <1>2 DEF VInv, TypeOK, h_ecu_reset, Handling, vecu_set_session, GoTo, s3Vars, Sessions
  <2>2. Safe'
    BY <1>2 DEF VInv, Safe, WriteWasAuthorised, DefaultSessionLocked, ResponseFits,
       Unlocked, WriteInFlight, SecurityInFlight, h_ecu_reset, Handling,
       vecu_set_session, GoTo, s3Vars
  <2> QED BY <2>1, <2>2 DEF VInv
<1> QED BY <1>1, <1>2 DEF h_ecu_reset

\* ... and the second.
LEMMA EcuResetSecurityVInv == VInv /\ h_ecu_reset_security => VInv'
<1> SUFFICES ASSUME VInv, h_ecu_reset_security PROVE VInv'
  OBVIOUS
<1>1. resp' \in Responses /\ resp'.len <= RESP_CAP
  BY PositiveFits DEF h_ecu_reset_security, Return
<1>2. sec' \in SecurityState /\ ~Unlocked'
  BY ResetResult DEF VInv, TypeOK, h_ecu_reset_security, Unlocked, security_is_unlocked, SecurityState
<1>3. TypeOK'
  BY <1>1, <1>2 DEF VInv, TypeOK, h_ecu_reset_security, Return, s3Vars
<1>4. Safe'
  BY <1>1, <1>2 DEF VInv, Safe, WriteWasAuthorised, DefaultSessionLocked, ResponseFits,
     WriteInFlight, SecurityInFlight, h_ecu_reset_security, Return, s3Vars
<1> QED BY <1>3, <1>4 DEF VInv

\* 0x14 preserves the invariant.
LEMMA ClearDtcVInv == VInv /\ h_clear_dtc => VInv'
<1> SUFFICES ASSUME VInv, h_clear_dtc PROVE VInv'
  OBVIOUS
<1>1. CASE /\ \/ Return(build_nrc(UDS_NRC_INCORRECT_MESSAGE_LENGTH))
              \/ Return(build_nrc(UDS_NRC_REQUEST_OUT_OF_RANGE))
           /\ UNCHANGED dtcs
  BY <1>1, RefuseVInv DEF h_clear_dtc, Handling, NRCs, ecuVars
<1>2. CASE dtcs' = dtc_mem_clear_all(dtcs) /\ Return(Positive(1))
  <2>1. resp' \in Responses /\ resp'.len <= RESP_CAP
    BY <1>2, PositiveFits DEF Return
  <2>2. TypeOK'
    BY <1>2, <2>1 DEF VInv, TypeOK, h_clear_dtc, Handling, dtc_mem_clear_all, Return, s3Vars
  <2>3. Safe'
    BY <1>2, <2>1 DEF VInv, Safe, WriteWasAuthorised, DefaultSessionLocked, ResponseFits,
       Unlocked, WriteInFlight, SecurityInFlight, h_clear_dtc, Handling, Return, s3Vars
  <2> QED BY <2>2, <2>3 DEF VInv
<1> QED BY <1>1, <1>2 DEF h_clear_dtc

\* The reads, and a request no handler knows, preserve the invariant.
LEMMA ReadVInv == VInv /\ (h_read_dtc \/ h_read_did \/ service_not_supported) => VInv'
<1> SUFFICES ASSUME VInv, h_read_dtc \/ h_read_did \/ service_not_supported PROVE VInv'
  OBVIOUS
<1>1. dtcs \subseteq DtcsAtBoot /\ owner.len \in Nat /\ (dpc # "pop" => req \in Requests)
  BY VecuDataAssumption DEF VInv, TypeOK
<1>2. CASE h_read_dtc
  BY <1>1, <1>2, ReadResponses, ReturnVInv DEF h_read_dtc, Handling
<1>3. CASE h_read_did
  BY <1>1, <1>3, ReadResponses, ReturnVInv DEF h_read_did, Handling
<1>4. CASE service_not_supported
  BY <1>4, RefuseVInv DEF service_not_supported, NRCs
<1> QED BY <1>2, <1>3, <1>4

\* 0x27, the look at the session: h_security_access goes on to its second
\* critical section only in a non-default session.
LEMMA SecurityAccessVInv == VInv /\ h_security_access => VInv'
<1> SUFFICES ASSUME VInv, h_security_access PROVE VInv'
  OBVIOUS
<1>1. CASE SecurityAccessNrc(req) # NO_NRC /\ Return(build_nrc(SecurityAccessNrc(req)))
  <2>1. SecurityAccessNrc(req) \in NRCs
    BY <1>1, HandlerNrcs
  <2> QED BY <1>1, <2>1, RefuseVInv DEF h_security_access, Handling
<1>2. CASE SecurityAccessNrc(req) = NO_NRC /\ GoTo("security")
  <2>0. req.len \in Nat
    BY VecuAssumption DEF VInv, TypeOK, Handling, h_security_access
  <2>a. is_extended_session
    BY <1>2, <2>0 DEF SecurityAccessNrc, NO_NRC, UDS_NRC_INCORRECT_MESSAGE_LENGTH,
       UDS_NRC_SERVICE_NOT_SUPPORTED_IN_SESSION
  <2>1. session # UDS_SESSION_DEFAULT
    BY <2>a DEF is_extended_session, UDS_SESSION_DEFAULT, UDS_SESSION_EXTENDED,
       UDS_SESSION_PROGRAMMING
  <2>2. TypeOK'
    BY <1>2 DEF VInv, TypeOK, h_security_access, Handling, GoTo, ecuVars, s3Vars
  <2>3. Safe'
    BY <1>2, <2>1 DEF VInv, Safe, WriteWasAuthorised, DefaultSessionLocked, ResponseFits,
       Unlocked, WriteInFlight, SecurityInFlight, h_security_access, GoTo, ecuVars, s3Vars
  <2> QED BY <2>2, <2>3 DEF VInv
<1> QED BY <1>1, <1>2 DEF h_security_access

\* The response to a security function fits.
LEMMA SecurityResponseFits ==
    ASSUME NEW r, NEW out, NEW len \in 0..6, out.rc = FAILED => out.nrc \in NRCs,
           out.seed \in Nat
    PROVE  /\ SecurityResponse(r, out, len) \in Responses
           /\ SecurityResponse(r, out, len).len <= RESP_CAP
<1>1. CASE out.rc = FAILED
  BY <1>1, ResponseTypes, VecuAssumption DEF SecurityResponse, build_nrc
<1>2. CASE out.rc # FAILED
  BY <1>2, PositiveFits DEF SecurityResponse
<1> QED BY <1>1, <1>2

\* 0x27 requestSeed does not change who has access.
LEMMA RequestSeedVInv ==
    ASSUME VInv, NEW raw \in Entropy, h_request_seed(raw)
    PROVE  VInv'
<1> DEFINE out == security_request_seed(sec, Level(req), now, raw)
<1>0. sec \in SecurityState /\ now \in Nat /\ Level(req) \in Nat
  BY LevelType, VecuAssumption DEF VInv, TypeOK, h_request_seed
<1>1. /\ out.st \in SecurityState /\ out.seed \in Nat
      /\ out.rc = FAILED => out.nrc \in NRCs
      /\ out.st.unlocked_level = sec.unlocked_level
  BY ONLY <1>0, raw \in Entropy, RequestSeedResult
<1>2. sec' = out.st /\ Return(SecurityResponse(req, out, 6))
  BY DEF h_request_seed
<1> HIDE DEF out
<1>3. resp' \in Responses /\ resp'.len <= RESP_CAP
  BY <1>1, <1>2, SecurityResponseFits DEF Return
<1>4. sec' \in SecurityState /\ (Unlocked' <=> Unlocked)
  BY <1>1, <1>2 DEF Unlocked, security_is_unlocked
<1>5. TypeOK'
  BY <1>2, <1>3, <1>4 DEF VInv, TypeOK, h_request_seed, Return, s3Vars
<1>6. Safe'
  BY <1>2, <1>3, <1>4 DEF VInv, Safe, WriteWasAuthorised, DefaultSessionLocked, ResponseFits,
     WriteInFlight, SecurityInFlight, h_request_seed, Return, s3Vars
<1> QED BY <1>5, <1>6 DEF VInv

\* 0x27 sendKey: in a session that the S3 thread has reverted meanwhile, the
\* key finds no seed or the relock is still to come.
LEMMA SendKeyVInv == VInv /\ h_send_key => VInv'
<1> SUFFICES ASSUME VInv, h_send_key PROVE VInv'
  OBVIOUS
<1> DEFINE out == security_send_key(sec, Level(req), req.key, now)
<1>0. sec \in SecurityState /\ now \in Nat /\ Level(req) \in Nat /\ req.key \in Nat
  BY LevelType, VecuAssumption DEF VInv, TypeOK, h_send_key
<1>1. /\ out.st \in SecurityState /\ out.seed = 0
      /\ out.rc = FAILED => out.nrc \in NRCs
      /\ ~sec.seed_issued => out.st = sec
  BY <1>0, SendKeyResult
<1>2. sec' = out.st /\ Return(SecurityResponse(req, out, 2))
  BY DEF h_send_key
<1> HIDE DEF out
<1>3. resp' \in Responses /\ resp'.len <= RESP_CAP
  BY <1>1, <1>2, SecurityResponseFits DEF Return
<1>4. TypeOK'
  BY <1>1, <1>2, <1>3 DEF VInv, TypeOK, h_send_key, Return, s3Vars
<1>5. DefaultSessionLocked'
  <2>1. CASE session = UDS_SESSION_DEFAULT /\ spc # "relock"
    <3>1. ~Unlocked /\ ~sec.seed_issued
      BY <2>1 DEF VInv, Safe, SecurityInFlight, h_send_key
    <3>2. sec' = sec
      BY <1>1, <1>2, <3>1
    <3> QED BY <3>1, <3>2 DEF DefaultSessionLocked, Unlocked
  <2>2. CASE session # UDS_SESSION_DEFAULT \/ spc = "relock"
    BY <2>2 DEF DefaultSessionLocked, h_send_key, s3Vars
  <2> QED BY <2>1, <2>2
<1>6. Safe'
  BY <1>2, <1>3, <1>5 DEF Safe, WriteWasAuthorised, ResponseFits, WriteInFlight,
     SecurityInFlight, Return
<1> QED BY <1>4, <1>6 DEF VInv

\* 0x2E, the look at the session.
LEMMA WriteDidVInv == VInv /\ h_write_did => VInv'
<1> SUFFICES ASSUME VInv, h_write_did PROVE VInv'
  OBVIOUS
<1>1. CASE /\ WriteDidNrc(req) # NO_NRC /\ Return(build_nrc(WriteDidNrc(req)))
           /\ UNCHANGED authorised
  <2>1. WriteDidNrc(req) \in NRCs
    BY <1>1, HandlerNrcs
  <2> QED BY <1>1, <2>1, RefuseVInv DEF h_write_did, Handling
<1>2. CASE /\ WriteDidNrc(req) = NO_NRC /\ GoTo("write_security")
           /\ authorised' = (is_extended_session /\ security_is_unlocked(sec, 1))
  <2>1. req \in Requests /\ req.len \in Nat
    BY VecuAssumption DEF VInv, TypeOK, h_write_did, Handling
  <2>2. req.len >= 4 /\ did_known(req.did) /\ did_table[req.did].write
    BY <1>2, <2>1 DEF WriteDidNrc, NO_NRC, UDS_NRC_INCORRECT_MESSAGE_LENGTH,
       UDS_NRC_REQUEST_OUT_OF_RANGE, UDS_NRC_SERVICE_NOT_SUPPORTED_IN_SESSION
  <2>3. /\ req.did \in DIDs
        /\ did_table[req.did].requires_security
        /\ did_table[req.did].requires_extended_session
    BY <2>2 DEF did_known, did_table
  <2>4. is_extended_session
    BY <1>2, <2>1, <2>2, <2>3 DEF WriteDidNrc, NO_NRC, UDS_NRC_SERVICE_NOT_SUPPORTED_IN_SESSION
  <2>5. authorised' = Unlocked /\ authorised' \in BOOLEAN
    BY <1>2, <2>4 DEF Unlocked, security_is_unlocked
  <2>6. TypeOK'
    BY <1>2, <2>1, <2>5 DEF VInv, TypeOK, h_write_did, Handling, GoTo, ecuVars, s3Vars
  <2>7. /\ dpc' = "write_security" /\ req' = req /\ sec' = sec /\ session' = session
        /\ spc' = spc /\ defaultBy' = defaultBy /\ dpc = "handle"
    BY <1>2 DEF h_write_did, Handling, GoTo, ecuVars, s3Vars
  <2>8. Safe'
    <3>1. Unlocked' <=> authorised'
      BY <2>5, <2>7 DEF Unlocked
    <3>2. DefaultSessionLocked'
      BY <2>7 DEF VInv, Safe, DefaultSessionLocked, Unlocked
    <3> QED BY <2>2, <2>3, <2>7, <3>1, <3>2
            DEF Safe, WriteWasAuthorised, ResponseFits, WriteInFlight, SecurityInFlight
  <2> QED BY <2>6, <2>8 DEF VInv
<1> QED BY <1>1, <1>2 DEF h_write_did

\* 0x2E, the look at the security level.
LEMMA WriteDidSecurityVInv == VInv /\ h_write_did_security => VInv'
<1> SUFFICES ASSUME VInv, h_write_did_security PROVE VInv'
  OBVIOUS
<1>1. CASE Return(build_nrc(UDS_NRC_SECURITY_ACCESS_DENIED))
  BY <1>1, RefuseVInv DEF h_write_did_security, NRCs
<1>2. CASE /\ did_table[req.did].requires_security => security_is_unlocked(sec, 1)
           /\ GoTo("write_owner")
  <2>1. authorised /\ req.len >= 4
    BY <1>2 DEF VInv, Safe, WriteInFlight, h_write_did_security, Unlocked
  <2>2. TypeOK'
    BY <1>2 DEF VInv, TypeOK, h_write_did_security, GoTo, ecuVars, s3Vars
  <2>3. Safe'
    BY <1>2, <2>1 DEF VInv, Safe, WriteWasAuthorised, DefaultSessionLocked, ResponseFits,
       Unlocked, WriteInFlight, SecurityInFlight, h_write_did_security, GoTo, ecuVars, s3Vars
  <2> QED BY <2>2, <2>3 DEF VInv
<1> QED BY <1>1, <1>2 DEF h_write_did_security

\* 0x2E, owner_write.
LEMMA WriteDidOwnerVInv == VInv /\ h_write_did_owner => VInv'
<1> SUFFICES ASSUME VInv, h_write_did_owner PROVE VInv'
  OBVIOUS
<1>1. CASE Return(build_nrc(UDS_NRC_CONDITIONS_NOT_CORRECT)) /\ UNCHANGED owner
  BY <1>1, RefuseVInv DEF h_write_did_owner, NRCs, ecuVars
<1>2. CASE /\ owner_write_ok(req.len - 3)
           /\ owner' = [name |-> req.name, len |-> req.len - 3]
           /\ Return(Positive(3))
  <2>1. req.len \in Nat /\ req.len >= 4 /\ req.name \in OwnerNames
    BY VecuAssumption DEF VInv, TypeOK, Safe, WriteInFlight, h_write_did_owner
  <2>2. owner'.len \in 1..OWNER_NAME_CAP /\ owner'.name \in OwnerNames
    BY <1>2, <2>1, VecuDataAssumption DEF owner_write_ok
  <2>3. resp' \in Responses /\ resp'.len <= RESP_CAP
    BY <1>2, PositiveFits DEF Return
  <2>4. TypeOK'
    BY <1>2, <2>2, <2>3 DEF VInv, TypeOK, h_write_did_owner, Return, s3Vars
  <2>5. Safe'
    BY <1>2, <2>3 DEF VInv, Safe, WriteWasAuthorised, DefaultSessionLocked, ResponseFits,
       Unlocked, WriteInFlight, SecurityInFlight, h_write_did_owner, Return, s3Vars
  <2> QED BY <2>4, <2>5 DEF VInv
<1> QED BY <1>1, <1>2 DEF h_write_did_owner

\* 0x3E.
LEMMA TesterPresentVInv == VInv /\ h_tester_present => VInv'
<1> SUFFICES ASSUME VInv, h_tester_present PROVE VInv'
  OBVIOUS
<1>1. CASE /\ \/ Return(build_nrc(UDS_NRC_INCORRECT_MESSAGE_LENGTH))
              \/ Return(build_nrc(UDS_NRC_SUB_FUNCTION_NOT_SUPPORTED))
           /\ UNCHANGED <<session, last_tp, defaultBy>>
  BY <1>1, RefuseVInv DEF h_tester_present, Handling, NRCs, ecuVars
<1>2. CASE vecu_mark_tester_present /\ Return(PositiveSub(req, 2, 0))
  <2>1. resp' \in Responses /\ resp'.len <= RESP_CAP
    BY <1>2, PositiveFits DEF Return
  <2>2. TypeOK'
    BY <1>2, <2>1 DEF VInv, TypeOK, h_tester_present, Handling, vecu_mark_tester_present,
       Return, s3Vars
  <2>3. Safe'
    BY <1>2, <2>1 DEF VInv, Safe, WriteWasAuthorised, DefaultSessionLocked, ResponseFits,
       Unlocked, WriteInFlight, SecurityInFlight, h_tester_present, Handling,
       vecu_mark_tester_present, Return, s3Vars
  <2> QED BY <2>2, <2>3 DEF VInv
<1> QED BY <1>1, <1>2 DEF h_tester_present

\* The dispatcher sends or drops the response.
LEMMA RespondVInv == VInv /\ Respond => VInv'
<1> SUFFICES ASSUME VInv, Respond PROVE VInv'
  OBVIOUS
<1>1. TypeOK'
  BY ResponseTypes DEF VInv, TypeOK, Respond, ecuVars, s3Vars
<1>2. Safe'
  BY DEF VInv, Safe, WriteWasAuthorised, DefaultSessionLocked, ResponseFits, Unlocked,
     WriteInFlight, SecurityInFlight, Respond, ecuVars, s3Vars
<1> QED BY <1>1, <1>2 DEF VInv

\* The S3 thread's reads, and the clock.
LEMMA S3ReadVInv == VInv /\ (S3Poll \/ S3ReadNow \/ S3ReadTp \/ Tick) => VInv'
<1> SUFFICES ASSUME VInv, S3Poll \/ S3ReadNow \/ S3ReadTp \/ Tick PROVE VInv'
  OBVIOUS
<1>1. TypeOK'
  <2>1. CASE S3Poll \/ S3ReadNow
    BY <2>1, VecuAssumption DEF VInv, TypeOK, S3Poll, S3ReadNow, ecuVars, dispVars
  <2>2. CASE S3ReadTp
    BY <2>2, VecuAssumption DEF VInv, TypeOK, S3ReadTp, ecuVars, dispVars
  <2>3. CASE Tick
    BY <2>3, VecuAssumption DEF VInv, TypeOK, Tick, ecuVars, dispVars, s3Vars
  <2> QED BY <2>1, <2>2, <2>3
<1>2. /\ UNCHANGED <<session, sec, dpc, req, resp, authorised, defaultBy>>
      /\ spc = "relock" => spc' = "relock"
  BY DEF S3Poll, S3ReadNow, S3ReadTp, Tick, ecuVars, dispVars, s3Vars
<1>3. Safe'
  BY <1>2 DEF VInv, Safe, WriteWasAuthorised, DefaultSessionLocked, ResponseFits, Unlocked,
     WriteInFlight, SecurityInFlight
<1> QED BY <1>1, <1>3 DEF VInv

\* The S3 thread reverts the session ...
LEMMA S3RevertVInv == VInv /\ S3Revert => VInv'
<1> SUFFICES ASSUME VInv, S3Revert PROVE VInv'
  OBVIOUS
<1>1. TypeOK'
  BY VecuAssumption DEF VInv, TypeOK, S3Revert, vecu_set_session, dispVars, Sessions
<1>2. Safe'
  BY DEF VInv, Safe, WriteWasAuthorised, DefaultSessionLocked, ResponseFits, Unlocked,
     WriteInFlight, SecurityInFlight, S3Revert, vecu_set_session, dispVars
<1> QED BY <1>1, <1>2 DEF VInv

\* ... and locks.
LEMMA S3RelockVInv == VInv /\ S3Relock => VInv'
<1> SUFFICES ASSUME VInv, S3Relock PROVE VInv'
  OBVIOUS
<1>1. sec' \in SecurityState /\ ~Unlocked' /\ ~sec'.seed_issued
  BY RelockResult DEF VInv, TypeOK, S3Relock, Unlocked, security_is_unlocked
<1>2. TypeOK'
  BY <1>1, VecuAssumption DEF VInv, TypeOK, S3Relock, dispVars
<1>3. Safe'
  BY <1>1 DEF VInv, Safe, WriteWasAuthorised, DefaultSessionLocked, ResponseFits,
     WriteInFlight, SecurityInFlight, S3Relock, dispVars
<1> QED BY <1>2, <1>3 DEF VInv

\* Every step preserves the invariant.
LEMMA NextVInv == VInv /\ [Next]_vars => VInv'
<1> SUFFICES ASSUME VInv, [Next]_vars PROVE VInv'
  OBVIOUS
<1>1. ASSUME NEW r \in Requests, Pop(r) PROVE VInv'
  BY <1>1, PopVInv
<1>2. CASE Handler
  <2>1. ASSUME NEW raw \in Entropy, h_request_seed(raw) PROVE VInv'
    BY <2>1, RequestSeedVInv
  <2> QED BY <1>2, <2>1, SessionControlVInv, EcuResetVInv, EcuResetSecurityVInv,
             ClearDtcVInv, ReadVInv, SecurityAccessVInv, SendKeyVInv, WriteDidVInv,
             WriteDidSecurityVInv, WriteDidOwnerVInv, TesterPresentVInv, RespondVInv
          DEF Handler
<1>3. CASE S3
  BY <1>3, S3ReadVInv, S3RevertVInv, S3RelockVInv DEF S3
<1>4. CASE Tick
  BY <1>4, S3ReadVInv
<1>5. CASE UNCHANGED vars
  <2>1. TypeOK'
    BY <1>5 DEF VInv, TypeOK, vars, ecuVars, dispVars, s3Vars
  <2>2. Safe'
    BY <1>5 DEF VInv, Safe, WriteWasAuthorised, DefaultSessionLocked, ResponseFits, Unlocked,
       WriteInFlight, SecurityInFlight, vars, ecuVars, dispVars, s3Vars
  <2> QED BY <2>1, <2>2 DEF VInv
<1> QED BY <1>1, <1>2, <1>3, <1>4, <1>5 DEF Next

\* The inductive invariant holds in every reachable state.
THEOREM VecuInvariant == Spec => []VInv
<1>1. Init => VInv
  BY InitVInv
<1>2. VInv /\ [Next]_vars => VInv'
  BY NextVInv
<1> QED BY <1>1, <1>2, PTL DEF Spec

\* The ECU state keeps its type; the owner name never outgrows its buffer.
THEOREM TypeCorrect == Spec => []TypeOK
<1>1. VInv => TypeOK
  BY DEF VInv
<1> QED BY <1>1, VecuInvariant, PTL

\* Every write of a guarded DID is justified by one instant at which the ECU
\* was in a non-default session and unlocked, wherever the S3 thread gets in.
THEOREM WritesAuthorised == Spec => []WriteWasAuthorised
<1>1. VInv => WriteWasAuthorised
  BY DEF VInv, Safe
<1> QED BY <1>1, VecuInvariant, PTL

\* The default session is locked unless the tester selected it: neither an ECU
\* reset nor an S3 timeout leaves an unlocked default session behind, whatever
\* request was being handled.
THEOREM DefaultLocked == Spec => []DefaultSessionLocked
<1>1. VInv => DefaultSessionLocked
  BY DEF VInv, Safe
<1> QED BY <1>1, VecuInvariant, PTL

\* No response outgrows a buffer of at least six bytes.
THEOREM ResponsesFit == Spec => []ResponseFits
<1>1. VInv => ResponseFits
  BY DEF VInv, Safe
<1> QED BY <1>1, VecuInvariant, PTL

-----------------------------------------------------------------------------
(* Every request is answered unless it asked for silence and succeeded. *)

\* `a' is a response, and is kept back exactly when it is positive and the
\* request `q' has a sub-function with the suppress bit.
RightAnswer(q, a) ==
    /\ a.len # 0
    /\ a.rc \in {OK, SUPPRESSED}
    /\ a.rc = SUPPRESSED <=> /\ q.sid \in SubFunctionServices
                             /\ SuppressPosResp(q)
                             /\ a.nrc = NO_NRC

\* Between two critical sections the dispatcher is still in the handler that
\* the request's service selected, and what a handler returns is right.
AnswerInv ==
    /\ dpc = "reset_security" => req.sid = UDS_SID_ECU_RESET
    /\ dpc = "security" => req.sid = UDS_SID_SECURITY_ACCESS
    /\ dpc \in {"write_security", "write_owner"} => req.sid = UDS_SID_WRITE_DATA_BY_IDENTIFIER
    /\ dpc = "respond" => RightAnswer(req, resp)

\* A refusal is never kept back, and a positive response is built by the
\* helper that fits the service.
LEMMA RightAnswers ==
    ASSUME NEW q
    PROVE  /\ \A nrc \in NRCs : RightAnswer(q, build_nrc(nrc))
           /\ \A len \in Nat \ {0} :
                 q.sid \notin SubFunctionServices => RightAnswer(q, Positive(len))
           /\ \A len \in Nat \ {0}, seed \in Nat :
                 q.sid \in SubFunctionServices => RightAnswer(q, PositiveSub(q, len, seed))
<1>1. ASSUME NEW nrc \in NRCs PROVE RightAnswer(q, build_nrc(nrc))
  <2>1. nrc # NO_NRC
    BY DEF NRCs, NO_NRC, UDS_NRC_SERVICE_NOT_SUPPORTED, UDS_NRC_SUB_FUNCTION_NOT_SUPPORTED,
           UDS_NRC_INCORRECT_MESSAGE_LENGTH, UDS_NRC_RESPONSE_TOO_LONG,
           UDS_NRC_CONDITIONS_NOT_CORRECT, UDS_NRC_REQUEST_SEQUENCE_ERROR,
           UDS_NRC_REQUEST_OUT_OF_RANGE, UDS_NRC_SECURITY_ACCESS_DENIED,
           UDS_NRC_INVALID_KEY, UDS_NRC_EXCEEDED_NUMBER_OF_ATTEMPTS,
           UDS_NRC_REQUIRED_TIME_DELAY_NOT_EXPIRED, UDS_NRC_SERVICE_NOT_SUPPORTED_IN_SESSION
  <2> QED BY <2>1 DEF RightAnswer, build_nrc, OK, SUPPRESSED
<1>2. ASSUME NEW len \in Nat \ {0}, q.sid \notin SubFunctionServices
      PROVE  RightAnswer(q, Positive(len))
  BY <1>2 DEF RightAnswer, Positive, OK, SUPPRESSED
<1>3. ASSUME NEW len \in Nat \ {0}, NEW seed \in Nat, q.sid \in SubFunctionServices
      PROVE  RightAnswer(q, PositiveSub(q, len, seed))
  BY <1>3 DEF RightAnswer, PositiveSub, OK, SUPPRESSED
<1> QED BY <1>1, <1>2, <1>3

\* Which services have a sub-function.
LEMMA WhoHasSubFunctions ==
    /\ UDS_SID_DIAGNOSTIC_SESSION_CONTROL \in SubFunctionServices
    /\ UDS_SID_ECU_RESET \in SubFunctionServices
    /\ UDS_SID_READ_DTC \in SubFunctionServices
    /\ UDS_SID_SECURITY_ACCESS \in SubFunctionServices
    /\ UDS_SID_TESTER_PRESENT \in SubFunctionServices
    /\ UDS_SID_CLEAR_DTC \notin SubFunctionServices
    /\ UDS_SID_READ_DATA_BY_IDENTIFIER \notin SubFunctionServices
    /\ UDS_SID_WRITE_DATA_BY_IDENTIFIER \notin SubFunctionServices
BY DEF SubFunctionServices, UDS_SID_DIAGNOSTIC_SESSION_CONTROL, UDS_SID_ECU_RESET,
       UDS_SID_READ_DTC, UDS_SID_SECURITY_ACCESS, UDS_SID_TESTER_PRESENT, UDS_SID_CLEAR_DTC,
       UDS_SID_READ_DATA_BY_IDENTIFIER, UDS_SID_WRITE_DATA_BY_IDENTIFIER

\* A handler that returns a right answer preserves AnswerInv.
LEMMA ReturnAnswers ==
    ASSUME NEW r, Return(r), RightAnswer(req, r)
    PROVE  AnswerInv'
BY DEF AnswerInv, Return, RightAnswer, SuppressPosResp

\* So does a refusal.
LEMMA RefuseAnswers ==
    ASSUME NEW nrc \in NRCs, Return(build_nrc(nrc))
    PROVE  AnswerInv'
BY RightAnswers, ReturnAnswers

\* The response to an outcome of the security functions is right.
LEMMA SecurityAnswers ==
    ASSUME NEW out, NEW len \in Nat \ {0}, out.rc = FAILED => out.nrc \in NRCs,
           out.seed \in Nat, req.sid = UDS_SID_SECURITY_ACCESS,
           Return(SecurityResponse(req, out, len))
    PROVE  AnswerInv'
<1>1. CASE out.rc = FAILED
  BY <1>1, RefuseAnswers DEF SecurityResponse
<1>2. CASE out.rc # FAILED
  BY <1>2, RightAnswers, ReturnAnswers, WhoHasSubFunctions DEF SecurityResponse
<1> QED BY <1>1, <1>2

\* The handlers return right answers, or go on to a critical section of
\* their own.
LEMMA HandlerAnswers == VInv /\ AnswerInv /\ Handler => AnswerInv'
<1> SUFFICES ASSUME VInv, AnswerInv, Handler PROVE AnswerInv'
  OBVIOUS
<1>0. /\ UDS_NRC_SERVICE_NOT_SUPPORTED \in NRCs /\ UDS_NRC_SUB_FUNCTION_NOT_SUPPORTED \in NRCs
      /\ UDS_NRC_INCORRECT_MESSAGE_LENGTH \in NRCs /\ UDS_NRC_REQUEST_OUT_OF_RANGE \in NRCs
      /\ UDS_NRC_SECURITY_ACCESS_DENIED \in NRCs /\ UDS_NRC_CONDITIONS_NOT_CORRECT \in NRCs
  BY DEF NRCs
<1>1. CASE h_session_control
  <2>1. CASE Return(IF RESP_CAP < 6 THEN NoResponse ELSE PositiveSub(req, 6, 0))
    <3>1. Return(PositiveSub(req, 6, 0))
      BY <2>1, VecuAssumption
    <3> QED BY <1>1, <3>1, RightAnswers, ReturnAnswers, WhoHasSubFunctions
            DEF h_session_control, Handling
  <2> QED BY <1>0, <1>1, <2>1, RefuseAnswers DEF h_session_control
<1>2. CASE h_ecu_reset
  <2>1. CASE GoTo("reset_security")
    BY <1>2, <2>1 DEF h_ecu_reset, Handling, AnswerInv, GoTo
  <2> QED BY <1>0, <1>2, <2>1, RefuseAnswers DEF h_ecu_reset
<1>3. CASE h_ecu_reset_security
  <2>1. req.sid = UDS_SID_ECU_RESET /\ Return(PositiveSub(req, 2, 0))
    BY <1>3 DEF h_ecu_reset_security, AnswerInv
  <2> QED BY <2>1, RightAnswers, ReturnAnswers, WhoHasSubFunctions
<1>4. CASE h_clear_dtc
  <2>1. CASE Return(Positive(1))
    BY <1>4, <2>1, RightAnswers, ReturnAnswers, WhoHasSubFunctions DEF h_clear_dtc, Handling
  <2> QED BY <1>0, <1>4, <2>1, RefuseAnswers DEF h_clear_dtc
<1>5. CASE h_read_dtc \/ h_read_did
  <2>1. dtcs \subseteq DtcsAtBoot /\ owner.len \in Nat /\ req \in Requests
    BY <1>5, VecuDataAssumption DEF VInv, TypeOK, h_read_dtc, h_read_did, Handling
  <2>2. CASE h_read_dtc
    <3>1. req.sid \in SubFunctionServices /\ Return(ReadDtcResponse(req))
      BY <2>2, WhoHasSubFunctions DEF h_read_dtc, Handling
    <3>2. RightAnswer(req, ReadDtcResponse(req))
      BY <2>1, <3>1, ReadForms, RightAnswers
    <3> QED BY <3>1, <3>2, ReturnAnswers
  <2>3. CASE h_read_did
    <3>1. req.sid \notin SubFunctionServices /\ Return(ReadDidResponse(req))
      BY <2>3, WhoHasSubFunctions DEF h_read_did, Handling
    <3>2. RightAnswer(req, ReadDidResponse(req))
      BY <2>1, <3>1, ReadForms, RightAnswers
    <3> QED BY <3>1, <3>2, ReturnAnswers
  <2> QED BY <1>5, <2>2, <2>3
<1>6. CASE h_security_access
  <2>1. CASE GoTo("security")
    BY <1>6, <2>1 DEF h_security_access, Handling, AnswerInv, GoTo
  <2>2. CASE SecurityAccessNrc(req) # NO_NRC /\ Return(build_nrc(SecurityAccessNrc(req)))
    BY <2>2, HandlerNrcs, RefuseAnswers
  <2> QED BY <1>6, <2>1, <2>2 DEF h_security_access
<1>7. ASSUME NEW raw \in Entropy, h_request_seed(raw) PROVE AnswerInv'
  <2> DEFINE out == security_request_seed(sec, Level(req), now, raw)
  <2>1. sec \in SecurityState /\ now \in Nat /\ Level(req) \in Nat
    BY <1>7, LevelType, VecuAssumption DEF VInv, TypeOK, h_request_seed
  <2>2. out.seed \in Nat /\ (out.rc = FAILED => out.nrc \in NRCs)
    BY <2>1, RequestSeedResult
  <2>3. req.sid = UDS_SID_SECURITY_ACCESS /\ Return(SecurityResponse(req, out, 6))
    BY <1>7 DEF h_request_seed, AnswerInv
  <2> HIDE DEF out
  <2> QED BY <2>2, <2>3, SecurityAnswers
<1>8. CASE h_send_key
  <2> DEFINE out == security_send_key(sec, Level(req), req.key, now)
  <2>1. sec \in SecurityState /\ now \in Nat /\ Level(req) \in Nat /\ req.key \in Nat
    BY <1>8, LevelType, VecuAssumption DEF VInv, TypeOK, h_send_key
  <2>2. out.seed \in Nat /\ (out.rc = FAILED => out.nrc \in NRCs)
    BY <2>1, SendKeyResult
  <2>3. req.sid = UDS_SID_SECURITY_ACCESS /\ Return(SecurityResponse(req, out, 2))
    BY <1>8 DEF h_send_key, AnswerInv
  <2> HIDE DEF out
  <2> QED BY <2>2, <2>3, SecurityAnswers
<1>9. CASE h_write_did
  <2>1. CASE GoTo("write_security")
    BY <1>9, <2>1 DEF h_write_did, Handling, AnswerInv, GoTo
  <2>2. CASE WriteDidNrc(req) # NO_NRC /\ Return(build_nrc(WriteDidNrc(req)))
    BY <2>2, HandlerNrcs, RefuseAnswers
  <2> QED BY <1>9, <2>1, <2>2 DEF h_write_did
<1>10. CASE h_write_did_security
  <2>1. CASE GoTo("write_owner")
    BY <1>10, <2>1 DEF h_write_did_security, AnswerInv, GoTo
  <2> QED BY <1>0, <1>10, <2>1, RefuseAnswers DEF h_write_did_security
<1>11. CASE h_write_did_owner
  <2>1. req.sid \notin SubFunctionServices
    BY <1>11, WhoHasSubFunctions DEF h_write_did_owner, AnswerInv
  <2>2. CASE Return(Positive(3))
    BY <2>1, <2>2, RightAnswers, ReturnAnswers
  <2> QED BY <1>0, <1>11, <2>2, RefuseAnswers DEF h_write_did_owner
<1>12. CASE h_tester_present
  <2>1. CASE Return(PositiveSub(req, 2, 0))
    BY <1>12, <2>1, RightAnswers, ReturnAnswers, WhoHasSubFunctions
       DEF h_tester_present, Handling
  <2> QED BY <1>0, <1>12, <2>1, RefuseAnswers DEF h_tester_present
<1>13. CASE service_not_supported
  BY <1>0, <1>13, RefuseAnswers DEF service_not_supported
<1>14. CASE Respond
  BY <1>14 DEF Respond, AnswerInv
<1> QED BY <1>1, <1>2, <1>3, <1>4, <1>5, <1>6, <1>7, <1>8, <1>9, <1>10, <1>11, <1>12,
           <1>13, <1>14 DEF Handler

\* Every step preserves AnswerInv: the S3 thread and the clock leave the
\* dispatcher's request and response alone.
LEMMA NextAnswers == VInv /\ AnswerInv /\ [Next]_vars => AnswerInv'
<1> SUFFICES ASSUME VInv, AnswerInv, [Next]_vars PROVE AnswerInv'
  OBVIOUS
<1>1. CASE Handler
  BY <1>1, HandlerAnswers
<1>2. ASSUME NEW r \in Requests, Pop(r) PROVE AnswerInv'
  BY <1>2 DEF Pop, AnswerInv
<1>3. CASE S3 \/ Tick \/ UNCHANGED vars
  <2>1. dpc' = dpc /\ req' = req /\ resp' = resp
    BY <1>3 DEF S3, S3Poll, S3ReadNow, S3ReadTp, S3Revert, S3Relock, Tick, vars, dispVars
  <2> QED BY <2>1 DEF AnswerInv, RightAnswer, SuppressPosResp
<1> QED BY <1>1, <1>2, <1>3 DEF Next

\* No request goes unanswered, whatever the other thread does meanwhile: the
\* dispatcher keeps a response back only when it is positive, the service has
\* a sub-function and the tester set the suppress bit.
THEOREM RequestsAnswered == Spec => AnsweredUnlessSuppressed
<1> DEFINE Answered ==
      dpc = "respond" /\ dpc' = "pop" =>
          (~sent' <=> /\ req.sid \in SubFunctionServices
                      /\ SuppressPosResp(req)
                      /\ resp.nrc = NO_NRC)
<1>1. Init => AnswerInv
  BY DEF Init, AnswerInv
<1>2. VInv /\ AnswerInv /\ [Next]_vars => AnswerInv'
  BY NextAnswers
<1>3. VInv /\ AnswerInv /\ [Next]_vars => [Answered]_vars
  <2> SUFFICES ASSUME AnswerInv, Next, dpc = "respond", dpc' = "pop"
               PROVE  ~sent' <=> /\ req.sid \in SubFunctionServices
                                 /\ SuppressPosResp(req)
                                 /\ resp.nrc = NO_NRC
    OBVIOUS
  <2>1. Respond
    <3>1. ~S3 /\ ~Tick /\ ~(\E r \in Requests : Pop(r))
      BY DEF S3, S3Poll, S3ReadNow, S3ReadTp, S3Revert, S3Relock, Tick, Pop, dispVars
    <3>2. Handler => Respond
      BY DEF Handler, h_session_control, h_ecu_reset, h_ecu_reset_security, h_clear_dtc,
         h_read_dtc, h_read_did, h_security_access, h_request_seed, h_send_key, h_write_did,
         h_write_did_security, h_write_did_owner, h_tester_present, service_not_supported,
         Handling
    <3> QED BY <3>1, <3>2 DEF Next
  <2>2. sent' <=> resp.rc = OK /\ resp.len # 0
    BY <2>1 DEF Respond
  <2>3. RightAnswer(req, resp)
    BY DEF AnswerInv
  <2> QED BY <2>2, <2>3 DEF RightAnswer, OK, SUPPRESSED
<1> HIDE DEF Answered
<1>4. Spec => [][Answered]_vars
  BY <1>1, <1>2, <1>3, VecuInvariant, PTL DEF Spec
<1> QED BY <1>4 DEF AnsweredUnlessSuppressed, Answered

-----------------------------------------------------------------------------
(* The ECU as a whole uses SecurityAccess as its component allows. *)

\* The instance's transformers are those of Security.
LEMMA SameTransformers ==
    /\ security_init = SA!security_init
    /\ \A s : security_reset(s) = SA!security_reset(s)
    /\ \A s : security_relock(s) = SA!security_relock(s)
    /\ \A s, level, t, raw :
          security_request_seed(s, level, t, raw).st
              = SA!security_request_seed(s, level, t, raw).st
    /\ \A s, level, key, t :
          security_send_key(s, level, key, t).st = SA!security_send_key(s, level, key, t).st
<1>1. /\ security_init = SA!security_init
      /\ \A s : security_reset(s) = SA!security_reset(s)
      /\ \A s : security_relock(s) = SA!security_relock(s)
  BY DEF security_init, SA!security_init, security_reset, SA!security_reset,
         security_relock, SA!security_relock
<1>2. ASSUME NEW s, NEW level, NEW t, NEW raw
      PROVE  security_request_seed(s, level, t, raw).st
                 = SA!security_request_seed(s, level, t, raw).st
  BY DEF security_request_seed, SA!security_request_seed, level_supported,
         SA!level_supported, LockedOut, SA!LockedOut, Refused, SA!Refused, ExpireLockOut,
         SA!ExpireLockOut, FreshSeed, SA!FreshSeed
<1>3. ASSUME NEW s, NEW level, NEW key, NEW t
      PROVE  security_send_key(s, level, key, t).st = SA!security_send_key(s, level, key, t).st
  BY DEF security_send_key, SA!security_send_key, level_supported, SA!level_supported,
         LockedOut, SA!LockedOut, Refused, SA!Refused, KeyFor, SA!KeyFor,
         CountFailure, SA!CountFailure
<1> QED BY <1>1, <1>2, <1>3

\* Every step of the ECU is a step of SecurityAccess, or leaves the security
\* state and the clock alone.
LEMMA StepImplementsSecurityAccess ==
    VInv /\ [Next]_vars => [SA!Next]_SA!vars
<1> SUFFICES ASSUME VInv, [Next]_vars PROVE [SA!Next]_SA!vars
  OBVIOUS
<1> USE DEF SA!vars
<1>1. CASE UNCHANGED <<sec, now>>
  BY <1>1
<1>2. ASSUME NEW raw \in Entropy, h_request_seed(raw) PROVE SA!Next
  <2>1. req \in Requests
    BY <1>2 DEF VInv, TypeOK, h_request_seed
  <2>2. SA!RequestSeed(Level(req), raw)
    BY <1>2, SameTransformers DEF h_request_seed, SA!RequestSeed
  <2> QED BY <1>2, <2>1, <2>2 DEF SA!Next
<1>3. CASE h_send_key
  <2>1. req \in Requests
    BY <1>3 DEF VInv, TypeOK, h_send_key
  <2>2. SA!SendKey(Level(req), req.key)
    BY <1>3, SameTransformers DEF h_send_key, SA!SendKey
  <2> QED BY <2>1, <2>2 DEF SA!Next
<1>4. CASE h_ecu_reset_security
  BY <1>4, SameTransformers DEF h_ecu_reset_security, SA!Reset, SA!Next
<1>5. CASE S3Relock
  BY <1>5, SameTransformers DEF S3Relock, SA!Relock, SA!Next
<1>6. CASE Tick
  BY <1>6 DEF Tick, SA!Tick, SA!Next, ecuVars
<1>7. \/ UNCHANGED <<sec, now>>
      \/ \E raw \in Entropy : h_request_seed(raw)
      \/ h_send_key \/ h_ecu_reset_security \/ S3Relock \/ Tick
  <2>1. ASSUME NEW r \in Requests, Pop(r) PROVE UNCHANGED <<sec, now>>
    BY <2>1 DEF Pop, ecuVars
  <2>2. CASE \/ h_session_control \/ h_ecu_reset \/ h_clear_dtc \/ h_read_dtc \/ h_read_did
             \/ h_security_access \/ h_write_did \/ h_write_did_security
             \/ h_write_did_owner \/ h_tester_present \/ service_not_supported \/ Respond
    BY <2>2 DEF h_session_control, h_ecu_reset, h_clear_dtc, h_read_dtc, h_read_did,
       h_security_access, h_write_did, h_write_did_security, h_write_did_owner,
       h_tester_present, service_not_supported, Respond, ecuVars
  <2>3. CASE S3Poll \/ S3ReadNow \/ S3ReadTp \/ S3Revert
    BY <2>3 DEF S3Poll, S3ReadNow, S3ReadTp, S3Revert, ecuVars
  <2>4. CASE UNCHANGED vars
    BY <2>4 DEF vars, ecuVars
  <2> QED BY <2>1, <2>2, <2>3, <2>4 DEF Next, Handler, S3
<1> QED BY <1>1, <1>2, <1>3, <1>4, <1>5, <1>6, <1>7

\* The dispatcher and the S3 thread together use the security state only as
\* SecurityAccess allows, so its theorems (the lock-out stands, the protocol
\* is followed) hold of the whole ECU.
THEOREM UsesSecurityAccess == Spec => ImplementsSecurityAccess
<1>1. Init => SA!Init
  BY SameTransformers DEF Init, SA!Init
<1>2. VInv /\ [Next]_vars => [SA!Next]_SA!vars
  BY StepImplementsSecurityAccess
<1> QED BY <1>1, <1>2, VecuInvariant, PTL DEF Spec, ImplementsSecurityAccess, SA!Spec
=============================================================================
