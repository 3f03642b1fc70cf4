-------------------------------- MODULE Vecu --------------------------------
(***************************************************************************)
(* The diagnostic core of the ECU: vecu_state_t (src/vecu.c) shared by the *)
(* dispatcher thread, which runs the service handlers of src/uds.c, and    *)
(* the S3 thread (both in src/threads.c).                                  *)
(*                                                                         *)
(* No handler holds two locks at once, and most take several one after the *)
(* other.  A step is therefore one critical section together with the      *)
(* thread-local code around it, and `dpc' and `spc' say where each thread  *)
(* is between two of them: that is where the other thread gets in.         *)
(*                                                                         *)
(* A request is a record of its length and the fields the handlers decode. *)
(* A response is its return code, its NRC, its length and its seed.        *)
(***************************************************************************)
EXTENDS Security, VecuData

CONSTANTS
    Requests,       \* the requests testers send
    RESP_CAP,       \* size of the response buffer (UDS_MAX_MSG_LEN at run time)
    S3_TIMEOUT_MS,  \* 5000
    U64,            \* 2^64: the modulus of the S3 thread's subtraction
    MaxTime,        \* bound on the clock
    TesterLeaves    \* after this time no request arrives

Bytes == 0..255

ASSUME VecuAssumption ==
    /\ RESP_CAP \in Nat /\ RESP_CAP >= 6
    /\ S3_TIMEOUT_MS \in Nat \ {0}
    /\ MaxTime \in Nat
    /\ U64 \in Nat /\ U64 > MaxTime + S3_TIMEOUT_MS
    /\ TesterLeaves \in 0..MaxTime
    /\ \A r \in Requests :
          /\ r.len \in Nat \ {0}       \* rx_thread drops empty messages
          /\ r.sub \in Bytes
          /\ r.key \in Nat
          /\ r.name \in OwnerNames
          /\ r.mask \subseteq StatusBits

VARIABLES
    session,    \* vecu_state_t.session
    last_tp,    \* vecu_state_t.last_tester_present_ms
    sec,        \* vecu_state_t.security
    owner,      \* vecu_state_t.owner_name and owner_len
    dtcs,       \* vecu_state_t.dtcs
    now,        \* vecu_now_ms()
    dpc,        \* where the dispatcher is
    req,        \* the request it is handling
    resp,       \* the response it has built
    sent,       \* the response to the last request was passed to isotp_kio_send
    spc,        \* where the S3 thread is
    s_now,      \* its local `now'
    s_last_tp,  \* its local `last_tp'
    defaultBy,  \* history: who last selected the default session
    authorised  \* history: when h_write_did looked at the session, the ECU
                \* was in a non-default session and unlocked

ecuVars  == <<session, last_tp, sec, owner, dtcs>>
dispVars == <<dpc, req, resp, sent, authorised>>
s3Vars   == <<spc, s_now, s_last_tp>>
vars     == <<ecuVars, now, dispVars, s3Vars, defaultBy>>

NoRequest == [sid |-> "none", len |-> 0, sub |-> 0, did |-> "none", name |-> "none",
              key |-> 0, mask |-> {}, all |-> FALSE]

SUPPRESSED == 1   \* the handler's rc for "positive, but say nothing"

Responses == [rc : {OK, SUPPRESSED, FAILED}, nrc : NRCs \cup {NO_NRC}, len : Nat, seed : Nat]

NoResponse == [rc |-> FAILED, nrc |-> NO_NRC, len |-> 0, seed |-> 0]

\* vecu_init, then the threads start.
Init ==
    /\ session = UDS_SESSION_DEFAULT
    /\ last_tp = 0
    /\ sec = security_init
    /\ owner = OwnerAtBoot
    /\ dtcs = DtcsAtBoot
    /\ now = 0
    /\ dpc = "pop"
    /\ req = NoRequest
    /\ resp = NoResponse
    /\ sent = FALSE
    /\ spc = "sleep"
    /\ s_now = 0
    /\ s_last_tp = 0
    /\ defaultBy = "init"
    /\ authorised = FALSE

-----------------------------------------------------------------------------
(* Session state (src/vecu.c). *)

\* vecu_set_session: the session and the S3 time stamp, under one lock.
vecu_set_session(s, by) ==
    /\ session' = s
    /\ last_tp' = now
    /\ defaultBy' = IF s = UDS_SESSION_DEFAULT THEN by ELSE defaultBy

vecu_mark_tester_present ==
    /\ last_tp' = now
    /\ UNCHANGED <<session, defaultBy>>

is_extended_session == session \in {UDS_SESSION_EXTENDED, UDS_SESSION_PROGRAMMING}

-----------------------------------------------------------------------------
(* Requests and responses (src/uds.c). *)

\* The sub-function byte: bit 7 asks for the positive response to be dropped.
Sub(r) == r.sub % 128
SuppressPosResp(r) == r.sub >= 128

\* A negative response is always to be sent.
build_nrc(nrc) == [rc |-> OK, nrc |-> nrc, len |-> 3, seed |-> 0]

\* A positive response of a service without sub-function.
Positive(len) == [rc |-> OK, nrc |-> NO_NRC, len |-> len, seed |-> 0]

\* A positive response of a service with sub-function.
PositiveSub(r, len, seed) ==
    [rc   |-> IF SuppressPosResp(r) THEN SUPPRESSED ELSE OK,
     nrc  |-> NO_NRC, len |-> len, seed |-> seed]

\* A handler's last step: it returns `r' to the dispatcher.
Return(r) ==
    /\ dpc' = "respond"
    /\ resp' = r
    /\ UNCHANGED <<req, sent>>

\* A handler goes on to its next critical section.
GoTo(pc) ==
    /\ dpc' = pc
    /\ UNCHANGED <<req, resp, sent>>

Handling(sid) == dpc = "handle" /\ req.sid = sid

-----------------------------------------------------------------------------
(* The dispatcher thread takes a request off the queue. *)

Pop(r) ==
    /\ dpc = "pop"
    /\ now <= TesterLeaves
    /\ dpc' = "handle"
    /\ req' = r
    /\ sent' = FALSE
    /\ UNCHANGED <<ecuVars, now, resp, authorised, s3Vars, defaultBy>>

(* 0x10.  The session is set before the buffer is looked at. *)
h_session_control ==
    /\ Handling(UDS_SID_DIAGNOSTIC_SESSION_CONTROL)
    /\ \/ /\ req.len # 2
          /\ Return(build_nrc(UDS_NRC_INCORRECT_MESSAGE_LENGTH))
          /\ UNCHANGED <<session, last_tp, defaultBy>>
       \/ /\ req.len = 2
          /\ Sub(req) \notin Sessions
          /\ Return(build_nrc(UDS_NRC_SUB_FUNCTION_NOT_SUPPORTED))
          /\ UNCHANGED <<session, last_tp, defaultBy>>
       \/ /\ req.len = 2
          /\ Sub(req) \in Sessions
          /\ vecu_set_session(Sub(req), "tester")
          /\ Return(IF RESP_CAP < 6 THEN NoResponse ELSE PositiveSub(req, 6, 0))
    /\ UNCHANGED <<sec, owner, dtcs, now, authorised, s3Vars>>

(* 0x11, first critical section: back to the default session. *)
h_ecu_reset ==
    /\ Handling(UDS_SID_ECU_RESET)
    /\ \/ /\ req.len # 2
          /\ Return(build_nrc(UDS_NRC_INCORRECT_MESSAGE_LENGTH))
          /\ UNCHANGED <<session, last_tp, defaultBy>>
       \/ /\ req.len = 2
          /\ Sub(req) \notin {1, 2, 3}
          /\ Return(build_nrc(UDS_NRC_SUB_FUNCTION_NOT_SUPPORTED))
          /\ UNCHANGED <<session, last_tp, defaultBy>>
       \/ /\ req.len = 2
          /\ Sub(req) \in {1, 2, 3}
          /\ vecu_set_session(UDS_SESSION_DEFAULT, "reset")
          /\ GoTo("reset_security")
    /\ UNCHANGED <<sec, owner, dtcs, now, authorised, s3Vars>>

MutantResetKeepsFailures ==
    /\ dpc = "reset_security"
    /\ sec' = [security_reset(sec) EXCEPT !.fail_count = sec.fail_count]
    /\ Return(PositiveSub(req, 2, 0))
    /\ UNCHANGED <<session, last_tp, owner, dtcs, now, authorised, s3Vars, defaultBy>>

(* 0x11, second critical section: the security state. *)
h_ecu_reset_security ==
    /\ dpc = "reset_security"
    /\ sec' = security_reset(sec)
    /\ Return(PositiveSub(req, 2, 0))
    /\ UNCHANGED <<session, last_tp, owner, dtcs, now, authorised, s3Vars, defaultBy>>

(* 0x14.  Only the group "all" can be cleared. *)
h_clear_dtc ==
    /\ Handling(UDS_SID_CLEAR_DTC)
    /\ \/ /\ req.len # 4
          /\ Return(build_nrc(UDS_NRC_INCORRECT_MESSAGE_LENGTH))
          /\ UNCHANGED dtcs
       \/ /\ req.len = 4 /\ ~req.all
          /\ Return(build_nrc(UDS_NRC_REQUEST_OUT_OF_RANGE))
          /\ UNCHANGED dtcs
       \/ /\ req.len = 4 /\ req.all
          /\ dtcs' = dtc_mem_clear_all(dtcs)
          /\ Return(Positive(1))
    /\ UNCHANGED <<session, last_tp, sec, owner, now, authorised, s3Vars, defaultBy>>

\* The response to a request that only reads.
ReadDtcResponse(r) ==
    LET need == 3 + 4 * Cardinality(dtc_mem_snapshot_by_mask(dtcs, r.mask))
    IN  CASE r.len < 2 -> build_nrc(UDS_NRC_INCORRECT_MESSAGE_LENGTH)
          [] r.len >= 2 /\ Sub(r) # 2 -> build_nrc(UDS_NRC_SUB_FUNCTION_NOT_SUPPORTED)
          [] r.len >= 2 /\ Sub(r) = 2 /\ r.len # 3 -> build_nrc(UDS_NRC_INCORRECT_MESSAGE_LENGTH)
          [] r.len = 3 /\ Sub(r) = 2 /\ RESP_CAP < need -> build_nrc(UDS_NRC_RESPONSE_TOO_LONG)
          [] OTHER -> PositiveSub(r, need, 0)

(* 0x19 reportDTCByStatusMask.  Only the dispatcher writes the DTC memory, *)
(* so the snapshot and the availability mask are read in one step.         *)
h_read_dtc ==
    /\ Handling(UDS_SID_READ_DTC)
    /\ Return(ReadDtcResponse(req))
    /\ UNCHANGED <<ecuVars, now, authorised, s3Vars, defaultBy>>

MutantReadIgnoresCap(r) ==
    CASE r.len # 3 -> build_nrc(UDS_NRC_INCORRECT_MESSAGE_LENGTH)
      [] r.len = 3 /\ ~did_known(r.did) -> build_nrc(UDS_NRC_REQUEST_OUT_OF_RANGE)
      [] OTHER -> Positive(3 + did_payload_len(r.did, owner))

ReadDidResponse(r) ==
    CASE r.len # 3 -> build_nrc(UDS_NRC_INCORRECT_MESSAGE_LENGTH)
      [] r.len = 3 /\ ~did_known(r.did) -> build_nrc(UDS_NRC_REQUEST_OUT_OF_RANGE)
      [] r.len = 3 /\ did_known(r.did) /\ RESP_CAP < 3 + did_payload_len(r.did, owner)
            -> build_nrc(UDS_NRC_RESPONSE_TOO_LONG)
      [] OTHER -> Positive(3 + did_payload_len(r.did, owner))

(* 0x22, one DID.  The callbacks installed by vecu_init always succeed. *)
h_read_did ==
    /\ Handling(UDS_SID_READ_DATA_BY_IDENTIFIER)
    /\ Return(ReadDidResponse(req))
    /\ UNCHANGED <<ecuVars, now, authorised, s3Vars, defaultBy>>

-----------------------------------------------------------------------------
(* 0x27 SecurityAccess. *)

IsRequestSeed(r) == Sub(r) % 2 = 1

\* The level a request is about: sub for a seed, (uint8_t)(sub - 1) for a key.
Level(r) == IF IsRequestSeed(r) THEN Sub(r) ELSE (Sub(r) + 255) % 256

\* What h_security_access refuses before it touches the security state.
SecurityAccessNrc(r) ==
    CASE r.len < 2 -> UDS_NRC_INCORRECT_MESSAGE_LENGTH
      [] r.len >= 2 /\ ~is_extended_session -> UDS_NRC_SERVICE_NOT_SUPPORTED_IN_SESSION
      [] /\ r.len >= 2 /\ is_extended_session
         /\ r.len # (IF IsRequestSeed(r) THEN 2 ELSE 6) -> UDS_NRC_INCORRECT_MESSAGE_LENGTH
      [] OTHER -> NO_NRC

(* First critical section: the session is looked at. *)
h_security_access ==
    /\ Handling(UDS_SID_SECURITY_ACCESS)
    /\ \/ /\ SecurityAccessNrc(req) # NO_NRC
          /\ Return(build_nrc(SecurityAccessNrc(req)))
       \/ /\ SecurityAccessNrc(req) = NO_NRC
          /\ GoTo("security")
    /\ UNCHANGED <<ecuVars, now, authorised, s3Vars, defaultBy>>

\* The response to a security function's outcome.
SecurityResponse(r, out, len) ==
    IF out.rc = FAILED THEN build_nrc(out.nrc) ELSE PositiveSub(r, len, out.seed)

(* Second critical section: the seed is drawn or the key compared. *)
h_request_seed(raw) ==
    /\ dpc = "security" /\ IsRequestSeed(req)
    /\ LET out == security_request_seed(sec, Level(req), now, raw)
       IN  /\ sec' = out.st
           /\ Return(SecurityResponse(req, out, 6))
    /\ UNCHANGED <<session, last_tp, owner, dtcs, now, authorised, s3Vars, defaultBy>>

h_send_key ==
    /\ dpc = "security" /\ ~IsRequestSeed(req)
    /\ LET out == security_send_key(sec, Level(req), req.key, now)
       IN  /\ sec' = out.st
           /\ Return(SecurityResponse(req, out, 2))
    /\ UNCHANGED <<session, last_tp, owner, dtcs, now, authorised, s3Vars, defaultBy>>

-----------------------------------------------------------------------------
(* 0x2E WriteDataByIdentifier. *)

\* What h_write_did refuses up to and including its look at the session.
WriteDidNrc(r) ==
    CASE r.len < 4 -> UDS_NRC_INCORRECT_MESSAGE_LENGTH
      [] r.len >= 4 /\ ~(did_known(r.did) /\ did_table[r.did].write)
            -> UDS_NRC_REQUEST_OUT_OF_RANGE
      [] /\ r.len >= 4 /\ did_known(r.did) /\ did_table[r.did].write
         /\ did_table[r.did].requires_extended_session /\ ~is_extended_session
            -> UDS_NRC_SERVICE_NOT_SUPPORTED_IN_SESSION
      [] OTHER -> NO_NRC

(* First critical section: the session is looked at. *)
h_write_did ==
    /\ Handling(UDS_SID_WRITE_DATA_BY_IDENTIFIER)
    /\ \/ /\ WriteDidNrc(req) # NO_NRC
          /\ Return(build_nrc(WriteDidNrc(req)))
          /\ UNCHANGED authorised
       \/ /\ WriteDidNrc(req) = NO_NRC
          /\ GoTo("write_security")
          /\ authorised' = (is_extended_session /\ security_is_unlocked(sec, 1))
    /\ UNCHANGED <<ecuVars, now, s3Vars, defaultBy>>

MutantWriteSkipsSecurity ==
    /\ dpc = "write_security"
    /\ GoTo("write_owner")
    /\ UNCHANGED <<ecuVars, now, authorised, s3Vars, defaultBy>>

(* Second critical section: the security level is looked at. *)
h_write_did_security ==
    /\ dpc = "write_security"
    /\ \/ /\ did_table[req.did].requires_security /\ ~security_is_unlocked(sec, 1)
          /\ Return(build_nrc(UDS_NRC_SECURITY_ACCESS_DENIED))
       \/ /\ did_table[req.did].requires_security => security_is_unlocked(sec, 1)
          /\ GoTo("write_owner")
    /\ UNCHANGED <<ecuVars, now, authorised, s3Vars, defaultBy>>

(* Third critical section: owner_write. *)
h_write_did_owner ==
    /\ dpc = "write_owner"
    /\ \/ /\ ~owner_write_ok(req.len - 3)
          /\ Return(build_nrc(UDS_NRC_CONDITIONS_NOT_CORRECT))
          /\ UNCHANGED owner
       \/ /\ owner_write_ok(req.len - 3)
          /\ owner' = [name |-> req.name, len |-> req.len - 3]
          /\ Return(Positive(3))
    /\ UNCHANGED <<session, last_tp, sec, dtcs, now, authorised, s3Vars, defaultBy>>

-----------------------------------------------------------------------------

(* 0x3E. *)
h_tester_present ==
    /\ Handling(UDS_SID_TESTER_PRESENT)
    /\ \/ /\ req.len # 2
          /\ Return(build_nrc(UDS_NRC_INCORRECT_MESSAGE_LENGTH))
          /\ UNCHANGED <<session, last_tp, defaultBy>>
       \/ /\ req.len = 2 /\ Sub(req) # 0
          /\ Return(build_nrc(UDS_NRC_SUB_FUNCTION_NOT_SUPPORTED))
          /\ UNCHANGED <<session, last_tp, defaultBy>>
       \/ /\ req.len = 2 /\ Sub(req) = 0
          /\ vecu_mark_tester_present
          /\ Return(PositiveSub(req, 2, 0))
    /\ UNCHANGED <<sec, owner, dtcs, now, authorised, s3Vars>>

DISPATCH == {UDS_SID_DIAGNOSTIC_SESSION_CONTROL, UDS_SID_ECU_RESET, UDS_SID_CLEAR_DTC,
             UDS_SID_READ_DTC, UDS_SID_READ_DATA_BY_IDENTIFIER, UDS_SID_SECURITY_ACCESS,
             UDS_SID_WRITE_DATA_BY_IDENTIFIER, UDS_SID_TESTER_PRESENT}

(* uds_process_request finds no handler. *)
service_not_supported ==
    /\ dpc = "handle" /\ req.sid \notin DISPATCH
    /\ Return(build_nrc(UDS_NRC_SERVICE_NOT_SUPPORTED))
    /\ UNCHANGED <<ecuVars, now, authorised, s3Vars, defaultBy>>

MutantSendsSuppressed ==
    /\ dpc = "respond"
    /\ sent' = (resp.rc # FAILED /\ resp.len # 0)
    /\ dpc' = "pop"
    /\ req' = NoRequest
    /\ resp' = NoResponse
    /\ authorised' = FALSE
    /\ UNCHANGED <<ecuVars, now, s3Vars, defaultBy>>

(* The dispatcher sends the response, or drops it when the handler failed  *)
(* or the tester wants no positive answer, and turns to the queue again.   *)
Respond ==
    /\ dpc = "respond"
    /\ sent' = (resp.rc = OK /\ resp.len # 0)
    /\ dpc' = "pop"
    /\ req' = NoRequest
    /\ resp' = NoResponse
    /\ authorised' = FALSE
    /\ UNCHANGED <<ecuVars, now, s3Vars, defaultBy>>

-----------------------------------------------------------------------------
(* The S3 thread.  Its sleep may take any time, and waking up in the       *)
(* default session changes nothing.                                        *)

S3Poll ==
    /\ spc = "sleep"
    /\ session # UDS_SESSION_DEFAULT
    /\ spc' = "read_now"
    /\ UNCHANGED <<ecuVars, now, dispVars, s_now, s_last_tp, defaultBy>>

S3ReadNow ==
    /\ spc = "read_now"
    /\ s_now' = now
    /\ spc' = "read_tp"
    /\ UNCHANGED <<ecuVars, now, dispVars, s_last_tp, defaultBy>>

\* uint64_t subtraction.
U64Minus(a, b) == IF a >= b THEN a - b ELSE (U64 + a) - b

\* s3_thread_main: `now - last_tp > S3_TIMEOUT_MS'.
S3Expired(t, tp) == U64Minus(t, tp) > S3_TIMEOUT_MS

S3ReadTp ==
    /\ spc = "read_tp"
    /\ \/ /\ S3Expired(s_now, last_tp)
          /\ s_last_tp' = last_tp
          /\ spc' = "revert"
          /\ UNCHANGED s_now
       \/ /\ ~S3Expired(s_now, last_tp)
          /\ spc' = "sleep"
          /\ s_now' = 0
          /\ UNCHANGED s_last_tp
    /\ UNCHANGED <<ecuVars, now, dispVars, defaultBy>>

MutantRevertForgetsRelock ==
    /\ spc = "revert"
    /\ vecu_set_session(UDS_SESSION_DEFAULT, "s3")
    /\ spc' = "sleep"
    /\ UNCHANGED <<sec, owner, dtcs, now, dispVars, s_now, s_last_tp>>

S3Revert ==
    /\ spc = "revert"
    /\ vecu_set_session(UDS_SESSION_DEFAULT, "s3")
    /\ spc' = "relock"
    /\ UNCHANGED <<sec, owner, dtcs, now, dispVars, s_now, s_last_tp>>

S3Relock ==
    /\ spc = "relock"
    /\ sec' = security_relock(sec)
    /\ spc' = "sleep"
    /\ s_now' = 0
    /\ s_last_tp' = 0
    /\ UNCHANGED <<session, last_tp, owner, dtcs, now, dispVars, defaultBy>>

-----------------------------------------------------------------------------

\* The clock.  Once the tester has left, time only passes when the request
\* in hand is done: a handler takes milliseconds, the S3 timeout seconds.
Tick ==
    /\ now < MaxTime
    /\ now >= TesterLeaves => dpc = "pop"
    /\ now' = now + 1
    /\ UNCHANGED <<ecuVars, dispVars, s3Vars, defaultBy>>

Handler ==
    \/ h_session_control \/ h_ecu_reset \/ h_ecu_reset_security
    \/ h_clear_dtc \/ h_read_dtc \/ h_read_did
    \/ h_security_access \/ (\E raw \in Entropy : h_request_seed(raw)) \/ h_send_key
    \/ h_write_did \/ h_write_did_security \/ h_write_did_owner
    \/ h_tester_present \/ service_not_supported
    \/ Respond

S3 == S3Poll \/ S3ReadNow \/ S3ReadTp \/ S3Revert \/ S3Relock

Next == (\E r \in Requests : Pop(r)) \/ Handler \/ S3 \/ Tick

Spec == Init /\ [][Next]_vars

\* Threads are scheduled and time passes; testers owe nothing.
FairSpec == Spec /\ WF_vars(Handler) /\ WF_vars(S3) /\ WF_vars(Tick)

-----------------------------------------------------------------------------
(* Properties. *)

\* Type invariant of the ECU state and of the two threads' locals; the owner
\* name always fits its buffer.
TypeOK ==
    /\ session \in Sessions
    /\ last_tp \in 0..now
    /\ sec \in SecurityState
    /\ owner.len \in 1..OWNER_NAME_CAP
    /\ owner.name \in OwnerNames \cup {"ANONYMOUS"}
    /\ dtcs \subseteq DtcsAtBoot
    /\ now \in 0..MaxTime
    /\ dpc \in {"pop", "handle", "reset_security", "security",
                "write_security", "write_owner", "respond"}
    /\ IF dpc = "pop" THEN req = NoRequest ELSE req \in Requests
    /\ resp \in Responses
    /\ sent \in BOOLEAN
    /\ authorised \in BOOLEAN
    /\ spc \in {"sleep", "read_now", "read_tp", "revert", "relock"}
    /\ s_now \in 0..now
    /\ s_last_tp \in 0..now
    /\ defaultBy \in {"init", "tester", "reset", "s3"}

Unlocked == security_is_unlocked(sec, 1)

(***************************************************************************)
(* h_write_did looks at the session and at the security level one after    *)
(* the other, and the S3 thread may revert and relock in between.  Still   *)
(* every write is justified by one instant at which the ECU was in a       *)
(* non-default session and unlocked, not by halves of two of them.         *)
(***************************************************************************)
WriteWasAuthorised == dpc = "write_owner" => authorised

(***************************************************************************)
(* The default session is locked, unless the tester selected it with       *)
(* 0x10 01 or a thread is about to lock it.  In particular a key that was  *)
(* on its way when the S3 timer expired does not unlock the ECU after the  *)
(* S3 thread is done with it.                                              *)
(***************************************************************************)
DefaultSessionLocked ==
    session = UDS_SESSION_DEFAULT /\ Unlocked =>
        defaultBy = "tester" \/ spc = "relock" \/ dpc = "reset_security"

(* No handler builds a response longer than the buffer it was given. *)
ResponseFits == dpc = "respond" => resp.len <= RESP_CAP

\* Services with a sub-function byte.
SubFunctionServices ==
    {UDS_SID_DIAGNOSTIC_SESSION_CONTROL, UDS_SID_ECU_RESET, UDS_SID_READ_DTC,
     UDS_SID_SECURITY_ACCESS, UDS_SID_TESTER_PRESENT}

(***************************************************************************)
(* Every request is answered unless it asked for silence and succeeded:    *)
(* "only suppress the positive case - NRCs are always sent" (src/uds.c).   *)
(***************************************************************************)
AnsweredUnlessSuppressed ==
    [][dpc = "respond" /\ dpc' = "pop" =>
          (~sent' <=> /\ req.sid \in SubFunctionServices
                      /\ SuppressPosResp(req)
                      /\ resp.nrc = NO_NRC)]_vars

\* The security component, as used by the dispatcher and the S3 thread.
SA == INSTANCE SecurityAccess WITH
    Levels <- {Level(r) : r \in Requests},
    Keys   <- {r.key : r \in Requests}

\* The ECU never touches the security state other than through the critical
\* sections that SecurityAccess allows: all that is shown there holds here.
ImplementsSecurityAccess == SA!Spec

(***************************************************************************)
(* S3: a tester that leaves the ECU in a non-default session finds it back *)
(* in the default session and locked.                                      *)
(***************************************************************************)
SilenceEndsAccess ==
    (now > TesterLeaves /\ session # UDS_SESSION_DEFAULT)
        ~> (session = UDS_SESSION_DEFAULT /\ ~Unlocked)

-----------------------------------------------------------------------------
(* Expectations of the documentation that the code does not meet. *)

(* src/threads.c: S3 reverts "if no TesterPresent is received within       *)
(* S3_TIMEOUT_MS": a live session is not reverted, neither because the     *)
(* time stamp overtook the clock reading and the difference wrapped, nor   *)
(* because a TesterPresent or a session request came after the decision.   *)
S3SparesLiveSession ==
    [][spc = "revert" /\ spc' = "relock" /\ session # UDS_SESSION_DEFAULT =>
          now - last_tp > S3_TIMEOUT_MS]_vars

(* src/threads.c: S3 "keeps a real ECU from staying unlocked when the      *)
(* tester walks away".                                                     *)
TesterGoneMeansLocked == (now > TesterLeaves) ~> ~Unlocked
=============================================================================
